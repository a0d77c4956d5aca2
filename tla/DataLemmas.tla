----------------------------- MODULE DataLemmas -----------------------------
(***************************************************************************)
(* Facts about numbers, sequences and recursive functions that the proofs  *)
(* of several components rest on.                                          *)
(*                                                                         *)
(* Induction is by sets: a set of naturals that has 0 and the successor of *)
(* each of its members has them all.  A recursive function is given by its *)
(* steps as a function, and is shown to exist.                             *)
(***************************************************************************)
EXTENDS Integers, FiniteSets, SequencesExt, Filtering, SequenceTheorems,
        FiniteSetTheorems, WellFoundedInduction, TLAPS

(* A set of numbers that is not empty has a least one, and Min is it.      *)
LEMMA MinIsLeast ==
  ASSUME NEW S, S \subseteq Nat, S # {}
  PROVE  Min(S) \in S /\ \A y \in S : Min(S) <= y
<1> DEFINE Less == {p \in Nat \X Nat : p[1] < p[2]}
<1>1. IsWellFoundedOn(Less, Nat)
  BY NatLessThanWellFounded, Zenon DEF OpToRel
<1>2. \E x \in S : \A y \in S : <<y, x>> \notin Less
  <2> HIDE DEF Less
  <2> QED BY <1>1, WFMin, Zenon
<1>3. \E x \in S : \A y \in S : x <= y
  <2>1. PICK x \in S : \A y \in S : <<y, x>> \notin Less
    BY <1>2
  <2>2. ASSUME NEW y \in S PROVE x <= y
    <3>1. ~ (y < x)
      BY <2>1
    <3>2. QED
      BY <3>1
  <2>3. QED
    BY <2>2
<1>4. QED
  BY <1>3 DEF Min

(* What is in a set of numbers and under all of them is its Min.           *)
LEMMA LeastIsMin ==
  ASSUME NEW S, S \subseteq Nat, NEW m \in S, \A y \in S : m <= y
  PROVE  Min(S) = m
<1>1. Min(S) \in S /\ \A y \in S : Min(S) <= y
  BY MinIsLeast
<1>2. Min(S) <= m /\ m <= Min(S) /\ Min(S) \in Nat /\ m \in Nat
  BY <1>1
<1>3. QED
  BY <1>2

(* Induction up to n.                                                      *)
LEMMA UpTo ==
  ASSUME NEW n \in Nat, NEW S, 0 \in S,
         \A i \in 0..n-1 : i \in S => i + 1 \in S
  PROVE  \A i \in 0..n : i \in S
<1> DEFINE Bad == (0..n) \ S
<1> SUFFICES ASSUME Bad # {} PROVE FALSE
  OBVIOUS
<1>1. Bad \subseteq Nat
  OBVIOUS
<1>2. PICK m \in Bad : \A y \in Bad : m <= y
  <2> HIDE DEF Bad
  <2> QED BY <1>1, MinIsLeast
<1>3. m # 0 /\ m \in 0..n /\ m \notin S
  OBVIOUS
<1>4. m - 1 \in 0..n-1
  BY <1>3
<1>5. m - 1 \notin Bad
  BY <1>2, <1>4
<1>6. m - 1 \in S
  BY <1>4, <1>5
<1>7. QED
  BY <1>3, <1>4, <1>6

-----------------------------------------------------------------------------
(* A sequence with one place cut out of it.                                *)
LEMMA RemoveAtEntries ==
  ASSUME NEW S, NEW s \in Seq(S), NEW i \in 1..Len(s)
  PROVE  /\ RemoveAt(s, i) \in Seq(S)
         /\ Len(RemoveAt(s, i)) = Len(s) - 1
         /\ \A j \in 1..Len(s) - 1 :
              RemoveAt(s, i)[j] = IF j < i THEN s[j] ELSE s[j + 1]
<1> DEFINE front == SubSeq(s, 1, i - 1)
           back == SubSeq(s, i + 1, Len(s))
<1>1. front \in Seq(S) /\ Len(front) = i - 1 /\ \A j \in 1..i - 1 : front[j] = s[j]
  OBVIOUS
<1>2. /\ back \in Seq(S) /\ Len(back) = Len(s) - i
      /\ \A j \in 1..Len(s) - i : back[j] = s[i + j]
  OBVIOUS
<1>3. RemoveAt(s, i) = front \o back
  BY DEF RemoveAt
<1> HIDE DEF front, back
<1>4. front \o back \in Seq(S) /\ Len(front \o back) = Len(front) + Len(back)
  BY <1>1, <1>2, ConcatProperties
<1>5. ASSUME NEW j \in 1..Len(s) - 1
      PROVE  (front \o back)[j] = IF j < i THEN s[j] ELSE s[j + 1]
  <2>1. (front \o back)[j] = IF j <= Len(front) THEN front[j] ELSE back[j - Len(front)]
    BY <1>1, <1>2, ConcatProperties
  <2>2. CASE j < i
    BY <2>1, <2>2, <1>1
  <2>3. CASE ~(j < i)
    <3>1. j - Len(front) \in 1..Len(s) - i
      BY <2>3, <1>1
    <3>2. QED
      BY <2>1, <2>3, <3>1, <1>1, <1>2
  <2>4. QED
    BY <2>2, <2>3
<1>6. QED
  BY <1>1, <1>2, <1>3, <1>4, <1>5

(* The sequences SeqOf enumerates are sequences.                           *)
LEMMA SeqOfIsSeq ==
  ASSUME NEW S, NEW n
  PROVE  SeqOf(S, n) \subseteq Seq(S)
<1>1. ASSUME NEW s \in SeqOf(S, n) PROVE s \in Seq(S)
  <2>1. PICK m \in 0..n : s \in [1..m -> S]
    BY DEF SeqOf
  <2>2. QED
    BY <2>1
<1>2. QED
  BY <1>1

-----------------------------------------------------------------------------
(* The members of a sequence, and whether one comes twice.                 *)

LEMMA MembersOfSeq ==
  ASSUME NEW S, NEW s \in Seq(S)
  PROVE  /\ ToSet(s) \subseteq S
         /\ IsFiniteSet(ToSet(s)) /\ Cardinality(ToSet(s)) <= Len(s)
         /\ ToSet(s) = {} <=> s = <<>>
<1>1. DOMAIN s = 1..Len(s) /\ Len(s) \in Nat /\ \A i \in 1..Len(s) : s[i] \in S
  BY ElementOfSeq
<1>2. ToSet(s) \subseteq S
  BY <1>1 DEF ToSet
<1>3. IsFiniteSet(1..Len(s)) /\ Cardinality(1..Len(s)) = Len(s)
  <2>1. 1 \in Int /\ Len(s) \in Int
    BY <1>1
  <2>2. IsFiniteSet(1..Len(s)) /\ Cardinality(1..Len(s)) = IF 1 > Len(s) THEN 0 ELSE Len(s) - 1 + 1
    BY <2>1, FS_Interval
  <2>3. QED
    BY <1>1, <2>2
<1>4. s \in Surjection(1..Len(s), ToSet(s))
  BY <1>1 DEF Surjection, ToSet
<1>5. IsFiniteSet(ToSet(s)) /\ Cardinality(ToSet(s)) <= Len(s)
  BY <1>3, <1>4, FS_Surjection
<1>6. ToSet(s) = {} <=> s = <<>>
  BY <1>1 DEF ToSet
<1>7. QED
  BY <1>2, <1>5, <1>6

LEMMA MembersOfAppend ==
  ASSUME NEW S, NEW s \in Seq(S), NEW e \in S
  PROVE  /\ ToSet(Append(s, e)) = ToSet(s) \cup {e}
         /\ IsInjective(s) /\ e \notin ToSet(s) => IsInjective(Append(s, e))
<1> DEFINE t == Append(s, e)
<1>1. DOMAIN s = 1..Len(s) /\ Len(s) \in Nat
  OBVIOUS
<1>2. /\ DOMAIN t = 1..Len(s) + 1 /\ t[Len(s) + 1] = e
      /\ \A i \in 1..Len(s) : t[i] = s[i]
  OBVIOUS
<1>3. DOMAIN t = DOMAIN s \cup {Len(s) + 1} /\ Len(s) + 1 \notin DOMAIN s
  BY <1>1, <1>2
<1> HIDE DEF t
<1>4. ToSet(t) = ToSet(s) \cup {e}
  BY <1>1, <1>2, <1>3 DEF ToSet
<1>5. ASSUME IsInjective(s), e \notin ToSet(s) PROVE IsInjective(t)
  <2>1. \A i \in DOMAIN s : s[i] # e
    BY <1>5 DEF ToSet
  <2>2. QED
    BY <1>1, <1>2, <1>3, <1>5, <2>1 DEF IsInjective
<1>6. QED
  BY <1>4, <1>5 DEF t

LEMMA MembersOfConcat ==
  ASSUME NEW S, NEW s \in Seq(S), NEW t \in Seq(S)
  PROVE  ToSet(s \o t) = ToSet(s) \cup ToSet(t)
<1>1. /\ DOMAIN s = 1..Len(s) /\ DOMAIN t = 1..Len(t) /\ Len(s) \in Nat /\ Len(t) \in Nat
      /\ DOMAIN (s \o t) = 1..Len(s) + Len(t)
  BY ConcatProperties
<1>2. \A i \in 1..Len(s) + Len(t) : (s \o t)[i] = IF i <= Len(s) THEN s[i] ELSE t[i - Len(s)]
  BY ConcatProperties
<1> DEFINE c == s \o t
<1> HIDE DEF c
<1>3. \A i \in DOMAIN s : i \in DOMAIN c /\ c[i] = s[i]
  BY <1>1, <1>2 DEF c
<1>4. \A i \in DOMAIN t : i + Len(s) \in DOMAIN c /\ c[i + Len(s)] = t[i]
  BY <1>1, <1>2 DEF c
<1>5. \A i \in DOMAIN c :
        \/ i \in DOMAIN s /\ c[i] = s[i]
        \/ i - Len(s) \in DOMAIN t /\ c[i] = t[i - Len(s)]
  BY <1>1, <1>2 DEF c
<1>6. ToSet(c) = ToSet(s) \cup ToSet(t)
  BY <1>3, <1>4, <1>5 DEF ToSet
<1>7. QED
  BY <1>6 DEF c

LEMMA MembersOfTail ==
  ASSUME NEW S, NEW s \in Seq(S), s # <<>>
  PROVE  /\ ToSet(s) = {Head(s)} \cup ToSet(Tail(s))
         /\ IsInjective(s) => IsInjective(Tail(s)) /\ Head(s) \notin ToSet(Tail(s))
<1>1. /\ DOMAIN s = 1..Len(s) /\ Len(s) \in Nat /\ Len(s) > 0 /\ Head(s) = s[1]
  BY EmptySeq
<1>2. /\ DOMAIN Tail(s) = 1..Len(s) - 1
      /\ \A i \in 1..Len(s) - 1 : Tail(s)[i] = s[i + 1]
  BY HeadTailProperties
<1> DEFINE t == Tail(s)
<1> HIDE DEF t
<1>3. \A i \in DOMAIN t : i + 1 \in DOMAIN s /\ t[i] = s[i + 1]
  BY <1>1, <1>2 DEF t
<1>4. \A i \in DOMAIN s : i # 1 => i - 1 \in DOMAIN t /\ t[i - 1] = s[i]
  BY <1>1, <1>2 DEF t
<1>5. 1 \in DOMAIN s
  BY <1>1
<1>6. ToSet(s) = {Head(s)} \cup ToSet(t)
  BY <1>1, <1>3, <1>4, <1>5 DEF ToSet
<1>7. ASSUME IsInjective(s) PROVE IsInjective(t) /\ Head(s) \notin ToSet(t)
  <2>1. \A i, j \in DOMAIN t : t[i] = t[j] => i = j
    <3> SUFFICES ASSUME NEW i \in DOMAIN t, NEW j \in DOMAIN t, t[i] = t[j] PROVE i = j
      OBVIOUS
    <3>1. i + 1 = j + 1
      BY <1>3, <1>7 DEF IsInjective
    <3>2. QED
      BY <3>1, <1>2 DEF t
  <2>2. \A i \in DOMAIN t : t[i] # s[1]
    <3> SUFFICES ASSUME NEW i \in DOMAIN t, t[i] = s[1] PROVE FALSE
      OBVIOUS
    <3>1. i + 1 = 1
      BY <1>3, <1>5, <1>7 DEF IsInjective
    <3>2. QED
      BY <3>1, <1>2 DEF t
  <2>3. QED
    BY <1>1, <2>1, <2>2 DEF IsInjective, ToSet
<1>8. QED
  BY <1>6, <1>7 DEF t

LEMMA MembersOfReverse ==
  ASSUME NEW S, NEW s \in Seq(S)
  PROVE  /\ Reverse(s) \in Seq(S) /\ Len(Reverse(s)) = Len(s)
         /\ ToSet(Reverse(s)) = ToSet(s)
         /\ IsInjective(s) => IsInjective(Reverse(s))
<1> DEFINE r == Reverse(s)
<1>1. DOMAIN s = 1..Len(s) /\ Len(s) \in Nat /\ \A i \in 1..Len(s) : s[i] \in S
  BY ElementOfSeq
<1>2. r = [i \in 1..Len(s) |-> s[Len(s) - i + 1]]
  BY DEF Reverse
<1>3. \A i \in 1..Len(s) : Len(s) - i + 1 \in 1..Len(s) /\ Len(s) - (Len(s) - i + 1) + 1 = i
  BY <1>1
<1>4. r \in Seq(S) /\ Len(r) = Len(s) /\ DOMAIN r = DOMAIN s
  BY <1>1, <1>2, <1>3
<1>5. \A i \in DOMAIN s : r[i] = s[Len(s) - i + 1] /\ Len(s) - i + 1 \in DOMAIN s
  BY <1>1, <1>2, <1>3
<1> HIDE DEF r
<1>6. \A i \in DOMAIN s : r[Len(s) - i + 1] = s[i]
  BY <1>1, <1>3, <1>5
<1>7. ToSet(r) = ToSet(s)
  BY <1>4, <1>5, <1>6 DEF ToSet
<1>8. ASSUME IsInjective(s) PROVE IsInjective(r)
  <2> SUFFICES ASSUME NEW i \in DOMAIN r, NEW j \in DOMAIN r, r[i] = r[j] PROVE i = j
    BY DEF IsInjective
  <2>1. Len(s) - i + 1 = Len(s) - j + 1
    BY <1>4, <1>5, <1>8 DEF IsInjective
  <2>2. QED
    BY <1>1, <1>4, <2>1
<1>9. QED
  BY <1>4, <1>7, <1>8 DEF r

(* A sequence without repetitions is no longer than what it draws from.    *)
LEMMA InjectiveFits ==
  ASSUME NEW S, IsFiniteSet(S), NEW s \in Seq(S), IsInjective(s)
  PROVE  Len(s) <= Cardinality(S) /\ s \in SeqOf(S, Cardinality(S))
<1>1. DOMAIN s = 1..Len(s) /\ Len(s) \in Nat /\ s \in [1..Len(s) -> S]
  BY ElementOfSeq
<1>2. /\ IsFiniteSet(1..Len(s)) /\ Cardinality(1..Len(s)) = Len(s)
      /\ Cardinality(S) \in Nat
  <2>1. 1 \in Int /\ Len(s) \in Int
    BY <1>1
  <2>2. IsFiniteSet(1..Len(s)) /\ Cardinality(1..Len(s)) = IF 1 > Len(s) THEN 0 ELSE Len(s) - 1 + 1
    BY <2>1, FS_Interval
  <2>3. QED
    BY <1>1, <2>2, FS_CardinalityType
<1>3. ~(Cardinality(S) < Cardinality(1..Len(s)))
  <2> SUFFICES ASSUME Cardinality(S) < Cardinality(1..Len(s)) PROVE FALSE
    OBVIOUS
  <2>1. \E i, j \in 1..Len(s) : i # j /\ s[i] = s[j]
    BY <1>1, <1>2, FS_PigeonHole
  <2>2. QED
    BY <1>1, <2>1 DEF IsInjective
<1>4. Len(s) <= Cardinality(S)
  BY <1>1, <1>2, <1>3
<1>5. QED
  BY <1>1, <1>2, <1>4 DEF SeqOf

-----------------------------------------------------------------------------
(* Moving the head of one sequence to the end of another.                  *)

LEMMA ShiftSome ==
  ASSUME NEW S, NEW s \in Seq(S), NEW t \in Seq(S), t # <<>>, NEW k \in 0..Len(t) - 1
  PROVE  Append(s, Head(t)) \o SubSeq(Tail(t), 1, k) = s \o SubSeq(t, 1, k + 1)
<1> DEFINE a == Append(s, Head(t))
           b == SubSeq(Tail(t), 1, k)
           d == SubSeq(t, 1, k + 1)
<1>1. /\ Len(t) \in Nat /\ Len(t) > 0 /\ Head(t) = t[1] /\ t[1] \in S
      /\ Tail(t) \in Seq(S) /\ Len(Tail(t)) = Len(t) - 1 /\ Len(s) \in Nat
      /\ \A i \in 1..Len(t) - 1 : Tail(t)[i] = t[i + 1]
  BY EmptySeq, HeadTailProperties
<1>2. /\ a \in Seq(S) /\ Len(a) = Len(s) + 1 /\ a[Len(s) + 1] = t[1]
      /\ \A i \in 1..Len(s) : a[i] = s[i]
  BY <1>1, AppendProperties
<1>3. b \in Seq(S) /\ Len(b) = k /\ \A i \in 1..k : b[i] = t[i + 1]
  <2>1. \A i \in 1..k : Tail(t)[i] \in S
    BY <1>1
  <2>2. /\ b \in Seq(S) /\ Len(b) = (IF 1 <= k THEN k - 1 + 1 ELSE 0)
        /\ \A i \in 1..k - 1 + 1 : b[i] = Tail(t)[1 + i - 1]
    <3> HIDE DEF b
    <3>1. 1 \in Int /\ k \in Int
      OBVIOUS
    <3>2. QED
      BY <2>1, <3>1, SubSeqProperties DEF b
  <2>3. QED
    BY <1>1, <2>2
<1>4. d \in Seq(S) /\ Len(d) = k + 1 /\ \A i \in 1..k + 1 : d[i] = t[i]
  <2>1. \A i \in 1..k + 1 : t[i] \in S
    BY <1>1
  <2>2. /\ d \in Seq(S) /\ Len(d) = (IF 1 <= k + 1 THEN k + 1 - 1 + 1 ELSE 0)
        /\ \A i \in 1..k + 1 - 1 + 1 : d[i] = t[1 + i - 1]
    <3> HIDE DEF d
    <3>1. 1 \in Int /\ k + 1 \in Int
      OBVIOUS
    <3>2. QED
      BY <2>1, <3>1, SubSeqProperties DEF d
  <2>3. QED
    BY <1>1, <2>2
<1> HIDE DEF a, b, d
<1>5. /\ a \o b \in Seq(S) /\ Len(a \o b) = Len(s) + 1 + k
      /\ \A i \in 1..Len(s) + 1 + k :
           (a \o b)[i] = IF i <= Len(s) + 1 THEN a[i] ELSE b[i - (Len(s) + 1)]
  <2>1. /\ a \o b \in Seq(S) /\ Len(a \o b) = Len(a) + Len(b)
        /\ \A i \in 1..Len(a) + Len(b) : (a \o b)[i] = IF i <= Len(a) THEN a[i] ELSE b[i - Len(a)]
    BY <1>2, <1>3, ConcatProperties
  <2>2. QED
    BY <1>2, <1>3, <2>1
<1>6. /\ s \o d \in Seq(S) /\ Len(s \o d) = Len(s) + (k + 1)
      /\ \A i \in 1..Len(s) + (k + 1) : (s \o d)[i] = IF i <= Len(s) THEN s[i] ELSE d[i - Len(s)]
  <2>1. /\ s \o d \in Seq(S) /\ Len(s \o d) = Len(s) + Len(d)
        /\ \A i \in 1..Len(s) + Len(d) : (s \o d)[i] = IF i <= Len(s) THEN s[i] ELSE d[i - Len(s)]
    BY <1>4, ConcatProperties
  <2>2. QED
    BY <1>4, <2>1
<1> DEFINE x == a \o b
           y == s \o d
<1>7. /\ x \in Seq(S) /\ y \in Seq(S) /\ Len(x) = Len(s) + 1 + k /\ Len(y) = Len(s) + 1 + k
      /\ \A i \in 1..Len(s) + 1 + k : x[i] = IF i <= Len(s) + 1 THEN a[i] ELSE b[i - (Len(s) + 1)]
      /\ \A i \in 1..Len(s) + 1 + k : y[i] = IF i <= Len(s) THEN s[i] ELSE d[i - Len(s)]
  BY <1>1, <1>5, <1>6
<1> HIDE DEF x, y
<1>8. ASSUME NEW i \in 1..Len(x) PROVE x[i] = y[i]
  <2>1. i \in 1..Len(s) + 1 + k
    BY <1>7
  <2>2. CASE i <= Len(s)
    BY <1>1, <1>2, <1>7, <2>1, <2>2
  <2>3. CASE i = Len(s) + 1
    <3>1. x[i] = t[1]
      BY <1>1, <1>2, <1>7, <2>1, <2>3
    <3>2. y[i] = d[1]
      BY <1>1, <1>7, <2>1, <2>3
    <3>3. QED
      BY <1>4, <3>1, <3>2
  <2>4. CASE i > Len(s) + 1
    <3>1. i - (Len(s) + 1) \in 1..k /\ i - Len(s) \in 1..k + 1
      BY <1>1, <2>1, <2>4
    <3>2. x[i] = b[i - (Len(s) + 1)] /\ y[i] = d[i - Len(s)]
      BY <1>1, <1>7, <2>1, <2>4
    <3>3. i - (Len(s) + 1) + 1 = i - Len(s)
      BY <1>1, <2>1
    <3>4. QED
      BY <1>3, <1>4, <3>1, <3>2, <3>3
  <2>5. QED
    BY <1>1, <2>1, <2>2, <2>3, <2>4
<1>9. x = y
  BY <1>7, <1>8, SeqEqual
<1>10. QED
  BY <1>9 DEF a, b, d, x, y

LEMMA ShiftAll ==
  ASSUME NEW S, NEW s \in Seq(S), NEW t \in Seq(S), t # <<>>
  PROVE  Append(s, Head(t)) \o Tail(t) = s \o t
<1>1. Len(t) \in Nat /\ Len(t) > 0 /\ Tail(t) \in Seq(S) /\ Len(Tail(t)) = Len(t) - 1
  BY EmptySeq, HeadTailProperties
<1>2. Len(t) - 1 \in 0..Len(t) - 1 /\ Len(t) - 1 + 1 = Len(t)
  BY <1>1
<1>3. SubSeq(t, 1, Len(t)) = t /\ SubSeq(Tail(t), 1, Len(t) - 1) = Tail(t)
  BY <1>1, SubSeqFull
<1>4. Append(s, Head(t)) \o SubSeq(Tail(t), 1, Len(t) - 1) = s \o SubSeq(t, 1, Len(t) - 1 + 1)
  BY <1>2, ShiftSome
<1>5. QED
  BY <1>2, <1>3, <1>4

-----------------------------------------------------------------------------
(* A recursion over 1..n: its step, and what it computes from a base.       *)
StepsOver(T, n) == [T \X (1..n) -> T]

IsRecursion(g, n, T, base, step) ==
  /\ g \in [0..n -> T] /\ g[0] = base
  /\ \A i \in 1..n : g[i] = step[<<g[i - 1], i>>]

(* A function defined by its value at 0 and by a step exists.              *)
LEMMA RecursionExists ==
  ASSUME NEW n \in Nat, NEW T, NEW base \in T, NEW step \in StepsOver(T, n)
  PROVE  \E g : IsRecursion(g, n, T, base, step)
<1> DEFINE Steps(g, m) == /\ g \in [0..m -> T] /\ g[0] = base
                         /\ \A i \in 1..m : g[i] = step[<<g[i - 1], i>>]
           S == {m \in 0..n : \E g : Steps(g, m)}
<1>1. 0 \in S
  <2>1. Steps([i \in 0..0 |-> base], 0)
    OBVIOUS
  <2> HIDE DEF Steps
  <2>2. \E g : Steps(g, 0)
    BY <2>1
  <2>3. QED
    BY <2>2
<1>2. ASSUME NEW m \in 0..n - 1, m \in S PROVE m + 1 \in S
  <2>1. PICK g : Steps(g, m)
    BY <1>2
  <2>2. g[m] \in T /\ m + 1 \in 1..n
    BY <2>1
  <2> DEFINE e == step[<<g[m], m + 1>>]
             h == [i \in 0..m + 1 |-> IF i = m + 1 THEN e ELSE g[i]]
  <2>3. e \in T
    BY <2>2 DEF StepsOver
  <2>4. Steps(h, m + 1)
    <3>1. h \in [0..m + 1 -> T]
      <4> HIDE DEF e
      <4>1. ASSUME NEW i \in 0..m + 1 PROVE (IF i = m + 1 THEN e ELSE g[i]) \in T
        BY <2>1, <2>3
      <4>2. QED
        BY <4>1
    <3>2. h[0] = base
      BY <2>1
    <3>3. ASSUME NEW i \in 1..m + 1 PROVE h[i] = step[<<h[i - 1], i>>]
      <4>1. h[i - 1] = g[i - 1]
        OBVIOUS
      <4>2. CASE i = m + 1
        <5>1. h[i] = e /\ i - 1 = m
          BY <4>2
        <5>2. QED
          BY <4>1, <4>2, <5>1
      <4>3. CASE i # m + 1
        <5>1. i \in 1..m /\ h[i] = g[i]
          BY <4>3
        <5>2. QED
          BY <2>1, <4>1, <5>1
      <4>4. QED
        BY <4>2, <4>3
    <3>4. QED
      BY <3>1, <3>2, <3>3
  <2> HIDE DEF Steps, h
  <2>5. \E f : Steps(f, m + 1)
    BY <2>4
  <2>6. m + 1 \in 0..n
    OBVIOUS
  <2>7. QED
    BY <2>5, <2>6
<1>3. n \in S
  <2> HIDE DEF S
  <2>1. \A m \in 0..n - 1 : m \in S => m + 1 \in S
    BY <1>2
  <2>2. \A m \in 0..n : m \in S
    BY <1>1, <2>1, UpTo
  <2>3. QED
    BY <2>2
<1>4. PICK g : Steps(g, n)
  BY <1>3
<1>5. QED
  BY <1>4 DEF IsRecursion

-----------------------------------------------------------------------------
(* Flattening a sequence of sequences: what it has after each of them.     *)
Flattens(F, seqs, S) ==
  /\ F \in [0..Len(seqs) -> Seq(S)] /\ F[0] = <<>>
  /\ \A i \in 1..Len(seqs) : F[i] = F[i - 1] \o seqs[i]

LEMMA FlattenHasSteps ==
  ASSUME NEW S, NEW seqs \in Seq(Seq(S))
  PROVE  \E F : Flattens(F, seqs, S) /\ FlattenSeq(seqs) = F[Len(seqs)]
<1> DEFINE n == Len(seqs)
           T == Seq(S)
           step == [p \in T \X (1..n) |-> p[1] \o seqs[p[2]]]
           base == <<>>
<1>1. n \in Nat /\ \A i \in 1..n : seqs[i] \in T
  BY ElementOfSeq
<1>2. step \in StepsOver(T, n) /\ base \in T
  <2>1. \A s \in T, i \in 1..n : s \o seqs[i] \in T
    BY <1>1, ConcatProperties
  <2>2. base \in T
    OBVIOUS
  <2> HIDE DEF T
  <2>3. \A p \in T \X (1..n) : p[1] \in T /\ p[2] \in 1..n
    OBVIOUS
  <2>4. QED
    BY <2>1, <2>2, <2>3 DEF StepsOver
<1>3. \E g : IsRecursion(g, n, T, base, step)
  <2> HIDE DEF step, T, n, base
  <2>1. QED
    BY <1>1, <1>2, RecursionExists
<1>4. PICK F : IsRecursion(F, n, T, base, step)
  BY <1>3
<1>5. F \in [0..n -> T] /\ F[0] = <<>> /\ \A i \in 1..n : F[i] = F[i - 1] \o seqs[i]
  <2>1. F \in [0..n -> T] /\ F[0] = <<>> /\ \A i \in 1..n : F[i] = step[<<F[i - 1], i>>]
    BY <1>4 DEF IsRecursion
  <2>2. ASSUME NEW i \in 1..n PROVE step[<<F[i - 1], i>>] = F[i - 1] \o seqs[i]
    <3> HIDE DEF T
    <3> HIDE DEF n, step
    <3>1. i - 1 \in 0..n
      BY <1>1
    <3>2. F[i - 1] \in T
      BY <2>1, <3>1
    <3>3. <<F[i - 1], i>> \in T \X (1..n)
      BY <3>2
    <3>4. QED
      BY <3>3 DEF step
  <2> HIDE DEF step, T
  <2>3. QED
    BY <2>1, <2>2
<1>6. Flattens(F, seqs, S)
  BY <1>5 DEF Flattens
<1> HIDE DEF T
<1>7. CASE n = 0
  <2>1. FlattenSeq(seqs) = <<>>
    BY <1>7, EmptySeq DEF FlattenSeq
  <2>2. QED
    BY <1>5, <1>6, <1>7, <2>1
<1>8. CASE n # 0
  <2> DEFINE G == CHOOSE G : G = [i \in 1..n |-> IF i = 1 THEN seqs[i] ELSE G[i - 1] \o seqs[i]]
  <2>1. F[1] = seqs[1]
    <3> HIDE DEF n
    <3>0. 1 \in 1..n /\ 1 - 1 = 0
      BY <1>1, <1>8
    <3>0a. F[1] = F[1 - 1] \o seqs[1]
      BY <1>5, <3>0
    <3>1. F[1] = F[0] \o seqs[1]
      BY <3>0, <3>0a
    <3>2. seqs[1] \in Seq(S)
      BY <1>1, <3>0 DEF T
    <3>3. <<>> \o seqs[1] = seqs[1]
      BY <3>2, ConcatEmptySeq
    <3>4. QED
      BY <1>5, <3>1, <3>3
  <2>2. \E h : h = [i \in 1..n |-> IF i = 1 THEN seqs[i] ELSE h[i - 1] \o seqs[i]]
    <3> DEFINE h == [i \in 1..n |-> F[i]]
    <3>1. ASSUME NEW i \in 1..n
          PROVE  h[i] = IF i = 1 THEN seqs[i] ELSE h[i - 1] \o seqs[i]
      <4>1. CASE i = 1
        BY <2>1, <4>1
      <4>2. CASE i # 1
        <5>1. i - 1 \in 1..n
          BY <1>1, <4>2
        <5>2. QED
          BY <1>5, <4>2, <5>1
      <4>3. QED
        BY <4>1, <4>2
    <3>2. h = [i \in 1..n |-> h[i]]
      OBVIOUS
    <3> HIDE DEF h
    <3>3. QED
      BY <3>1, <3>2
  <2>3. G = [i \in 1..n |-> IF i = 1 THEN seqs[i] ELSE G[i - 1] \o seqs[i]]
    BY <2>2
  <2>4. FlattenSeq(seqs) = G[n]
    BY <1>8 DEF FlattenSeq
  <2> HIDE DEF G
  <2> DEFINE A == {i \in 0..n : i # 0 => G[i] = F[i]}
  <2>5. 0 \in A
    BY <1>1
  <2>6. ASSUME NEW i \in 0..n - 1, i \in A PROVE i + 1 \in A
    <3>1. i + 1 \in 1..n /\ i + 1 \in 0..n /\ i + 1 - 1 = i
      BY <1>1
    <3>2. CASE i = 0
      BY <2>1, <2>3, <3>1, <3>2
    <3>3. CASE i # 0
      <4> DEFINE k == i + 1
      <4>0. k \in 1..n /\ k - 1 = i /\ k # 1
        BY <3>1, <3>3
      <4> HIDE DEF n, k
      <4>0a. F[k] = F[k - 1] \o seqs[k]
        BY <1>5, <4>0
      <4>0b. G[k] = G[k - 1] \o seqs[k]
        BY <2>3, <4>0
      <4>1. G[i + 1] = G[i] \o seqs[i + 1] /\ F[i + 1] = F[i] \o seqs[i + 1]
        BY <4>0, <4>0a, <4>0b DEF k
      <4>2. G[i] = F[i]
        BY <2>6, <3>3
      <4>3. QED
        BY <3>1, <4>1, <4>2
    <3>4. QED
      BY <3>2, <3>3
  <2>7. \A i \in 0..n : i \in A
    <3> HIDE DEF A
    <3>1. QED
      BY <1>1, <2>5, <2>6, UpTo
  <2>8. G[n] = F[n]
    BY <1>1, <1>8, <2>7
  <2>9. QED
    BY <1>6, <2>4, <2>8
<1>9. QED
  BY <1>7, <1>8

(* t is as long, entry by entry, as the beginning of s.                    *)
MeasuresBeginning(t, s) ==
  Len(t) <= Len(s) /\ \A i \in 1..Len(t) : Len(t[i]) = Len(s[i])

(* How long a flattening gets depends on the lengths only.                 *)
LEMMA FlattenLengths ==
  ASSUME NEW S, NEW T, NEW s \in Seq(Seq(S)), NEW t \in Seq(Seq(T)),
         MeasuresBeginning(t, s), NEW F, Flattens(F, s, S)
  PROVE  Len(FlattenSeq(t)) = Len(F[Len(t)])
<1> DEFINE n == Len(t)
<1>0. Len(t) <= Len(s) /\ \A i \in 1..Len(t) : Len(t[i]) = Len(s[i])
  BY DEF MeasuresBeginning
<1>1. /\ n \in Nat /\ Len(s) \in Nat /\ n <= Len(s)
      /\ \A i \in 1..n : t[i] \in Seq(T) /\ s[i] \in Seq(S)
  BY <1>0, ElementOfSeq
<1>2. PICK G : Flattens(G, t, T) /\ FlattenSeq(t) = G[n]
  BY FlattenHasSteps
<1>3. /\ \A i \in 0..n : F[i] \in Seq(S) /\ G[i] \in Seq(T)
      /\ F[0] = <<>> /\ G[0] = <<>>
      /\ \A i \in 1..n : F[i] = F[i - 1] \o s[i] /\ G[i] = G[i - 1] \o t[i]
  <2>1. /\ G \in [0..n -> Seq(T)] /\ G[0] = <<>>
        /\ \A i \in 1..n : G[i] = G[i - 1] \o t[i]
    BY <1>2 DEF Flattens
  <2>2. /\ F \in [0..Len(s) -> Seq(S)] /\ F[0] = <<>>
        /\ \A i \in 1..Len(s) : F[i] = F[i - 1] \o s[i]
    BY DEF Flattens
  <2>3. \A i \in 0..n : i \in 0..Len(s)
    BY <1>1
  <2>4. \A i \in 1..n : i \in 1..Len(s)
    BY <1>1
  <2> HIDE DEF n
  <2>5. QED
    BY <2>1, <2>2, <2>3, <2>4
<1> DEFINE A == {i \in 0..n : Len(G[i]) = Len(F[i])}
<1>4. 0 \in A
  BY <1>1, <1>3
<1>5. ASSUME NEW i \in 0..n - 1, i \in A PROVE i + 1 \in A
  <2>1. i + 1 \in 1..n /\ i + 1 \in 0..n /\ i + 1 - 1 = i /\ i \in 0..n
    BY <1>1
  <2>2. /\ F[i + 1] = F[i] \o s[i + 1] /\ G[i + 1] = G[i] \o t[i + 1]
        /\ F[i] \in Seq(S) /\ G[i] \in Seq(T) /\ s[i + 1] \in Seq(S) /\ t[i + 1] \in Seq(T)
    <3> DEFINE k == i + 1
    <3>0. k \in 1..n /\ k - 1 = i
      BY <2>1
    <3> HIDE DEF n, k
    <3>0a. F[k] = F[k - 1] \o s[k] /\ G[k] = G[k - 1] \o t[k]
      BY <1>3, <3>0
    <3>1. F[i + 1] = F[i] \o s[i + 1] /\ G[i + 1] = G[i] \o t[i + 1]
      BY <3>0, <3>0a DEF k
    <3>2. s[i + 1] \in Seq(S) /\ t[i + 1] \in Seq(T)
      BY <1>1, <2>1
    <3>3. F[i] \in Seq(S) /\ G[i] \in Seq(T)
      BY <1>3, <2>1
    <3>4. QED
      BY <2>1, <3>1, <3>2, <3>3
  <2>3. Len(F[i + 1]) = Len(F[i]) + Len(s[i + 1])
    BY <2>2, ConcatProperties
  <2>4. Len(G[i + 1]) = Len(G[i]) + Len(t[i + 1])
    BY <2>2, ConcatProperties
  <2>5. Len(G[i]) = Len(F[i]) /\ Len(t[i + 1]) = Len(s[i + 1])
    BY <1>0, <1>5, <2>1
  <2>6. QED
    BY <2>1, <2>3, <2>4, <2>5
<1>6. \A i \in 0..n : i \in A
  <2> HIDE DEF A
  <2>1. QED
    BY <1>1, <1>4, <1>5, UpTo
<1>7. QED
  BY <1>1, <1>2, <1>6

(* Every entry is in the flattening, behind all that is flattened before.  *)
LEMMA FlattenEntries ==
  ASSUME NEW S, NEW s \in Seq(Seq(S)), NEW F, Flattens(F, s, S), NEW i \in 1..Len(s),
         NEW k \in 1..Len(s[i])
  PROVE  /\ Len(F[i - 1]) + k \in 1..Len(F[Len(s)])
         /\ F[Len(s)][Len(F[i - 1]) + k] = s[i][k]
<1> DEFINE n == Len(s)
           at == Len(F[i - 1]) + k
<1>1. /\ n \in Nat /\ \A j \in 1..n : s[j] \in Seq(S)
      /\ \A j \in 0..n : F[j] \in Seq(S) /\ Len(F[j]) \in Nat
      /\ \A j \in 1..n : F[j] = F[j - 1] \o s[j]
  <2>1. n \in Nat /\ \A j \in 1..n : s[j] \in Seq(S)
    BY ElementOfSeq
  <2>2. \A j \in 0..n : F[j] \in Seq(S)
    BY DEF Flattens
  <2>3. \A j \in 0..n : Len(F[j]) \in Nat
    BY <2>2, LenProperties
  <2>4. QED
    BY <2>1, <2>2, <2>3 DEF Flattens
<1>2. ASSUME NEW j \in 1..n
      PROVE  /\ Len(F[j]) = Len(F[j - 1]) + Len(s[j]) /\ Len(s[j]) \in Nat
             /\ \A m \in 1..Len(F[j]) :
                  F[j][m] = IF m <= Len(F[j - 1]) THEN F[j - 1][m] ELSE s[j][m - Len(F[j - 1])]
  <2>1. j - 1 \in 0..n
    BY <1>1
  <2>2. F[j] = F[j - 1] \o s[j] /\ F[j - 1] \in Seq(S) /\ s[j] \in Seq(S)
    BY <1>1, <2>1
  <2>3. /\ Len(F[j - 1] \o s[j]) = Len(F[j - 1]) + Len(s[j])
        /\ \A m \in 1..Len(F[j - 1]) + Len(s[j]) :
             (F[j - 1] \o s[j])[m] = IF m <= Len(F[j - 1]) THEN F[j - 1][m]
                                     ELSE s[j][m - Len(F[j - 1])]
    BY <2>2, ConcatProperties
  <2>4. Len(s[j]) \in Nat
    BY <2>2, LenProperties
  <2>5. QED
    BY <2>2, <2>3, <2>4
<1> DEFINE A == {j \in 0..n : j >= i => at \in 1..Len(F[j]) /\ F[j][at] = s[i][k]}
<1>3. 0 \in A
  BY <1>1
<1>4. ASSUME NEW j \in 0..n - 1, j \in A PROVE j + 1 \in A
  <2>1. j + 1 \in 1..n /\ j + 1 \in 0..n /\ j + 1 - 1 = j /\ j \in 0..n
    BY <1>1
  <2>2. /\ Len(F[j + 1]) = Len(F[j]) + Len(s[j + 1]) /\ Len(s[j + 1]) \in Nat
        /\ Len(F[j]) \in Nat
        /\ \A m \in 1..Len(F[j + 1]) :
             F[j + 1][m] = IF m <= Len(F[j]) THEN F[j][m] ELSE s[j + 1][m - Len(F[j])]
    <3> DEFINE q == j + 1
               x == F[q - 1]
    <3>1. q \in 1..n /\ q - 1 = j /\ Len(F[j]) \in Nat
      BY <1>1, <2>1
    <3> HIDE DEF n, q
    <3>2. /\ Len(F[q]) = Len(x) + Len(s[q]) /\ Len(s[q]) \in Nat
          /\ \A m \in 1..Len(F[q]) :
               F[q][m] = IF m <= Len(x) THEN x[m] ELSE s[q][m - Len(x)]
      BY <1>2, <3>1
    <3>3. x = F[j]
      BY <3>1
    <3> HIDE DEF x
    <3>4. QED
      BY <3>1, <3>2, <3>3 DEF q
  <2>3. CASE j + 1 < i
    BY <2>1, <2>3
  <2>4. CASE j + 1 = i
    <3>1. Len(F[i - 1]) = Len(F[j]) /\ s[i] = s[j + 1]
      BY <2>1, <2>4
    <3>2. at = Len(F[j]) + k /\ k \in 1..Len(s[j + 1])
      BY <3>1
    <3> HIDE DEF at
    <3>3. at \in 1..Len(F[j + 1]) /\ ~(at <= Len(F[j])) /\ at - Len(F[j]) = k
      <4> DEFINE x == Len(F[j])
                 y == Len(s[j + 1])
                 z == Len(F[j + 1])
      <4>1. z = x + y /\ x \in Nat /\ y \in Nat /\ at = x + k /\ k \in 1..y
        BY <2>2, <3>2
      <4> HIDE DEF x, y, z
      <4>2. at \in 1..z /\ ~(at <= x) /\ at - x = k
        BY <4>1
      <4>3. QED
        BY <4>2 DEF x, z
    <3>4. F[j + 1][at] = s[j + 1][at - Len(F[j])]
      BY <2>2, <3>3
    <3>4a. F[j + 1][at] = s[i][k]
      BY <3>1, <3>3, <3>4
    <3>5. QED
      BY <2>1, <3>3, <3>4a
  <2>5. CASE j + 1 > i
    <3>1. at \in 1..Len(F[j]) /\ F[j][at] = s[i][k]
      BY <1>4, <2>1, <2>5
    <3> HIDE DEF at
    <3>2. at \in 1..Len(F[j + 1]) /\ at <= Len(F[j])
      <4> DEFINE x == Len(F[j])
                 y == Len(s[j + 1])
                 z == Len(F[j + 1])
      <4>1. z = x + y /\ x \in Nat /\ y \in Nat /\ at \in 1..x
        BY <2>2, <3>1
      <4> HIDE DEF x, y, z
      <4>2. at \in 1..z /\ at <= x
        BY <4>1
      <4>3. QED
        BY <4>2 DEF x, z
    <3>3. F[j + 1][at] = F[j][at]
      BY <2>2, <3>2
    <3>4. QED
      BY <2>1, <3>1, <3>2, <3>3
  <2>6. QED
    BY <2>1, <2>3, <2>4, <2>5
<1>5. \A j \in 0..n : j \in A
  <2> HIDE DEF A
  <2>1. QED
    BY <1>1, <1>3, <1>4, UpTo
<1>6. n \in 0..n /\ n >= i
  BY <1>1
<1>7. QED
  BY <1>5, <1>6

(* A sequence, and a sequence of sequences, with g applied to every entry. *)
MapAll(g, s) == [k \in 1..Len(s) |-> g[s[k]]]
MapEach(g, s) == [i \in 1..Len(s) |-> [k \in 1..Len(s[i]) |-> g[s[i][k]]]]

(* Flattening what was mapped maps what was flattened.                     *)
LEMMA FlattenMapped ==
  ASSUME NEW S, NEW T, NEW g \in [S -> T], NEW s \in Seq(Seq(S))
  PROVE  /\ FlattenSeq(s) \in Seq(S)
         /\ FlattenSeq(MapEach(g, s)) = MapAll(g, FlattenSeq(s))
<1> DEFINE n == Len(s)
           t == MapEach(g, s)
           Map(p) == [k \in 1..Len(p) |-> g[p[k]]]
<1>1. n \in Nat /\ \A i \in 1..n : s[i] \in Seq(S)
  BY ElementOfSeq
<1>2. ASSUME NEW p \in Seq(S)
      PROVE  /\ Map(p) \in Seq(T) /\ Len(Map(p)) = Len(p) /\ Len(p) \in Nat
             /\ \A k \in 1..Len(p) : Map(p)[k] = g[p[k]]
  <2>1. Len(p) \in Nat /\ \A k \in 1..Len(p) : p[k] \in S
    BY ElementOfSeq
  <2>2. \A k \in 1..Len(p) : g[p[k]] \in T
    BY <2>1
  <2>3. QED
    BY <2>1, <2>2
<1>3. ASSUME NEW p \in Seq(S), NEW q \in Seq(S) PROVE Map(p \o q) = Map(p) \o Map(q)
  <2> DEFINE c == p \o q
             x == Map(c)
             a == Map(p)
             b == Map(q)
             y == a \o b
  <2>1. /\ c \in Seq(S) /\ Len(c) = Len(p) + Len(q)
        /\ \A i \in 1..Len(p) + Len(q) : c[i] = IF i <= Len(p) THEN p[i] ELSE q[i - Len(p)]
    BY ConcatProperties
  <2> HIDE DEF c
  <2>2. /\ x \in Seq(T) /\ Len(x) = Len(p) + Len(q)
        /\ \A i \in 1..Len(p) + Len(q) : x[i] = g[c[i]]
    BY <1>2, <2>1
  <2>3. /\ a \in Seq(T) /\ Len(a) = Len(p) /\ \A i \in 1..Len(p) : a[i] = g[p[i]]
        /\ b \in Seq(T) /\ Len(b) = Len(q) /\ \A i \in 1..Len(q) : b[i] = g[q[i]]
        /\ Len(p) \in Nat /\ Len(q) \in Nat
    BY <1>2
  <2> HIDE DEF a, b, x, Map
  <2>4. /\ y \in Seq(T) /\ Len(y) = Len(a) + Len(b)
        /\ \A i \in 1..Len(a) + Len(b) : y[i] = IF i <= Len(a) THEN a[i] ELSE b[i - Len(a)]
    <3>1. a \in Seq(T) /\ b \in Seq(T)
      BY <2>3
    <3>2. QED
      BY <3>1, ConcatProperties
  <2> HIDE DEF y
  <2>5. ASSUME NEW i \in 1..Len(p) + Len(q) PROVE x[i] = y[i]
    <3>1. y[i] = IF i <= Len(p) THEN a[i] ELSE b[i - Len(p)]
      BY <2>3, <2>4
    <3>2. x[i] = IF i <= Len(p) THEN g[p[i]] ELSE g[q[i - Len(p)]]
      BY <2>1, <2>2
    <3>3. CASE i <= Len(p)
      <4>1. i \in 1..Len(p)
        BY <2>3, <3>3
      <4>2. QED
        BY <2>3, <3>1, <3>2, <3>3, <4>1
    <3>4. CASE ~(i <= Len(p))
      <4>1. i - Len(p) \in 1..Len(q)
        BY <2>3, <3>4
      <4>2. QED
        BY <2>3, <3>1, <3>2, <3>4, <4>1
    <3>5. QED
      BY <3>3, <3>4
  <2>6. Len(x) = Len(y) /\ Len(x) = Len(p) + Len(q)
    BY <2>2, <2>3, <2>4
  <2>7. x = y
    BY <2>2, <2>4, <2>5, <2>6, SeqEqual
  <2>8. QED
    BY <2>7 DEF x, y, a, b, c
<1> HIDE DEF Map
<1>4. t \in Seq(Seq(T)) /\ Len(t) = n /\ \A i \in 1..n : t[i] = Map(s[i])
  <2>1. t = [i \in 1..n |-> Map(s[i])]
    BY DEF Map, MapEach
  <2>2. \A i \in 1..n : Map(s[i]) \in Seq(T)
    BY <1>1, <1>2
  <2> HIDE DEF n, t
  <2>3. t \in [1..n -> Seq(T)]
    BY <2>1, <2>2
  <2>4. t \in Seq(Seq(T)) /\ Len(t) = n
    BY <1>1, <2>3
  <2>5. QED
    BY <2>1, <2>4
<1> HIDE DEF t
<1>5. PICK F : Flattens(F, s, S) /\ FlattenSeq(s) = F[n]
  BY FlattenHasSteps
<1>6. PICK G : Flattens(G, t, T) /\ FlattenSeq(t) = G[n]
  <2>1. t \in Seq(Seq(T))
    BY <1>4
  <2>2. \E G : Flattens(G, t, T) /\ FlattenSeq(t) = G[Len(t)]
    BY <2>1, FlattenHasSteps
  <2>3. QED
    BY <1>4, <2>2
<1>7. /\ \A i \in 0..n : F[i] \in Seq(S)
      /\ F[0] = <<>> /\ G[0] = <<>>
      /\ \A i \in 1..n : F[i] = F[i - 1] \o s[i] /\ G[i] = G[i - 1] \o t[i]
  BY <1>4, <1>5, <1>6 DEF Flattens
<1> DEFINE A == {i \in 0..n : G[i] = Map(F[i])}
<1>8. 0 \in A
  <2>1. Map(<<>>) = <<>>
    <3>1. <<>> \in Seq(S)
      OBVIOUS
    <3>2. Map(<<>>) \in Seq(T) /\ Len(Map(<<>>)) = 0
      BY <1>2, <3>1
    <3>3. QED
      BY <3>2, EmptySeq
  <2>2. QED
    BY <1>1, <1>7, <2>1
<1>9. ASSUME NEW i \in 0..n - 1, i \in A PROVE i + 1 \in A
  <2>1. i + 1 \in 1..n /\ i + 1 \in 0..n /\ i + 1 - 1 = i /\ i \in 0..n
    BY <1>1
  <2>2. /\ F[i + 1] = F[i] \o s[i + 1] /\ G[i + 1] = G[i] \o t[i + 1]
        /\ F[i] \in Seq(S) /\ s[i + 1] \in Seq(S) /\ t[i + 1] = Map(s[i + 1])
    <3> DEFINE k == i + 1
    <3>0. k \in 1..n /\ k - 1 = i
      BY <2>1
    <3> HIDE DEF n, k
    <3>0a. F[k] = F[k - 1] \o s[k] /\ G[k] = G[k - 1] \o t[k]
      BY <1>7, <3>0
    <3>1. F[i + 1] = F[i] \o s[i + 1] /\ G[i + 1] = G[i] \o t[i + 1]
      BY <3>0, <3>0a DEF k
    <3>2. F[i] \in Seq(S) /\ s[i + 1] \in Seq(S) /\ t[i + 1] = Map(s[i + 1])
      BY <1>1, <1>4, <1>7, <2>1
    <3>3. QED
      BY <2>1, <3>1, <3>2
  <2>3. G[i] = Map(F[i])
    BY <1>9
  <2>4. Map(F[i] \o s[i + 1]) = Map(F[i]) \o Map(s[i + 1])
    BY <1>3, <2>2
  <2>5. QED
    BY <2>1, <2>2, <2>3, <2>4
<1>10. \A i \in 0..n : i \in A
  <2> HIDE DEF A
  <2>1. QED
    BY <1>1, <1>8, <1>9, UpTo
<1>11. FlattenSeq(t) = Map(FlattenSeq(s)) /\ FlattenSeq(s) \in Seq(S)
  BY <1>1, <1>5, <1>6, <1>7, <1>10
<1>12. QED
  BY <1>11 DEF Map, MapAll, t
(* What a sequence of sequences has at i is found in the flattening right  *)
(* behind a flattening as long as all that comes before i.                 *)
LEMMA SliceOfFlattening ==
  ASSUME NEW S, NEW s \in Seq(Seq(S)), NEW i \in 1..Len(s), NEW T,
         NEW t \in Seq(Seq(T)), Len(t) = i - 1, MeasuresBeginning(t, s)
  PROVE  LET at == Len(FlattenSeq(t))
         IN  /\ at \in Nat
             /\ \A k \in 1..Len(s[i]) : /\ at + k \in 1..Len(FlattenSeq(s))
                                        /\ FlattenSeq(s)[at + k] = s[i][k]
             /\ SubSeq(FlattenSeq(s), at + 1, at + Len(s[i])) = s[i]
<1> DEFINE at == Len(FlattenSeq(t))
           f == FlattenSeq(s)
<1>1. PICK F : Flattens(F, s, S) /\ f = F[Len(s)]
  BY FlattenHasSteps
<1>2. Len(s) \in Nat /\ Len(t) <= Len(s) /\ i - 1 \in 0..Len(s)
  OBVIOUS
<1>3. at = Len(F[i - 1])
  <2> HIDE DEF at, f
  <2>1. Flattens(F, s, S)
    BY <1>1
  <2>2. Len(FlattenSeq(t)) = Len(F[Len(t)])
    BY <2>1, FlattenLengths
  <2>3. QED
    BY <2>2 DEF at
<1>4. F[i - 1] \in Seq(S) /\ f \in Seq(S) /\ at \in Nat /\ s[i] \in Seq(S)
  <2>0. F \in [0..Len(s) -> Seq(S)]
    BY <1>1 DEF Flattens
  <2>1. F[i - 1] \in Seq(S)
    BY <1>2, <2>0
  <2>2. F[Len(s)] \in Seq(S)
    <3>1. Len(s) \in 0..Len(s)
      BY <1>2
    <3>2. QED
      BY <2>0, <3>1
  <2>3. s[i] \in Seq(S)
    BY ElementOfSeq
  <2>4. Len(F[i - 1]) \in Nat
    BY <2>1, LenProperties
  <2>5. QED
    BY <1>1, <1>3, <2>1, <2>2, <2>3, <2>4
<1>5. ASSUME NEW k \in 1..Len(s[i])
      PROVE  at + k \in 1..Len(f) /\ f[at + k] = s[i][k]
  <2>1. /\ Len(F[i - 1]) + k \in 1..Len(F[Len(s)])
        /\ F[Len(s)][Len(F[i - 1]) + k] = s[i][k]
    BY <1>1, FlattenEntries
  <2> HIDE DEF f, at
  <2>2. QED
    BY <1>1, <1>3, <2>1
<1>6. SubSeq(f, at + 1, at + Len(s[i])) = s[i]
  <2> DEFINE x == s[i]
  <2>1. x \in Seq(S) /\ Len(x) \in Nat
    BY <1>4, LenProperties
  <2>2. \A k \in 1..Len(x) : at + k \in 1..Len(f) /\ f[at + k] = x[k]
    BY <1>5
  <2> HIDE DEF f, at, x
  <2>3. SubSeq(f, at + 1, at + Len(x)) = [k \in 1..Len(x) |-> f[at + k]]
    <3>1. \A k \in 1..Len(x) : at + 1 + k - 1 = at + k
      BY <1>4, <2>1
    <3>2. at + Len(x) - (at + 1) + 1 = Len(x)
      BY <1>4, <2>1
    <3>3. SubSeq(f, at + 1, at + Len(x))
            = [k \in 1..at + Len(x) - (at + 1) + 1 |-> f[at + 1 + k - 1]]
      BY <1>4, <2>1
    <3>4. QED
      BY <3>1, <3>2, <3>3
  <2>4. SubSeq(f, at + 1, at + Len(x)) = [k \in 1..Len(x) |-> x[k]]
    BY <2>2, <2>3
  <2>5. x = [k \in 1..Len(x) |-> x[k]]
    BY <2>1
  <2>6. QED
    BY <2>4, <2>5 DEF x
<1>7. QED
  BY <1>4, <1>5, <1>6

(* Flattening one sequence more.                                           *)
LEMMA FlattenAppend ==
  ASSUME NEW S, NEW s \in Seq(Seq(S)), NEW e \in Seq(S)
  PROVE  Len(FlattenSeq(Append(s, e))) = Len(FlattenSeq(s)) + Len(e)
<1> DEFINE t == Append(s, e)
           n == Len(s)
<1>1. n \in Nat /\ t \in Seq(Seq(S)) /\ Len(t) = n + 1 /\ t[n + 1] = e
      /\ \A i \in 1..n : t[i] = s[i]
  BY AppendProperties
<1> HIDE DEF t
<1>2. PICK F : Flattens(F, t, S) /\ FlattenSeq(t) = F[n + 1]
  <2>1. PICK F : Flattens(F, t, S) /\ FlattenSeq(t) = F[Len(t)]
    BY <1>1, FlattenHasSteps
  <2>2. QED
    BY <1>1, <2>1
<1>3. Len(FlattenSeq(s)) = Len(F[Len(s)])
  <2>1. MeasuresBeginning(s, t)
    BY <1>1 DEF MeasuresBeginning
  <2>2. Flattens(F, t, S)
    BY <1>2
  <2>3. t \in Seq(Seq(S))
    BY <1>1
  <2> HIDE DEF n
  <2>4. QED
    BY <2>1, <2>2, <2>3, FlattenLengths
<1>4. F[n] \in Seq(S) /\ F[n + 1] = F[n] \o e
  <2> DEFINE k == n + 1
  <2>1. k \in 1..Len(t) /\ k - 1 = n /\ n \in 0..Len(t)
    BY <1>1
  <2>2. t[k] = e
    BY <1>1
  <2> HIDE DEF k, n
  <2>3. F[k] = F[k - 1] \o t[k] /\ F[n] \in Seq(S)
    BY <1>2, <2>1 DEF Flattens
  <2>4. QED
    BY <2>1, <2>2, <2>3 DEF k
<1>5. Len(F[n] \o e) = Len(F[n]) + Len(e)
  BY <1>4, ConcatProperties
<1>6. QED
  BY <1>2, <1>3, <1>4, <1>5 DEF t

(* Flattening one sequence less.                                           *)
LEMMA FlattenWithout ==
  ASSUME NEW S, NEW s \in Seq(Seq(S)), NEW i \in 1..Len(s)
  PROVE  Len(FlattenSeq(RemoveAt(s, i))) = Len(FlattenSeq(s)) - Len(s[i])
<1> DEFINE t == RemoveAt(s, i)
           n == Len(s)
<1>1. /\ n \in Nat /\ n - 1 \in Nat /\ n - 1 + 1 = n /\ i \in 1..n
      /\ \A j \in 1..n : s[j] \in Seq(S) /\ Len(s[j]) \in Nat
  <2>1. \A j \in 1..n : s[j] \in Seq(S)
    BY ElementOfSeq
  <2>2. \A j \in 1..n : Len(s[j]) \in Nat
    BY <2>1, LenProperties
  <2>3. QED
    BY <2>1, <2>2
<1>2. /\ t \in Seq(Seq(S)) /\ Len(t) = n - 1
      /\ \A j \in 1..n - 1 : t[j] = IF j < i THEN s[j] ELSE s[j + 1]
  BY RemoveAtEntries
<1> HIDE DEF t
<1>3. PICK F : Flattens(F, s, S) /\ FlattenSeq(s) = F[n]
  BY FlattenHasSteps
<1>4. PICK G : Flattens(G, t, S) /\ FlattenSeq(t) = G[n - 1]
  <2>1. PICK G : Flattens(G, t, S) /\ FlattenSeq(t) = G[Len(t)]
    BY <1>2, FlattenHasSteps
  <2>2. QED
    BY <1>2, <2>1
<1> HIDE DEF n
<1>5. /\ \A j \in 0..n : F[j] \in Seq(S) /\ Len(F[j]) \in Nat
      /\ \A j \in 0..n - 1 : G[j] \in Seq(S) /\ Len(G[j]) \in Nat
  <2>1. \A j \in 0..n : F[j] \in Seq(S)
    BY <1>3 DEF Flattens, n
  <2>2. \A j \in 0..n - 1 : G[j] \in Seq(S)
    BY <1>2, <1>4 DEF Flattens
  <2>3. \A j \in 0..n : Len(F[j]) \in Nat
    BY <2>1, LenProperties
  <2>4. \A j \in 0..n - 1 : Len(G[j]) \in Nat
    BY <2>2, LenProperties
  <2>5. QED
    BY <2>1, <2>2, <2>3, <2>4
<1>6. ASSUME NEW j \in 0..n - 1 PROVE Len(F[j + 1]) = Len(F[j]) + Len(s[j + 1])
  <2> DEFINE k == j + 1
  <2>1. k \in 1..n /\ k - 1 = j /\ j \in 0..n
    BY <1>1
  <2> HIDE DEF k
  <2>2. F[k] = F[k - 1] \o s[k]
    BY <1>3, <2>1 DEF Flattens, n
  <2>3. F[j] \in Seq(S) /\ s[k] \in Seq(S)
    BY <1>1, <1>5, <2>1
  <2>4. Len(F[j] \o s[k]) = Len(F[j]) + Len(s[k])
    BY <2>3, ConcatProperties
  <2>5. QED
    BY <2>1, <2>2, <2>4 DEF k
<1>7. ASSUME NEW j \in 0..n - 2 PROVE Len(G[j + 1]) = Len(G[j]) + Len(t[j + 1])
  <2> DEFINE k == j + 1
  <2>1. k \in 1..n - 1 /\ k - 1 = j /\ j \in 0..n - 1
    BY <1>1
  <2> HIDE DEF k
  <2>2. G[k] = G[k - 1] \o t[k]
    BY <1>2, <1>4, <2>1 DEF Flattens
  <2>3. G[j] \in Seq(S)
    BY <1>5, <2>1
  <2>4. t[k] \in Seq(S)
    <3>1. k \in 1..Len(t)
      BY <1>2, <2>1
    <3>2. QED
      BY <1>2, <3>1, ElementOfSeq
  <2>5. Len(G[j] \o t[k]) = Len(G[j]) + Len(t[k])
    BY <2>3, <2>4, ConcatProperties
  <2>6. QED
    BY <2>1, <2>2, <2>5 DEF k
<1> DEFINE A == {j \in 0..n - 1 : Len(G[j]) = IF j < i THEN Len(F[j]) ELSE Len(F[j + 1]) - Len(s[i])}
<1>8. 0 \in A
  <2>1. G[0] = <<>> /\ F[0] = <<>>
    BY <1>3, <1>4 DEF Flattens
  <2>2. 0 \in 0..n - 1 /\ 0 < i
    BY <1>1
  <2>3. Len(G[0]) = IF 0 < i THEN Len(F[0]) ELSE Len(F[0 + 1]) - Len(s[i])
    BY <2>1, <2>2
  <2> HIDE DEF n
  <2>4. QED
    BY <2>2, <2>3
<1>9. ASSUME NEW j \in 0..n - 1 - 1, j \in A PROVE j + 1 \in A
  <2>1. /\ j \in 0..n - 2 /\ j \in 0..n - 1 /\ j + 1 \in 0..n - 1 /\ j + 1 \in 1..n - 1
        /\ j \in 0..n /\ j + 1 \in 0..n /\ j + 2 \in 0..n /\ j + 1 + 1 = j + 2
    BY <1>1
  <2> DEFINE gj == Len(G[j])
             gk == Len(G[j + 1])
             fj == Len(F[j])
             fk == Len(F[j + 1])
             fl == Len(F[j + 2])
             sk == Len(s[j + 1])
             sl == Len(s[j + 2])
             si == Len(s[i])
  <2>2. gk = gj + Len(t[j + 1])
    BY <1>7, <2>1
  <2>3. fk = fj + sk
    BY <1>6, <2>1
  <2>4. fl = fk + sl
    <3> DEFINE k == j + 1
    <3>1. k \in 0..n - 1 /\ k + 1 = j + 2
      BY <2>1
    <3> HIDE DEF k
    <3>2. Len(F[k + 1]) = Len(F[k]) + Len(s[k + 1])
      BY <1>6, <3>1
    <3> HIDE DEF n
    <3>3. QED
      BY <3>1, <3>2 DEF k
  <2>5. Len(t[j + 1]) = IF j + 1 < i THEN sk ELSE sl
    <3> DEFINE k == j + 1
    <3>1. k \in 1..n - 1 /\ k + 1 = j + 2
      BY <2>1
    <3> HIDE DEF k
    <3>2. t[k] = IF k < i THEN s[k] ELSE s[k + 1]
      BY <1>2, <3>1
    <3>3. QED
      BY <3>1, <3>2 DEF k
  <2>6. /\ gj \in Nat /\ gk \in Nat /\ fj \in Nat /\ fk \in Nat /\ fl \in Nat
    BY <1>5, <2>1
  <2>7. sk \in Nat /\ sl \in Nat /\ si \in Nat
    <3> DEFINE p == j + 1
               q == j + 2
    <3>1. p \in 1..n /\ q \in 1..n
      BY <1>1
    <3> HIDE DEF p, q
    <3>2. Len(s[p]) \in Nat /\ Len(s[q]) \in Nat
      BY <1>1, <3>1
    <3>3. QED
      BY <1>1, <3>2 DEF p, q
  <2>8. gj = IF j < i THEN fj ELSE fk - si
    BY <1>9
  <2>9. j + 1 = i => sk = si
    OBVIOUS
  <2> HIDE DEF gj, gk, fj, fk, fl, sk, sl, si
  <2>10. gk = IF j + 1 < i THEN fk ELSE fl - si
    BY <1>1, <2>1, <2>2, <2>3, <2>4, <2>5, <2>6, <2>7, <2>8, <2>9
  <2>11. QED
    BY <2>1, <2>10 DEF gk, fk, fl, si
<1>10. \A j \in 0..n - 1 : j \in A
  <2> HIDE DEF A
  <2>1. QED
    BY <1>1, <1>8, <1>9, UpTo
<1>11. n - 1 \in A
  <2>1. n - 1 \in 0..n - 1
    BY <1>1
  <2> HIDE DEF A
  <2>2. QED
    BY <1>10, <2>1
<1>12. Len(G[n - 1]) = Len(F[n]) - Len(s[i])
  <2>1. CASE n - 1 < i
    <3>1. i = n /\ n - 1 \in 0..n - 1 /\ n - 1 \in 0..n /\ n \in 1..n
      BY <1>1, <2>1
    <3>2. Len(F[n - 1 + 1]) = Len(F[n - 1]) + Len(s[n - 1 + 1])
      BY <1>6, <3>1
    <3>3. Len(F[n - 1]) \in Nat /\ Len(s[n]) \in Nat
      BY <1>1, <1>5, <3>1
    <3>4. Len(G[n - 1]) = Len(F[n - 1])
      BY <1>11, <2>1
    <3> DEFINE x == Len(F[n - 1])
               y == Len(s[n])
    <3>5. Len(F[n]) = x + y /\ Len(G[n - 1]) = x
      BY <1>1, <3>2, <3>4
    <3>6. x \in Nat /\ y \in Nat /\ Len(s[i]) = y
      BY <3>1, <3>3
    <3> HIDE DEF x, y
    <3>7. QED
      BY <3>5, <3>6
  <2>2. CASE ~(n - 1 < i)
    BY <1>1, <1>11, <2>2
  <2>3. QED
    BY <2>1, <2>2
<1>13. QED
  BY <1>3, <1>4, <1>12 DEF t

-----------------------------------------------------------------------------
(* Filtering a sequence: what is kept of each of its beginnings.           *)
KeptStep(before, e, keep) == IF e \in keep THEN Append(before, e) ELSE before

Filters(K, s, keep, S) ==
  /\ K \in [0..Len(s) -> Seq(S)] /\ K[0] = <<>>
  /\ \A i \in 1..Len(s) : K[i] = KeptStep(K[i - 1], s[i], keep)

LEMMA FilterHasSteps ==
  ASSUME NEW S, NEW s \in Seq(S), NEW keep
  PROVE  \E K : Filters(K, s, keep, S) /\ Filtered(s, keep) = K[Len(s)]
<1> DEFINE n == Len(s)
           T == Seq(S)
           step == [p \in T \X (1..n) |-> KeptStep(p[1], s[p[2]], keep)]
           base == <<>>
<1>1. n \in Nat /\ \A i \in 1..n : s[i] \in S
  BY ElementOfSeq
<1>2. step \in StepsOver(T, n) /\ base \in T
  <2>1. \A t \in T, i \in 1..n : KeptStep(t, s[i], keep) \in T
    BY <1>1, AppendProperties DEF KeptStep
  <2>2. base \in T
    OBVIOUS
  <2> HIDE DEF T
  <2>3. \A p \in T \X (1..n) : p[1] \in T /\ p[2] \in 1..n
    OBVIOUS
  <2>4. QED
    BY <2>1, <2>2, <2>3 DEF StepsOver
<1>3. \E g : IsRecursion(g, n, T, base, step)
  <2> HIDE DEF step, T, n, base
  <2>1. QED
    BY <1>1, <1>2, RecursionExists
<1>4. PICK K : IsRecursion(K, n, T, base, step)
  BY <1>3
<1>5. K \in [0..n -> T] /\ K[0] = <<>> /\ \A i \in 1..n : K[i] = KeptStep(K[i - 1], s[i], keep)
  <2>1. K \in [0..n -> T] /\ K[0] = <<>> /\ \A i \in 1..n : K[i] = step[<<K[i - 1], i>>]
    BY <1>4 DEF IsRecursion
  <2>2. ASSUME NEW i \in 1..n PROVE step[<<K[i - 1], i>>] = KeptStep(K[i - 1], s[i], keep)
    <3> HIDE DEF T
    <3> HIDE DEF n, step
    <3>1. i - 1 \in 0..n
      BY <1>1
    <3>2. K[i - 1] \in T
      BY <2>1, <3>1
    <3>3. <<K[i - 1], i>> \in T \X (1..n)
      BY <3>2
    <3>4. QED
      BY <3>3 DEF step
  <2> HIDE DEF step, T
  <2>3. QED
    BY <2>1, <2>2
<1>6. Filters(K, s, keep, S)
  BY <1>5 DEF Filters
<1> HIDE DEF T, step, base
<1> DEFINE Made(g) == [i \in 0..n |->
                        IF i = 0 THEN <<>>
                        ELSE IF s[i] \in keep THEN Append(g[i - 1], s[i]) ELSE g[i - 1]]
           G == CHOOSE g : g = Made(g)
<1>7. K = Made(K)
  <2>1. ASSUME NEW i \in 0..n
        PROVE  K[i] = IF i = 0 THEN <<>>
                      ELSE IF s[i] \in keep THEN Append(K[i - 1], s[i]) ELSE K[i - 1]
    <3>1. CASE i = 0
      BY <1>5, <3>1
    <3>2. CASE i # 0
      <4>1. i \in 1..n
        BY <1>1, <3>2
      <4>2. QED
        BY <1>5, <3>2, <4>1 DEF KeptStep
    <3>3. QED
      BY <3>1, <3>2
  <2>2. K = [i \in 0..n |-> K[i]]
    BY <1>5
  <2> HIDE DEF n
  <2>3. QED
    BY <2>1, <2>2
<1>8. G = Made(G)
  <2>1. \E g : g = Made(g)
    <3> HIDE DEF Made
    <3>1. QED
      BY <1>7
  <2>2. QED
    BY <2>1
<1>9. Filtered(s, keep) = G[n]
  BY DEF Filtered
<1> HIDE DEF G
<1> DEFINE A == {i \in 0..n : G[i] = K[i]}
<1>10. 0 \in A
  BY <1>1, <1>5, <1>8
<1>11. ASSUME NEW i \in 0..n - 1, i \in A PROVE i + 1 \in A
  <2>1. i + 1 \in 1..n /\ i + 1 \in 0..n /\ i + 1 - 1 = i /\ i + 1 # 0
    BY <1>1
  <2> DEFINE k == i + 1
  <2>2. k \in 1..n /\ k \in 0..n /\ k - 1 = i /\ k # 0
    BY <2>1
  <2> HIDE DEF n, k
  <2>3. K[k] = KeptStep(K[i], s[k], keep)
    BY <1>5, <2>2
  <2>4. G[k] = IF s[k] \in keep THEN Append(G[i], s[k]) ELSE G[i]
    BY <1>8, <2>2
  <2>5. G[i] = K[i]
    BY <1>11
  <2>6. G[k] = K[k]
    BY <2>3, <2>4, <2>5 DEF KeptStep
  <2>7. QED
    BY <2>2, <2>6 DEF k
<1>12. \A i \in 0..n : i \in A
  <2> HIDE DEF A
  <2>1. QED
    BY <1>1, <1>10, <1>11, UpTo
<1>13. G[n] = K[n]
  BY <1>1, <1>12
<1>14. QED
  BY <1>6, <1>9, <1>13

(* out is what s has of keep in its first n entries, found at these places. *)
Increases(at, m) == \A i, j \in 1..m : i < j => at[i] < at[j]
FoundAt(at, out, s) == \A j \in 1..Len(out) : out[j] = s[at[j]]
KeepsAll(at, m, s, keep, n) == \A i \in 1..n : s[i] \in keep <=> \E j \in 1..m : at[j] = i
Picks(at, out, s, keep, n) ==
  /\ at \in [1..Len(out) -> 1..n] /\ Increases(at, Len(out))
  /\ FoundAt(at, out, s) /\ KeepsAll(at, Len(out), s, keep, n)

LEMMA PickNext ==
  ASSUME NEW S, NEW s \in Seq(S), NEW keep, NEW n \in 0..Len(s) - 1, NEW out \in Seq(S),
         NEW at, Picks(at, out, s, keep, n)
  PROVE  \E next : Picks(next, KeptStep(out, s[n + 1], keep), s, keep, n + 1)
<1> DEFINE m == Len(out)
           k == n + 1
           to == KeptStep(out, s[k], keep)
<1>1. m \in Nat /\ Len(s) \in Nat /\ k \in 1..Len(s) /\ s[k] \in S /\ n \in Nat
  BY ElementOfSeq
<1>2. /\ at \in [1..m -> 1..n] /\ (\A i, j \in 1..m : i < j => at[i] < at[j])
      /\ (\A j \in 1..m : out[j] = s[at[j]])
      /\ \A i \in 1..n : s[i] \in keep <=> \E j \in 1..m : at[j] = i
  BY DEF Picks, Increases, FoundAt, KeepsAll
<1>3. CASE s[k] \notin keep
  <2>1. to = out
    BY <1>3 DEF KeptStep
  <2>2. at \in [1..m -> 1..k]
    <3>1. \A j \in 1..m : at[j] \in 1..k
      BY <1>1, <1>2
    <3>2. QED
      BY <1>2, <3>1
  <2>3. ASSUME NEW i \in 1..k PROVE s[i] \in keep <=> \E j \in 1..m : at[j] = i
    <3>1. CASE i = k
      <4>1. \A j \in 1..m : at[j] # k
        BY <1>1, <1>2
      <4>2. QED
        BY <1>3, <3>1, <4>1
    <3>2. CASE i # k
      <4>1. i \in 1..n
        BY <1>1, <3>2
      <4>2. QED
        BY <1>2, <4>1
    <3>3. QED
      BY <3>1, <3>2
  <2> HIDE DEF m, k
  <2>4. Picks(at, out, s, keep, k)
    BY <1>2, <2>2, <2>3 DEF Picks, Increases, FoundAt, KeepsAll, m
  <2>5. QED
    BY <2>1, <2>4 DEF k
<1>4. CASE s[k] \in keep
  <2> DEFINE next == [j \in 1..m + 1 |-> IF j = m + 1 THEN k ELSE at[j]]
  <2>1. to = Append(out, s[k])
    BY <1>4 DEF KeptStep
  <2>2. Len(to) = m + 1 /\ to[m + 1] = s[k] /\ \A j \in 1..m : to[j] = out[j]
    <3> HIDE DEF k
    <3>1. QED
      BY <1>1, <2>1, AppendProperties
  <2>3. \A j \in 1..m : next[j] = at[j] /\ at[j] \in 1..n /\ j \in 1..m + 1 /\ j # m + 1
    <3>1. \A j \in 1..m : j \in 1..m + 1 /\ j # m + 1
      <4> HIDE DEF m
      <4>1. QED
        BY <1>1
    <3>2. \A j \in 1..m : at[j] \in 1..n
      BY <1>2
    <3> HIDE DEF m, k, to
    <3>3. \A j \in 1..m : next[j] = at[j]
      BY <3>1
    <3>4. QED
      BY <3>1, <3>2, <3>3
  <2>4. next[m + 1] = k /\ \A j \in 1..m + 1 : j = m + 1 \/ j \in 1..m
    BY <1>1
  <2>5. next \in [1..m + 1 -> 1..k]
    <3>1. ASSUME NEW j \in 1..m + 1 PROVE next[j] \in 1..k
      <4> HIDE DEF next, m
      <4>1. CASE j = m + 1
        BY <1>1, <2>4, <4>1
      <4>2. CASE j \in 1..m
        <5>1. next[j] \in 1..n
          BY <2>3, <4>2
        <5>2. QED
          BY <1>1, <5>1
      <4>3. QED
        BY <2>4, <4>1, <4>2
    <3>2. next = [j \in 1..m + 1 |-> next[j]]
      OBVIOUS
    <3> HIDE DEF next, m, k
    <3>3. QED
      BY <3>1, <3>2
  <2> HIDE DEF next, to
  <2>6. ASSUME NEW i \in 1..m + 1, NEW j \in 1..m + 1, i < j PROVE next[i] < next[j]
    <3>1. i \in 1..m
      BY <1>1, <2>6
    <3>2. CASE j = m + 1
      BY <1>1, <2>3, <2>4, <3>1, <3>2
    <3>3. CASE j \in 1..m
      BY <1>2, <2>3, <2>6, <3>1, <3>3
    <3>4. QED
      BY <2>4, <3>2, <3>3
  <2>7. ASSUME NEW j \in 1..m + 1 PROVE to[j] = s[next[j]]
    BY <1>2, <2>2, <2>3, <2>4
  <2>8. ASSUME NEW i \in 1..k PROVE s[i] \in keep <=> \E j \in 1..m + 1 : next[j] = i
    <3>1. CASE i = k
      <4>1. m + 1 \in 1..m + 1
        BY <1>1
      <4>2. QED
        BY <1>4, <2>4, <3>1, <4>1
    <3>2. CASE i # k
      <4>1. i \in 1..n
        BY <1>1, <3>2
      <4>2. (\E j \in 1..m + 1 : next[j] = i) <=> \E j \in 1..m : at[j] = i
        BY <2>3, <2>4, <3>2
      <4>3. QED
        BY <1>2, <4>1, <4>2
    <3>3. QED
      BY <3>1, <3>2
  <2> HIDE DEF m, k
  <2>9. Picks(next, to, s, keep, k)
    BY <2>2, <2>5, <2>6, <2>7, <2>8 DEF Picks, Increases, FoundAt, KeepsAll
  <2>10. QED
    BY <2>9 DEF k, to
<1>5. QED
  BY <1>3, <1>4

LEMMA FilteredPicks ==
  ASSUME NEW S, NEW s \in Seq(S), NEW keep
  PROVE  /\ Filtered(s, keep) \in Seq(S)
         /\ \E at : Picks(at, Filtered(s, keep), s, keep, Len(s))
<1> DEFINE n == Len(s)
<1>1. n \in Nat
  OBVIOUS
<1>2. PICK K : Filters(K, s, keep, S) /\ Filtered(s, keep) = K[n]
  BY FilterHasSteps
<1>3. K \in [0..n -> Seq(S)] /\ K[0] = <<>> /\ \A i \in 1..n : K[i] = KeptStep(K[i - 1], s[i], keep)
  BY <1>2 DEF Filters
<1> DEFINE A == {i \in 0..n : \E at : Picks(at, K[i], s, keep, i)}
<1>4. 0 \in A
  <2> DEFINE none == [j \in 1..0 |-> 1]
  <2>1. Len(K[0]) = 0 /\ 1..0 = {}
    BY <1>3
  <2>2. none \in [1..Len(K[0]) -> 1..0]
    BY <2>1
  <2>3. Picks(none, K[0], s, keep, 0)
    <3> HIDE DEF none
    <3>1. QED
      BY <2>1, <2>2 DEF Picks, Increases, FoundAt, KeepsAll
  <2> HIDE DEF none
  <2>4. QED
    BY <1>1, <2>3
<1>5. ASSUME NEW i \in 0..n - 1, i \in A PROVE i + 1 \in A
  <2>1. PICK at : Picks(at, K[i], s, keep, i)
    BY <1>5
  <2>2. i + 1 \in 1..n /\ i + 1 - 1 = i /\ i \in 0..n /\ i + 1 \in 0..n
    BY <1>1
  <2>3. K[i + 1] = KeptStep(K[i], s[i + 1], keep) /\ K[i] \in Seq(S)
    BY <1>3, <2>2
  <2>4. \E next : Picks(next, KeptStep(K[i], s[i + 1], keep), s, keep, i + 1)
    BY <2>1, <2>3, PickNext
  <2>5. QED
    BY <2>2, <2>3, <2>4
<1>6. \A i \in 0..n : i \in A
  <2> HIDE DEF A
  <2>1. QED
    BY <1>1, <1>4, <1>5, UpTo
<1>7. n \in A /\ K[n] \in Seq(S)
  BY <1>1, <1>3, <1>6
<1>8. QED
  BY <1>2, <1>7

(* What is kept of a sequence is in its order.                             *)
Follows(t, s) ==
  \A a, b \in DOMAIN t : a < b =>
    \A i, j \in DOMAIN s : t[a] = s[i] /\ t[b] = s[j] => i < j

LEMMA FilteredMembers ==
  ASSUME NEW S, NEW s \in Seq(S), IsInjective(s), NEW keep
  PROVE  /\ Filtered(s, keep) \in Seq(S) /\ ToSet(Filtered(s, keep)) = ToSet(s) \cap keep
         /\ IsInjective(Filtered(s, keep)) /\ Follows(Filtered(s, keep), s)
<1> DEFINE f == Filtered(s, keep)
<1>1. f \in Seq(S) /\ \E at : Picks(at, f, s, keep, Len(s))
  BY FilteredPicks
<1>2. PICK at : Picks(at, f, s, keep, Len(s))
  BY <1>1
<1> HIDE DEF f
<1>3. DOMAIN f = 1..Len(f) /\ Len(f) \in Nat /\ DOMAIN s = 1..Len(s) /\ Len(s) \in Nat
  BY <1>1
<1>4. /\ at \in [1..Len(f) -> 1..Len(s)] /\ \A i, j \in 1..Len(f) : i < j => at[i] < at[j]
      /\ \A j \in 1..Len(f) : f[j] = s[at[j]]
      /\ \A p \in 1..Len(s) : s[p] \in keep <=> \E j \in 1..Len(f) : at[j] = p
  BY <1>2 DEF Picks, Increases, FoundAt, KeepsAll
<1>5. \A a \in 1..Len(f) : at[a] \in 1..Len(s) /\ f[a] = s[at[a]] /\ s[at[a]] \in keep
  BY <1>4
<1>6. \A a, b \in 1..Len(f) : a < b =>
        \A i, j \in 1..Len(s) : f[a] = s[i] /\ f[b] = s[j] => i < j
  <2>1. ASSUME NEW a \in 1..Len(f), NEW b \in 1..Len(f), a < b,
               NEW i \in 1..Len(s), NEW j \in 1..Len(s), f[a] = s[i], f[b] = s[j]
        PROVE  i < j
    <3>1. at[a] = i /\ at[b] = j
      BY <1>3, <1>5, <2>1 DEF IsInjective
    <3>2. QED
      BY <1>4, <2>1, <3>1
  <2>2. QED
    BY <2>1
<1>10. Follows(f, s)
  BY <1>3, <1>6 DEF Follows
<1>7. IsInjective(f)
  <2>1. ASSUME NEW a \in 1..Len(f), NEW b \in 1..Len(f), f[a] = f[b], a < b PROVE FALSE
    <3>1. PICK i \in 1..Len(s) : f[a] = s[i]
      BY <1>5
    <3>2. i < i
      BY <1>6, <2>1, <3>1
    <3>3. QED
      BY <1>3, <3>2
  <2>2. ASSUME NEW a \in 1..Len(f), NEW b \in 1..Len(f), f[a] = f[b] PROVE a = b
    <3>1. ~(a < b) /\ ~(b < a)
      BY <2>1, <2>2
    <3>2. QED
      BY <1>3, <3>1
  <2>3. QED
    BY <1>3, <2>2 DEF IsInjective
<1>8. ToSet(f) = ToSet(s) \cap keep
  <2>1. \A e \in ToSet(f) : e \in ToSet(s) \cap keep
    BY <1>3, <1>5 DEF ToSet
  <2>2. ASSUME NEW e \in ToSet(s) \cap keep PROVE e \in ToSet(f)
    <3>1. PICK p \in 1..Len(s) : s[p] = e
      BY <1>3, <2>2 DEF ToSet
    <3>2. PICK j \in 1..Len(f) : at[j] = p
      BY <1>4, <2>2, <3>1
    <3>3. f[j] = e
      BY <1>5, <3>1, <3>2
    <3>4. QED
      BY <1>3, <3>3 DEF ToSet
  <2>3. QED
    BY <2>1, <2>2
<1>9. QED
  BY <1>1, <1>7, <1>8, <1>10 DEF f

LEMMA FollowsTail ==
  ASSUME NEW S, NEW s \in Seq(S), s # <<>>, NEW T, NEW t \in Seq(T), IsInjective(t), Follows(s, t)
  PROVE  /\ Follows(Tail(s), t)
         /\ \A i, j \in DOMAIN t : t[i] = Head(s) /\ j < i => t[j] \notin ToSet(s)
<1>1. /\ DOMAIN s = 1..Len(s) /\ Len(s) \in Nat /\ Len(s) > 0 /\ Head(s) = s[1]
  BY EmptySeq
<1>2. /\ DOMAIN Tail(s) = 1..Len(s) - 1
      /\ \A i \in 1..Len(s) - 1 : Tail(s)[i] = s[i + 1]
  BY <1>1, HeadTailProperties
<1>7. DOMAIN t = 1..Len(t) /\ Len(t) \in Nat
  OBVIOUS
<1>3. \A a, b \in 1..Len(s) : a < b =>
        \A i, j \in DOMAIN t : s[a] = t[i] /\ s[b] = t[j] => i < j
  BY <1>1 DEF Follows
<1>4. Follows(Tail(s), t)
  <2>1. ASSUME NEW a \in 1..Len(s) - 1, NEW b \in 1..Len(s) - 1, a < b,
               NEW i \in DOMAIN t, NEW j \in DOMAIN t, Tail(s)[a] = t[i], Tail(s)[b] = t[j]
        PROVE  i < j
    <3>1. a + 1 \in 1..Len(s) /\ b + 1 \in 1..Len(s) /\ a + 1 < b + 1
      BY <1>1, <2>1
    <3>2. s[a + 1] = t[i] /\ s[b + 1] = t[j]
      BY <1>2, <2>1
    <3>3. QED
      BY <1>3, <3>1, <3>2
  <2>2. QED
    BY <1>2, <2>1 DEF Follows
<1>5. ASSUME NEW i \in DOMAIN t, NEW j \in DOMAIN t, t[i] = Head(s), j < i, t[j] \in ToSet(s)
      PROVE  FALSE
  <2>1. PICK b \in 1..Len(s) : s[b] = t[j]
    BY <1>1, <1>5 DEF ToSet
  <2>2. CASE b = 1
    <3>1. i = j
      BY <1>1, <1>5, <2>1, <2>2 DEF IsInjective
    <3>2. j < j
      BY <1>5, <3>1
    <3>3. QED
      BY <1>5, <1>7, <3>2
  <2>3. CASE b # 1
    <3>1. 1 \in 1..Len(s) /\ 1 < b
      BY <1>1, <2>3
    <3>2. i < j
      BY <1>1, <1>3, <1>5, <2>1, <3>1
    <3>3. QED
      BY <1>5, <1>7, <3>2
  <2>4. QED
    BY <2>2, <2>3
<1>6. QED
  BY <1>4, <1>5
=============================================================================
