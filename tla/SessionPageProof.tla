--------------------------- MODULE SessionPageProof ---------------------------
(***************************************************************************)
(* Proofs about a session page: its remote state (SessionPage) and, for    *)
(* every bound, what it keeps beside that (MCReview).                      *)
(***************************************************************************)
EXTENDS SessionPage, MCReview, SequenceTheorems, FiniteSetTheorems, WellFoundedInduction, TLAPS

-----------------------------------------------------------------------------
(* Induction.                                                              *)

\* Every non-empty set of natural numbers has a least element.
LEMMA LeastNumber ==
  ASSUME NEW T \in SUBSET Nat, T # {}
  PROVE  \E x \in T : \A y \in T : x <= y
<1> DEFINE R == {ss \in Nat \X Nat : ss[1] < ss[2]}
<1>1. \A y, x \in Nat : y < x => <<y, x>> \in R OBVIOUS
<1>2. IsWellFoundedOn(R, Nat) BY NatLessThanWellFounded DEF OpToRel
<1> HIDE DEF R
<1>3. PICK x \in T : \A y \in T : ~ (<<y, x>> \in R) BY <1>2, WFMin
<1>4. \A y \in T : ~ (y < x)
  <2> TAKE y \in T
  <2>1. y \in Nat /\ x \in Nat OBVIOUS
  <2>2. <<y, x>> \notin R BY <1>3
  <2> QED BY <2>1, <2>2, <1>1
<1>5. \A y \in T : x <= y BY <1>4
<1> QED BY <1>5

\* Induction, for a set instead of a predicate.
LEMMA SetInduction ==
  ASSUME NEW S, 0 \in S, \A n \in Nat : n \in S => n + 1 \in S
  PROVE  Nat \subseteq S
<1> SUFFICES ASSUME Nat \ S # {} PROVE FALSE OBVIOUS
<1>1. PICK m \in Nat \ S : \A y \in Nat \ S : m <= y BY LeastNumber
<1>2. m # 0 /\ m - 1 \in Nat /\ m - 1 \in S BY <1>1
<1> QED BY <1>2

\* A non-empty set of places has a last one, and Max is that.
LEMMA LastPlace ==
  ASSUME NEW n \in Nat, NEW s \in SUBSET (1..n), s # {}
  PROVE  Max(s) \in s /\ \A y \in s : y <= Max(s)
<1> DEFINE T == {n - y : y \in s}
<1>0. \A y \in s : y \in 1..n /\ n - y \in T OBVIOUS
<1>1. T \in SUBSET Nat /\ T # {}
  <2>1. \A y \in s : n - y \in Nat BY <1>0
  <2> QED BY <1>0, <2>1
<1>2. PICK d \in T : \A y \in T : d <= y BY <1>1, LeastNumber
<1>3. PICK x \in s : d = n - x BY <1>2
<1>4. \A y \in s : y <= x
  <2> TAKE y \in s
  <2>1. n - x <= n - y /\ x \in 1..n /\ y \in 1..n BY <1>0, <1>2, <1>3
  <2> QED BY <2>1
<1>5. \A y \in s : x >= y BY <1>0, <1>4
<1> HIDE DEF T
<1>6. Max(s) \in s /\ \A y \in s : Max(s) >= y BY <1>5 DEF Max
<1> QED BY <1>0, <1>6

LEMMA LastOfFirst ==
  ASSUME NEW k \in Nat \ {0}
  PROVE  Max(1..k) = k
<1>1. k \in 1..k /\ 1..k \in SUBSET (1..k) /\ k \in Nat OBVIOUS
<1>2. 1..k # {} BY <1>1
<1>3. Max(1..k) \in 1..k /\ k <= Max(1..k) BY <1>1, <1>2, LastPlace
<1> QED BY <1>3

-----------------------------------------------------------------------------
(* Folds.                                                                  *)

\* g solves, for all sets of places up to n, the recursion of a left fold.
Solves(g, base, step, n) ==
  g = [s \in SUBSET (1..n) |->
         IF s = {} THEN base ELSE step[<<g[s \ {Max(s)}], Max(s)>>]]

LEMMA FoldSolved ==
  ASSUME NEW A, NEW base \in A, NEW n \in Nat, NEW step \in [A \X (1..n) -> A]
  PROVE  \E g \in [SUBSET (1..n) -> A] : Solves(g, base, step, n)
<1> DEFINE P(m) == \E g \in [SUBSET (1..m) -> A] : Solves(g, base, step, m)
           S == {m \in Nat : m <= n => P(m)}
<1> HIDE DEF P
<1>1. 0 \in S
  <2> DEFINE g == [s \in SUBSET (1..0) |-> base]
  <2>1. \A s \in SUBSET (1..0) : s = {} OBVIOUS
  <2>2. g \in [SUBSET (1..0) -> A] /\ Solves(g, base, step, 0) BY <2>1 DEF Solves
  <2> HIDE DEF g
  <2> QED BY <2>2 DEF P
<1>2. ASSUME NEW m \in Nat, m \in S PROVE m + 1 \in S
  <2> SUFFICES ASSUME m + 1 <= n PROVE P(m + 1) OBVIOUS
  <2>0. P(m) BY <1>2
  <2>1. PICK g \in [SUBSET (1..m) -> A] : Solves(g, base, step, m) BY <2>0 DEF P
  <2> DEFINE h == [s \in SUBSET (1..(m + 1)) |->
                     IF m + 1 \in s THEN step[<<g[s \ {m + 1}], m + 1>>] ELSE g[s]]
  <2>2. ASSUME NEW s \in SUBSET (1..(m + 1))
        PROVE  /\ m + 1 \in s => s \ {m + 1} \in SUBSET (1..m) /\ Max(s) = m + 1
               /\ m + 1 \notin s => s \in SUBSET (1..m)
    <3>1. CASE m + 1 \in s
      <4>0. m + 1 \in Nat /\ s # {} BY <3>1
      <4>1. Max(s) \in s /\ \A y \in s : y <= Max(s) BY <4>0, LastPlace
      <4>3. Max(s) \in 1..(m + 1) /\ m + 1 <= Max(s) BY <3>1, <4>1
      <4>2. Max(s) = m + 1 BY <4>3
      <4> QED BY <3>1, <4>2
    <3> QED BY <3>1
  <2>3. h \in [SUBSET (1..(m + 1)) -> A]
    <3>1. ASSUME NEW s \in SUBSET (1..(m + 1)) PROVE h[s] \in A
      <4>1. CASE m + 1 \in s
        <5>1. g[s \ {m + 1}] \in A BY <2>2, <4>1
        <5>2. <<g[s \ {m + 1}], m + 1>> \in A \X (1..n) BY <5>1
        <5> QED BY <4>1, <5>2
      <4> QED BY <2>2, <4>1
    <3> QED BY <3>1
  <2>4. ASSUME NEW s \in SUBSET (1..(m + 1))
        PROVE  h[s] = IF s = {} THEN base ELSE step[<<h[s \ {Max(s)}], Max(s)>>]
    <3>1. CASE m + 1 \in s
      <4>1. h[s \ {m + 1}] = g[s \ {m + 1}] BY <3>1
      <4> QED BY <2>2, <3>1, <4>1
    <3>2. CASE m + 1 \notin s
      <4>1. g[s] = IF s = {} THEN base ELSE step[<<g[s \ {Max(s)}], Max(s)>>]
        BY <2>1, <2>2, <3>2 DEF Solves
      <4>2. h[s] = g[s] BY <3>2
      <4>3. h[s \ {Max(s)}] = g[s \ {Max(s)}] BY <3>2
      <4> QED BY <4>1, <4>2, <4>3
    <3> QED BY <3>1, <3>2
  <2>5. Solves(h, base, step, m + 1)
    <3>1. DOMAIN h = SUBSET (1..(m + 1)) OBVIOUS
    <3> HIDE DEF h
    <3>2. h = [s \in SUBSET (1..(m + 1)) |-> h[s]] BY <2>3
    <3> QED BY <2>4, <3>2 DEF Solves
  <2> HIDE DEF h
  <2> QED BY <2>3, <2>5 DEF P
<1> HIDE DEF S
<1>3. n \in S BY <1>1, <1>2, SetInduction
<1>4. P(n) BY <1>3 DEF S
<1> QED BY <1>4 DEF P

-----------------------------------------------------------------------------
(* Sequences: an element is removed; the elements that say one thing are   *)
(* counted.                                                                *)

LEMMA Removed ==
  ASSUME NEW S, NEW s \in Seq(S), NEW i \in 1..Len(s)
  PROVE  /\ RemoveAt(s, i) \in Seq(S) /\ Len(RemoveAt(s, i)) = Len(s) - 1
         /\ \A j \in 1..(Len(s) - 1) : RemoveAt(s, i)[j] = IF j < i THEN s[j] ELSE s[j + 1]
<1>0. Len(s) \in Nat /\ \A j \in 1..Len(s) : s[j] \in S BY LenProperties, ElementOfSeq
<1> DEFINE a == SubSeq(s, 1, i - 1)
           b == SubSeq(s, i + 1, Len(s))
<1>1. /\ a \in Seq(S) /\ Len(a) = i - 1
      /\ \A j \in 1..(i - 1) : a[j] = s[j]
  <2>1. i - 1 \in Int /\ \A j \in 1..(i - 1) : s[j] \in S BY <1>0
  <2>2. /\ a \in Seq(S) /\ Len(a) = IF 1 <= i - 1 THEN i - 1 - 1 + 1 ELSE 0
        /\ \A j \in 1..(i - 1 - 1 + 1) : a[j] = s[1 + j - 1]
    BY <2>1, SubSeqProperties
  <2>3. \A j \in 1..(i - 1) : 1 + j - 1 = j OBVIOUS
  <2> QED BY <1>0, <2>2, <2>3
<1>2. /\ b \in Seq(S) /\ Len(b) = Len(s) - i
      /\ \A j \in 1..(Len(s) - i) : b[j] = s[i + j]
  <2>1. i + 1 \in Int /\ Len(s) \in Int /\ \A j \in (i + 1)..Len(s) : s[j] \in S BY <1>0
  <2>2. /\ b \in Seq(S)
        /\ Len(b) = IF i + 1 <= Len(s) THEN Len(s) - (i + 1) + 1 ELSE 0
        /\ \A j \in 1..(Len(s) - (i + 1) + 1) : b[j] = s[i + 1 + j - 1]
    BY <2>1, SubSeqProperties
  <2>3. \A j \in 1..(Len(s) - i) : i + 1 + j - 1 = i + j BY <1>0
  <2> QED BY <1>0, <2>2, <2>3
<1>3. RemoveAt(s, i) = a \o b BY DEF RemoveAt
<1> HIDE DEF a, b
<1>4. /\ a \o b \in Seq(S) /\ Len(a \o b) = Len(a) + Len(b)
      /\ \A j \in 1..(Len(a) + Len(b)) : (a \o b)[j] = IF j <= Len(a) THEN a[j] ELSE b[j - Len(a)]
  BY <1>1, <1>2, ConcatProperties
<1>5. ASSUME NEW j \in 1..(Len(s) - 1)
      PROVE  (a \o b)[j] = IF j < i THEN s[j] ELSE s[j + 1]
  <2>1. j \in 1..(Len(a) + Len(b)) BY <1>0, <1>1, <1>2
  <2>2. CASE j < i BY <1>0, <1>1, <1>4, <2>1, <2>2
  <2>3. CASE ~(j < i)
    <3>1. ~(j <= Len(a)) /\ j - Len(a) = j - (i - 1) /\ j - (i - 1) \in 1..(Len(s) - i)
      BY <1>0, <1>1, <2>3
    <3>2. i + (j - (i - 1)) = j + 1 BY <1>0
    <3> QED BY <1>2, <1>4, <2>1, <2>3, <3>1, <3>2
  <2> QED BY <2>2, <2>3
<1> QED BY <1>0, <1>1, <1>2, <1>3, <1>4, <1>5

\* What is mapped into a finite set one to one is not larger.
LEMMA OneToOne ==
  ASSUME NEW S, NEW T, IsFiniteSet(T), NEW f \in [S -> T],
         \A x, y \in S : f[x] = f[y] => x = y
  PROVE  IsFiniteSet(S) /\ Cardinality(S) <= Cardinality(T)
<1>1. f \in Injection(S, T) BY DEF Injection, IsInjective
<1> QED BY <1>1, FS_Injection

Saying(drawn, t) == {i \in DOMAIN drawn : drawn[i].text = t}

LEMMA Counted ==
  ASSUME NEW S, NEW s \in Seq(S), NEW t
  PROVE  /\ IsFiniteSet(Saying(s, t)) /\ Count(s, t) = Cardinality(Saying(s, t))
         /\ Count(s, t) \in Nat
<1>1. DOMAIN s = 1..Len(s) /\ Len(s) \in Nat BY LenProperties
<1>2. IsFiniteSet(1..Len(s)) BY <1>1, FS_Interval
<1>3. Saying(s, t) \in SUBSET (1..Len(s)) BY <1>1 DEF Saying
<1>4. IsFiniteSet(Saying(s, t)) BY <1>2, <1>3, FS_Subset
<1>5. Count(s, t) = Cardinality(Saying(s, t)) BY DEF Count, Saying
<1> QED BY <1>4, <1>5, FS_CardinalityType

LEMMA CountOfNone == \A t : Count(<<>>, t) = 0
<1> TAKE t
<1>1. {i \in DOMAIN <<>> : <<>>[i].text = t} = {} OBVIOUS
<1> QED BY <1>1, FS_EmptySet DEF Count

LEMMA CountAppend ==
  ASSUME NEW S, NEW s \in Seq(S), NEW e \in S, NEW t
  PROVE  Count(Append(s, e), t) = Count(s, t) + (IF e.text = t THEN 1 ELSE 0)
<1> DEFINE b == Append(s, e)
<1>1. DOMAIN s = 1..Len(s) /\ Len(s) \in Nat BY LenProperties
<1>2. /\ b \in Seq(S) /\ Len(b) = Len(s) + 1 /\ DOMAIN b = 1..(Len(s) + 1)
      /\ \A i \in 1..Len(s) : b[i] = s[i]
      /\ b[Len(s) + 1] = e
  BY <1>1, AppendProperties, LenProperties
<1> HIDE DEF b
<1>3. IsFiniteSet(Saying(s, t)) /\ Count(s, t) = Cardinality(Saying(s, t)) /\ Count(s, t) \in Nat
  BY Counted
<1>4. Count(b, t) = Cardinality(Saying(b, t)) BY <1>2, Counted
<1>5. CASE e.text = t
  <2>1. Saying(b, t) = Saying(s, t) \cup {Len(s) + 1} BY <1>1, <1>2, <1>5 DEF Saying
  <2>2. Len(s) + 1 \notin Saying(s, t) BY <1>1 DEF Saying
  <2>3. Cardinality(Saying(s, t) \cup {Len(s) + 1}) = Cardinality(Saying(s, t)) + 1
    BY <1>3, <2>2, FS_AddElement
  <2> QED BY <1>3, <1>4, <1>5, <2>1, <2>3 DEF b
<1>6. CASE e.text # t
  <2>1. Saying(b, t) = Saying(s, t) BY <1>1, <1>2, <1>6 DEF Saying
  <2> QED BY <1>3, <1>4, <1>6, <2>1 DEF b
<1> QED BY <1>5, <1>6

LEMMA CountConcat ==
  ASSUME NEW S, NEW s \in Seq(S), NEW u \in Seq(S), NEW t
  PROVE  Count(s, t) + Count(u, t) <= Count(s \o u, t)
<1> DEFINE n == Len(s)
           b == s \o u
           A == Saying(s, t)
           B == {n + j : j \in Saying(u, t)}
<1>1. DOMAIN s = 1..n /\ n \in Nat /\ DOMAIN u = 1..Len(u) /\ Len(u) \in Nat BY LenProperties
<1>2. /\ b \in Seq(S) /\ DOMAIN b = 1..(n + Len(u))
      /\ \A i \in 1..n : b[i] = s[i]
      /\ \A j \in 1..Len(u) : b[n + j] = u[j]
  <2>1. /\ b \in Seq(S) /\ Len(b) = n + Len(u)
        /\ \A i \in 1..(n + Len(u)) : b[i] = IF i <= n THEN s[i] ELSE u[i - n]
    BY ConcatProperties
  <2>2. DOMAIN b = 1..(n + Len(u)) BY <2>1, LenProperties
  <2> HIDE DEF b
  <2>3. \A i \in 1..n : b[i] = s[i] BY <1>1, <2>1
  <2>4. ASSUME NEW j \in 1..Len(u) PROVE b[n + j] = u[j]
    <3>1. n + j \in 1..(n + Len(u)) /\ ~(n + j <= n) /\ (n + j) - n = j BY <1>1
    <3> QED BY <2>1, <3>1
  <2> QED BY <2>1, <2>2, <2>3, <2>4
<1> HIDE DEF b, n
<1>3. /\ IsFiniteSet(A) /\ Count(s, t) = Cardinality(A) /\ Count(s, t) \in Nat
      /\ IsFiniteSet(Saying(u, t)) /\ Count(u, t) = Cardinality(Saying(u, t))
      /\ Count(u, t) \in Nat
      /\ IsFiniteSet(Saying(b, t)) /\ Count(b, t) = Cardinality(Saying(b, t))
  BY <1>2, Counted
<1>4. A \cup B \in SUBSET Saying(b, t)
  <2>1. ASSUME NEW i \in A PROVE i \in Saying(b, t) BY <1>1, <1>2 DEF Saying
  <2>2. ASSUME NEW j \in Saying(u, t) PROVE n + j \in Saying(b, t) BY <1>1, <1>2 DEF Saying
  <2> QED BY <2>1, <2>2
<1>5. IsFiniteSet(A \cup B) /\ Cardinality(A \cup B) <= Count(b, t) BY <1>3, <1>4, FS_Subset
<1>6. IsFiniteSet(B) BY <1>5, FS_Subset, B \in SUBSET (A \cup B)
<1>7. Count(u, t) <= Cardinality(B)
  <2> DEFINE f == [j \in Saying(u, t) |-> n + j]
  <2>1. f \in [Saying(u, t) -> B] OBVIOUS
  <2>2. ASSUME NEW x \in Saying(u, t), NEW y \in Saying(u, t), f[x] = f[y] PROVE x = y
    <3>1. x \in Nat /\ y \in Nat BY <1>1 DEF Saying
    <3> QED BY <1>1, <2>2, <3>1
  <2> HIDE DEF f, B
  <2> QED BY <1>3, <1>6, <2>1, <2>2, OneToOne
<1>8. A \cap B = {} BY <1>1 DEF Saying
<1>9. Cardinality(A \cup B) = Cardinality(A) + Cardinality(B)
  <2>1. Cardinality(A \cup B) = Cardinality(A) + Cardinality(B) - Cardinality(A \cap B)
    BY <1>3, <1>6, FS_Union
  <2>2. Cardinality(A \cap B) = 0 BY <1>8, FS_EmptySet
  <2>3. Cardinality(A) \in Nat /\ Cardinality(B) \in Nat BY <1>3, <1>6, FS_CardinalityType
  <2> HIDE DEF A, B
  <2> QED BY <2>1, <2>2, <2>3
<1>10. Cardinality(B) \in Nat /\ Count(b, t) \in Nat BY <1>3, <1>6, FS_CardinalityType
<1> HIDE DEF A, B
<1>11. Count(s, t) + Count(u, t) <= Count(b, t) BY <1>3, <1>5, <1>7, <1>9, <1>10
<1> QED BY <1>11 DEF b

LEMMA CountRemoved ==
  ASSUME NEW S, NEW s \in Seq(S), NEW i \in 1..Len(s), NEW t
  PROVE  Count(s, t) <= Count(RemoveAt(s, i), t) + (IF s[i].text = t THEN 1 ELSE 0)
<1> DEFINE r == RemoveAt(s, i)
           A == Saying(s, t) \ {i}
           f == [j \in A |-> IF j < i THEN j ELSE j - 1]
<1>1. DOMAIN s = 1..Len(s) /\ Len(s) \in Nat BY LenProperties
<1>2. /\ r \in Seq(S) /\ DOMAIN r = 1..(Len(s) - 1)
      /\ \A j \in 1..(Len(s) - 1) : r[j] = IF j < i THEN s[j] ELSE s[j + 1]
  <2>1. r \in Seq(S) /\ Len(r) = Len(s) - 1 BY Removed
  <2>2. DOMAIN r = 1..(Len(s) - 1) BY <2>1, LenProperties
  <2> QED BY <2>1, <2>2, Removed
<1> HIDE DEF r
<1>3. /\ IsFiniteSet(Saying(s, t)) /\ Count(s, t) = Cardinality(Saying(s, t))
      /\ Count(s, t) \in Nat
      /\ IsFiniteSet(Saying(r, t)) /\ Count(r, t) = Cardinality(Saying(r, t))
      /\ Count(r, t) \in Nat
  BY <1>2, Counted
<1>4. ASSUME NEW j \in A PROVE f[j] \in Saying(r, t)
  <2>1. j \in 1..Len(s) /\ s[j].text = t /\ j # i BY <1>1 DEF Saying
  <2>2. CASE j < i
    <3>1. j \in 1..(Len(s) - 1) BY <1>1, <2>1, <2>2
    <3> QED BY <1>2, <2>1, <2>2, <3>1 DEF Saying
  <2>3. CASE ~(j < i)
    <3>1. j - 1 \in 1..(Len(s) - 1) /\ ~(j - 1 < i) /\ (j - 1) + 1 = j BY <1>1, <2>1, <2>3
    <3> QED BY <1>2, <2>1, <2>3, <3>1 DEF Saying
  <2> QED BY <2>2, <2>3
<1>5. ASSUME NEW x \in A, NEW y \in A, f[x] = f[y] PROVE x = y
  <2>1. x \in 1..Len(s) /\ y \in 1..Len(s) /\ x # i /\ y # i BY <1>1 DEF Saying
  <2> QED BY <1>1, <1>5, <2>1
<1>6. f \in [A -> Saying(r, t)] BY <1>4
<1>7. Cardinality(A) <= Count(r, t)
  <2> HIDE DEF f, A
  <2> QED BY <1>3, <1>5, <1>6, OneToOne
<1>8. Cardinality(A) = IF s[i].text = t THEN Count(s, t) - 1 ELSE Count(s, t)
  <2>1. i \in Saying(s, t) <=> s[i].text = t BY <1>1 DEF Saying
  <2>2. Cardinality(Saying(s, t) \ {i}) =
          IF i \in Saying(s, t) THEN Cardinality(Saying(s, t)) - 1 ELSE Cardinality(Saying(s, t))
    BY <1>3, FS_RemoveElement
  <2> QED BY <1>3, <2>1, <2>2
<1> HIDE DEF A, f
<1> QED BY <1>3, <1>7, <1>8 DEF r

-----------------------------------------------------------------------------
(* The rows of messages under way.                                         *)

Words == Texts \cup Items \cup {""}
EventRecord == [type : {"input", "answered", "assistant"}, text : Words]
RowRecord == [id : Nat, text : Texts]

Distinct(drawn) == \A i, j \in DOMAIN drawn : i # j => drawn[i].id # drawn[j].id

\* Every row is one of `all`.
Among(drawn, all) ==
    \A i \in DOMAIN drawn : \E j \in DOMAIN all : drawn[i] = all[j]

\* The one step of the poll: the first row a delivered message speaks of goes.
LEMMA MatchKeeps ==
  ASSUME NEW drawn \in Seq(RowRecord), NEW e \in EventRecord
  PROVE  /\ Match(drawn, e) \in Seq(RowRecord)
         /\ Distinct(drawn) => Distinct(Match(drawn, e))
         /\ Among(Match(drawn, e), drawn)
         /\ \A t : Count(drawn, t) <= Count(Match(drawn, e), t) + (IF e.text = t THEN 1 ELSE 0)
<1>0. DOMAIN drawn = 1..Len(drawn) /\ Len(drawn) \in Nat BY LenProperties
<1> DEFINE hit == {i \in DOMAIN drawn : drawn[i].text = e.text}
<1>1. CASE Match(drawn, e) = drawn
  <2>1. \A t : Count(drawn, t) \in Nat BY Counted
  <2>2. Among(drawn, drawn) BY DEF Among
  <2> QED BY <1>1, <2>1, <2>2
<1>2. CASE Match(drawn, e) # drawn
  <2> DEFINE i == CHOOSE i \in hit : \A j \in hit : i <= j
  <2>1. hit # {} /\ Match(drawn, e) = RemoveAt(drawn, i) BY <1>2 DEF Match
  <2>2. hit \in SUBSET Nat BY <1>0
  <2> HIDE DEF hit
  <2>3. i \in hit BY <2>1, <2>2, LeastNumber
  <2> HIDE DEF i
  <2>4. i \in 1..Len(drawn) /\ drawn[i].text = e.text BY <1>0, <2>3 DEF hit
  <2> DEFINE r == RemoveAt(drawn, i)
  <2>5. /\ r \in Seq(RowRecord) /\ Len(r) = Len(drawn) - 1
        /\ \A j \in 1..(Len(drawn) - 1) : r[j] = IF j < i THEN drawn[j] ELSE drawn[j + 1]
    BY <2>4, Removed
  <2>6. \A t : Count(drawn, t) <= Count(r, t) + (IF e.text = t THEN 1 ELSE 0)
    BY <2>4, CountRemoved
  <2> HIDE DEF r
  <2>7. DOMAIN r = 1..(Len(drawn) - 1) BY <2>5, LenProperties
  <2>8. \A j \in DOMAIN r : (IF j < i THEN j ELSE j + 1) \in DOMAIN drawn BY <1>0, <2>4, <2>7
  <2>9. Among(r, drawn) BY <2>5, <2>7, <2>8 DEF Among
  <2>10. ASSUME Distinct(drawn) PROVE Distinct(r)
    <3> SUFFICES ASSUME NEW j \in DOMAIN r, NEW k \in DOMAIN r, j # k PROVE r[j].id # r[k].id
      BY DEF Distinct
    <3> DEFINE a == IF j < i THEN j ELSE j + 1
               b == IF k < i THEN k ELSE k + 1
    <3>1. a \in DOMAIN drawn /\ b \in DOMAIN drawn BY <2>8
    <3>2. a # b BY <1>0, <2>4, <2>7
    <3>3. r[j] = drawn[a] /\ r[k] = drawn[b] BY <2>5, <2>7
    <3> HIDE DEF a, b
    <3> QED BY <2>10, <3>1, <3>2, <3>3 DEF Distinct
  <2> QED BY <2>1, <2>5, <2>6, <2>9, <2>10 DEF r
<1> QED BY <1>1, <1>2

\* The fold over the events of a poll is its steps, one by one.
LEMMA FoldOfMatch ==
  ASSUME NEW drawn \in Seq(RowRecord), NEW evs \in Seq(EventRecord)
  PROVE  \E g : /\ g[{}] = drawn
                /\ \A k \in 1..Len(evs) : g[1..k] = Match(g[1..(k - 1)], evs[k])
                /\ FoldLeft(Match, drawn, evs) = g[1..Len(evs)]
<1> DEFINE n == Len(evs)
           A == Seq(RowRecord)
           step == [p \in A \X (1..n) |-> Match(p[1], evs[p[2]])]
           iter == CHOOSE g : g = [s \in SUBSET DOMAIN evs |->
                      IF s = {} THEN drawn ELSE Match(g[s \ {Max(s)}], evs[Max(s)])]
<1>0. n \in Nat /\ DOMAIN evs = 1..n /\ \A i \in 1..n : evs[i] \in EventRecord
  BY LenProperties, ElementOfSeq
<1>1. step \in [A \X (1..n) -> A]
  <2>1. \A r \in A : \A i \in 1..n : Match(r, evs[i]) \in A BY <1>0, MatchKeeps
  <2> HIDE DEF n, A
  <2> QED BY <2>1
<1>2. \A r \in A : \A i \in 1..n : step[<<r, i>>] = Match(r, evs[i])
  <2> HIDE DEF n, A
  <2> QED OBVIOUS
<1>3. FoldLeft(Match, drawn, evs) = iter[DOMAIN evs] BY DEF FoldLeft, MapThenFoldSet
<1> HIDE DEF step, A, n
<1>4. drawn \in A BY DEF A
<1>5. PICK g \in [SUBSET (1..n) -> A] : Solves(g, drawn, step, n) BY <1>0, <1>1, <1>4, FoldSolved
<1>6. ASSUME NEW s \in SUBSET (1..n)
      PROVE  (IF s = {} THEN drawn ELSE step[<<g[s \ {Max(s)}], Max(s)>>])
               = (IF s = {} THEN drawn ELSE Match(g[s \ {Max(s)}], evs[Max(s)]))
  <2>1. CASE s = {} BY <2>1
  <2>2. CASE s # {}
    <3>1. Max(s) \in 1..n BY <1>0, <2>2, LastPlace
    <3>2. g[s \ {Max(s)}] \in A BY <1>5
    <3>3. step[<<g[s \ {Max(s)}], Max(s)>>] = Match(g[s \ {Max(s)}], evs[Max(s)])
      BY <1>2, <3>1, <3>2
    <3> QED BY <2>2, <3>3
  <2> QED BY <2>1, <2>2
<1>7. g = [s \in SUBSET (1..n) |->
             IF s = {} THEN drawn ELSE step[<<g[s \ {Max(s)}], Max(s)>>]]
  BY <1>5 DEF Solves
<1>8. g = [s \in SUBSET (1..n) |->
             IF s = {} THEN drawn ELSE Match(g[s \ {Max(s)}], evs[Max(s)])]
  <2>1. [s \in SUBSET (1..n) |->
             IF s = {} THEN drawn ELSE step[<<g[s \ {Max(s)}], Max(s)>>]]
        = [s \in SUBSET (1..n) |->
             IF s = {} THEN drawn ELSE Match(g[s \ {Max(s)}], evs[Max(s)])]
    BY ONLY <1>6
  <2> QED BY ONLY <1>7, <2>1
<1>9. iter = [s \in SUBSET DOMAIN evs |->
                IF s = {} THEN drawn ELSE Match(iter[s \ {Max(s)}], evs[Max(s)])]
  <2>1. \E h : h = [s \in SUBSET DOMAIN evs |->
                IF s = {} THEN drawn ELSE Match(h[s \ {Max(s)}], evs[Max(s)])]
    BY <1>0, <1>8, Zenon
  <2> QED BY <2>1, Zenon
<1> HIDE DEF iter
<1>10. iter[{}] = drawn
  <2>1. {} \in SUBSET DOMAIN evs OBVIOUS
  <2> QED BY <1>9, <2>1
<1>11. ASSUME NEW k \in 1..n PROVE iter[1..k] = Match(iter[1..(k - 1)], evs[k])
  <2>1. 1..k \in SUBSET DOMAIN evs /\ k \in 1..k BY <1>0
  <2>2. Max(1..k) = k BY <1>0, LastOfFirst
  <2>3. (1..k) \ {k} = 1..(k - 1) BY <1>0
  <2>4. iter[1..k] = Match(iter[(1..k) \ {Max(1..k)}], evs[Max(1..k)]) BY <1>9, <2>1
  <2> QED BY <2>2, <2>3, <2>4
<1> QED BY <1>0, <1>3, <1>10, <1>11 DEF n

\* How many of the first k say t.
Upto(s, k, t) == Cardinality({i \in 1..k : s[i].text = t})

LEMMA UptoGrows ==
  ASSUME NEW s, NEW k \in Nat, NEW t
  PROVE  /\ Upto(s, k, t) \in Nat
         /\ Upto(s, 0, t) = 0
         /\ s[k + 1].text = t => Upto(s, k + 1, t) = Upto(s, k, t) + 1
         /\ s[k + 1].text # t => Upto(s, k + 1, t) = Upto(s, k, t)
<1> DEFINE C(n) == {i \in 1..n : s[i].text = t}
<1>1. IsFiniteSet(1..k) BY FS_Interval
<1>2. IsFiniteSet(C(k)) BY <1>1, FS_Subset, C(k) \in SUBSET (1..k)
<1>3. Cardinality(C(k)) \in Nat BY <1>2, FS_CardinalityType
<1>4. C(0) = {} OBVIOUS
<1>5. Cardinality(C(0)) = 0 BY <1>4, FS_EmptySet
<1>6. CASE s[k + 1].text = t
  <2>1. C(k + 1) = C(k) \cup {k + 1} /\ k + 1 \notin C(k) BY <1>6
  <2> HIDE DEF C
  <2>2. Cardinality(C(k + 1)) = Cardinality(C(k)) + 1 BY <1>2, <2>1, FS_AddElement
  <2> QED BY <1>3, <1>5, <1>6, <2>2 DEF Upto, C
<1>7. CASE s[k + 1].text # t
  <2>1. C(k + 1) = C(k) BY <1>7
  <2> HIDE DEF C
  <2>2. Cardinality(C(k + 1)) = Cardinality(C(k)) BY <2>1
  <2> QED BY <1>3, <1>5, <1>7, <2>2 DEF Upto, C
<1> QED BY <1>6, <1>7

\* All the events of a poll: no row leaves that no event spoke of.
LEMMA MatchesKeep ==
  ASSUME NEW drawn \in Seq(RowRecord), NEW evs \in Seq(EventRecord), Distinct(drawn)
  PROVE  /\ FoldLeft(Match, drawn, evs) \in Seq(RowRecord)
         /\ Distinct(FoldLeft(Match, drawn, evs))
         /\ Among(FoldLeft(Match, drawn, evs), drawn)
         /\ \A t : Count(drawn, t) <= Count(FoldLeft(Match, drawn, evs), t) + Count(evs, t)
<1> DEFINE n == Len(evs)
<1>0. n \in Nat /\ DOMAIN evs = 1..n /\ \A i \in 1..n : evs[i] \in EventRecord
  BY LenProperties, ElementOfSeq
<1>1. PICK g : /\ g[{}] = drawn
               /\ \A k \in 1..n : g[1..k] = Match(g[1..(k - 1)], evs[k])
               /\ FoldLeft(Match, drawn, evs) = g[1..n]
  BY FoldOfMatch
<1> HIDE DEF n
<1> DEFINE P(k) == /\ g[1..k] \in Seq(RowRecord) /\ Distinct(g[1..k]) /\ Among(g[1..k], drawn)
                   /\ \A t : Count(drawn, t) <= Count(g[1..k], t) + Upto(evs, k, t)
           S == {k \in Nat : k <= n => P(k)}
<1>2. P(0)
  <2>1. g[1..0] = drawn
    <3>1. 1..0 = {} OBVIOUS
    <3> QED BY <1>1, <3>1
  <2>2. \A t : Count(drawn, t) \in Nat BY Counted
  <2>3. \A t : Upto(evs, 0, t) = 0 BY UptoGrows
  <2>4. Among(drawn, drawn) BY DEF Among
  <2>5. \A t : Count(drawn, t) <= Count(g[1..0], t) + Upto(evs, 0, t) BY <2>1, <2>2, <2>3
  <2> QED BY <2>1, <2>4, <2>5
<1>3. ASSUME NEW k \in Nat, k + 1 <= n, P(k) PROVE P(k + 1)
  <2> DEFINE r == g[1..k]
             q == g[1..(k + 1)]
             e == evs[k + 1]
  <2>1. k + 1 \in 1..n /\ (k + 1) - 1 = k BY <1>0, <1>3
  <2>2. q = Match(r, e) /\ e \in EventRecord BY <1>0, <1>1, <2>1
  <2>3. r \in Seq(RowRecord) /\ Distinct(r) /\ Among(r, drawn)
        /\ \A t : Count(drawn, t) <= Count(r, t) + Upto(evs, k, t)
    BY <1>3
  <2> HIDE DEF r, q, e
  <2>4. /\ q \in Seq(RowRecord) /\ Distinct(q) /\ Among(q, r)
        /\ \A t : Count(r, t) <= Count(q, t) + (IF e.text = t THEN 1 ELSE 0)
    BY <2>2, <2>3, MatchKeeps
  <2>5. Among(q, drawn) BY <2>3, <2>4 DEF Among
  <2>6. ASSUME NEW t PROVE Count(drawn, t) <= Count(q, t) + Upto(evs, k + 1, t)
    <3>1. /\ Count(drawn, t) \in Nat /\ Count(q, t) \in Nat /\ Count(r, t) \in Nat
      BY <2>3, <2>4, Counted
    <3>2. /\ Upto(evs, k, t) \in Nat
          /\ e.text = t => Upto(evs, k + 1, t) = Upto(evs, k, t) + 1
          /\ e.text # t => Upto(evs, k + 1, t) = Upto(evs, k, t)
      BY UptoGrows DEF e
    <3>3. Count(drawn, t) <= Count(r, t) + Upto(evs, k, t) BY <2>3
    <3>4. Count(r, t) <= Count(q, t) + (IF e.text = t THEN 1 ELSE 0) BY <2>4
    <3>5. CASE e.text = t BY <3>1, <3>2, <3>3, <3>4, <3>5
    <3>6. CASE e.text # t BY <3>1, <3>2, <3>3, <3>4, <3>6
    <3> QED BY <3>5, <3>6
  <2> QED BY <2>4, <2>5, <2>6 DEF q
<1> HIDE DEF P
<1>4. 0 \in S BY <1>2
<1>5. ASSUME NEW k \in Nat, k \in S PROVE k + 1 \in S
  <2> SUFFICES ASSUME k + 1 <= n PROVE P(k + 1) OBVIOUS
  <2>1. k <= n BY <1>0
  <2> QED BY <1>3, <1>5, <2>1
<1> HIDE DEF S
<1>6. n \in S BY <1>0, <1>4, <1>5, SetInduction
<1>7. P(n) BY <1>0, <1>6 DEF S
<1>8. \A t : Upto(evs, n, t) = Count(evs, t) BY <1>0 DEF Upto, Count
<1> QED BY <1>1, <1>7, <1>8 DEF P

\* A row is dropped by its number, one place after the other.
DropStep(kept, r, id) == IF r.id = id THEN kept ELSE Append(kept, r)

LEMMA FoldOfDrop ==
  ASSUME NEW drawn \in Seq(RowRecord), NEW id
  PROVE  \E g : /\ g[{}] = <<>>
                /\ \A k \in 1..Len(drawn) : g[1..k] = DropStep(g[1..(k - 1)], drawn[k], id)
                /\ Drop(drawn, id) = g[1..Len(drawn)]
<1> DEFINE n == Len(drawn)
           A == Seq(RowRecord)
           step == [p \in A \X (1..n) |-> DropStep(p[1], drawn[p[2]], id)]
           iter == CHOOSE g : g = [s \in SUBSET DOMAIN drawn |->
                      IF s = {} THEN <<>> ELSE DropStep(g[s \ {Max(s)}], drawn[Max(s)], id)]
<1>0. n \in Nat /\ DOMAIN drawn = 1..n /\ \A i \in 1..n : drawn[i] \in RowRecord
  BY LenProperties, ElementOfSeq
<1>1. step \in [A \X (1..n) -> A]
  <2>1. \A r \in A : \A i \in 1..n : DropStep(r, drawn[i], id) \in A
    BY <1>0, AppendProperties DEF DropStep
  <2> HIDE DEF n, A
  <2> QED BY <2>1
<1>2. \A r \in A : \A i \in 1..n : step[<<r, i>>] = DropStep(r, drawn[i], id)
  <2> HIDE DEF n, A
  <2> QED OBVIOUS
<1>3. Drop(drawn, id) = iter[DOMAIN drawn] BY DEF Drop, DropStep, FoldLeft, MapThenFoldSet
<1>4. <<>> \in A BY EmptySeq
<1> HIDE DEF step, A, n
<1>5. PICK g \in [SUBSET (1..n) -> A] : Solves(g, <<>>, step, n) BY <1>0, <1>1, <1>4, FoldSolved
<1>6. ASSUME NEW s \in SUBSET (1..n)
      PROVE  (IF s = {} THEN <<>> ELSE step[<<g[s \ {Max(s)}], Max(s)>>])
               = (IF s = {} THEN <<>> ELSE DropStep(g[s \ {Max(s)}], drawn[Max(s)], id))
  <2>1. CASE s = {} BY <2>1
  <2>2. CASE s # {}
    <3>1. Max(s) \in 1..n BY <1>0, <2>2, LastPlace
    <3>2. g[s \ {Max(s)}] \in A BY <1>5
    <3>3. step[<<g[s \ {Max(s)}], Max(s)>>] = DropStep(g[s \ {Max(s)}], drawn[Max(s)], id)
      BY <1>2, <3>1, <3>2
    <3> QED BY <2>2, <3>3
  <2> QED BY <2>1, <2>2
<1>7. g = [s \in SUBSET (1..n) |->
             IF s = {} THEN <<>> ELSE step[<<g[s \ {Max(s)}], Max(s)>>]]
  BY <1>5 DEF Solves
<1>8. g = [s \in SUBSET (1..n) |->
             IF s = {} THEN <<>> ELSE DropStep(g[s \ {Max(s)}], drawn[Max(s)], id)]
  <2>1. [s \in SUBSET (1..n) |->
             IF s = {} THEN <<>> ELSE step[<<g[s \ {Max(s)}], Max(s)>>]]
        = [s \in SUBSET (1..n) |->
             IF s = {} THEN <<>> ELSE DropStep(g[s \ {Max(s)}], drawn[Max(s)], id)]
    BY ONLY <1>6
  <2> QED BY ONLY <1>7, <2>1
<1>9. iter = [s \in SUBSET DOMAIN drawn |->
                IF s = {} THEN <<>> ELSE DropStep(iter[s \ {Max(s)}], drawn[Max(s)], id)]
  <2>1. \E h : h = [s \in SUBSET DOMAIN drawn |->
                IF s = {} THEN <<>> ELSE DropStep(h[s \ {Max(s)}], drawn[Max(s)], id)]
    BY <1>0, <1>8, Zenon
  <2> QED BY <2>1, Zenon
<1> HIDE DEF iter
<1>10. iter[{}] = <<>>
  <2>1. {} \in SUBSET DOMAIN drawn OBVIOUS
  <2> QED BY <1>9, <2>1
<1>11. ASSUME NEW k \in 1..n PROVE iter[1..k] = DropStep(iter[1..(k - 1)], drawn[k], id)
  <2>1. 1..k \in SUBSET DOMAIN drawn /\ k \in 1..k BY <1>0
  <2>2. Max(1..k) = k BY <1>0, LastOfFirst
  <2>3. (1..k) \ {k} = 1..(k - 1) BY <1>0
  <2>4. iter[1..k] = DropStep(iter[(1..k) \ {Max(1..k)}], drawn[Max(1..k)], id) BY <1>9, <2>1
  <2> QED BY <2>2, <2>3, <2>4
<1> QED BY <1>0, <1>3, <1>10, <1>11 DEF n

\* One of the first k rows has the number id and says t.
Named(drawn, k, id, t) == \E i \in 1..k : drawn[i].id = id /\ drawn[i].text = t

\* Dropping a row by its number takes one row at most, and no other.
LEMMA DropKeeps ==
  ASSUME NEW drawn \in Seq(RowRecord), Distinct(drawn), NEW id
  PROVE  /\ Drop(drawn, id) \in Seq(RowRecord)
         /\ Distinct(Drop(drawn, id))
         /\ Among(Drop(drawn, id), drawn)
         /\ \A i \in DOMAIN Drop(drawn, id) : Drop(drawn, id)[i].id # id
         /\ \A t : /\ Count(drawn, t) <= Count(Drop(drawn, id), t) + 1
                   /\ ~ Named(drawn, Len(drawn), id, t)
                        => Count(drawn, t) <= Count(Drop(drawn, id), t)
<1> DEFINE n == Len(drawn)
<1>0. n \in Nat /\ DOMAIN drawn = 1..n /\ \A i \in 1..n : drawn[i] \in RowRecord
  BY LenProperties, ElementOfSeq
<1>1. PICK g : /\ g[{}] = <<>>
               /\ \A k \in 1..n : g[1..k] = DropStep(g[1..(k - 1)], drawn[k], id)
               /\ Drop(drawn, id) = g[1..n]
  BY FoldOfDrop
<1> HIDE DEF n
<1> DEFINE OldOnes(q, k) == \A i \in DOMAIN q : q[i].id # id /\ \E j \in 1..k : q[i] = drawn[j]
           Kept(q, k) == \A t : /\ Upto(drawn, k, t) <= Count(q, t) + 1
                                /\ ~ Named(drawn, k, id, t) => Upto(drawn, k, t) <= Count(q, t)
           P(k) == /\ g[1..k] \in Seq(RowRecord) /\ Distinct(g[1..k])
                   /\ OldOnes(g[1..k], k) /\ Kept(g[1..k], k)
           S == {k \in Nat : k <= n => P(k)}
<1>2. P(0)
  <2>1. g[1..0] = <<>>
    <3>1. 1..0 = {} OBVIOUS
    <3> QED BY <1>1, <3>1
  <2>2. \A t : Upto(drawn, 0, t) = 0 BY UptoGrows
  <2>3. \A t : Count(<<>>, t) = 0 BY CountOfNone
  <2>4. <<>> \in Seq(RowRecord) BY EmptySeq
  <2>5. DOMAIN <<>> = {} OBVIOUS
  <2>6. Distinct(<<>>) /\ OldOnes(<<>>, 0) BY <2>5 DEF Distinct
  <2>7. Kept(<<>>, 0) BY <2>2, <2>3
  <2> QED BY <2>1, <2>4, <2>6, <2>7
<1>3. ASSUME NEW k \in Nat, k + 1 <= n, P(k) PROVE P(k + 1)
  <2> DEFINE r == g[1..k]
             q == g[1..(k + 1)]
             e == drawn[k + 1]
  <2>1. k + 1 \in 1..n /\ (k + 1) - 1 = k BY <1>0, <1>3
  <2>2. q = DropStep(r, e, id) /\ e \in RowRecord BY <1>0, <1>1, <2>1
  <2>3. r \in Seq(RowRecord) /\ Distinct(r) /\ OldOnes(r, k) /\ Kept(r, k) BY <1>3
  <2>4. \A t : /\ Upto(drawn, k, t) \in Nat
               /\ e.text = t => Upto(drawn, k + 1, t) = Upto(drawn, k, t) + 1
               /\ e.text # t => Upto(drawn, k + 1, t) = Upto(drawn, k, t)
    BY UptoGrows
  <2>5. \A j \in 1..k : drawn[j].id # e.id
    <3>1. \A j \in 1..k : j \in DOMAIN drawn /\ k + 1 \in DOMAIN drawn /\ j # k + 1
      BY <1>0, <2>1
    <3> QED BY <3>1 DEF Distinct
  <2>6. \A t : Count(r, t) \in Nat BY <2>3, Counted
  <2>7. \A j \in 1..k : j \in 1..(k + 1) BY <2>1
  <2>8. k + 1 \in 1..(k + 1) BY <2>1
  <2>9. \A t : Named(drawn, k, id, t) => Named(drawn, k + 1, id, t) BY <2>7 DEF Named
  <2> HIDE DEF r, q
  <2>a. CASE e.id = id
    <3>1. q = r BY <2>2, <2>a DEF DropStep
    <3>2. OldOnes(r, k + 1) BY <2>3, <2>7
    <3>3. ASSUME NEW t
          PROVE  /\ Upto(drawn, k + 1, t) <= Count(r, t) + 1
                 /\ ~ Named(drawn, k + 1, id, t) => Upto(drawn, k + 1, t) <= Count(r, t)
      <4>1. ~ Named(drawn, k, id, t) BY <2>5, <2>a DEF Named
      <4>2. Upto(drawn, k, t) <= Count(r, t) BY <2>3, <4>1
      <4>3. CASE e.text = t
        <5>1. Named(drawn, k + 1, id, t) BY <2>8, <2>a, <4>3 DEF Named
        <5> QED BY <2>4, <2>6, <4>2, <4>3, <5>1
      <4>4. CASE e.text # t BY <2>4, <2>6, <4>2, <4>4
      <4> QED BY <4>3, <4>4
    <3> QED BY <2>3, <3>1, <3>2, <3>3 DEF q
  <2>b. CASE e.id # id
    <3>1. q = Append(r, e) BY <2>2, <2>b DEF DropStep
    <3>2. /\ q \in Seq(RowRecord) /\ DOMAIN q = 1..(Len(r) + 1) /\ DOMAIN r = 1..Len(r)
          /\ Len(r) \in Nat
          /\ \A i \in 1..Len(r) : q[i] = r[i]
          /\ q[Len(r) + 1] = e
      BY <2>2, <2>3, <3>1, AppendProperties, LenProperties
    <3> DEFINE m == Len(r)
    <3>3. \A i \in DOMAIN q : (i \in DOMAIN r /\ q[i] = r[i]) \/ (i = m + 1 /\ q[i] = e) BY <3>2
    <3>4. \A i \in DOMAIN r : r[i].id # e.id BY <2>3, <2>5
    <3>5. Distinct(q)
      <4> SUFFICES ASSUME NEW i \in DOMAIN q, NEW j \in DOMAIN q, i # j PROVE q[i].id # q[j].id
        BY DEF Distinct
      <4> HIDE DEF m
      <4>1. r[i].id # r[j].id \/ i \notin DOMAIN r \/ j \notin DOMAIN r BY <2>3 DEF Distinct
      <4> QED BY <3>3, <3>4, <4>1
    <3>6. OldOnes(q, k + 1)
      <4> SUFFICES ASSUME NEW i \in DOMAIN q
                   PROVE  q[i].id # id /\ \E j \in 1..(k + 1) : q[i] = drawn[j]
        OBVIOUS
      <4> HIDE DEF m
      <4>1. CASE i \in DOMAIN r /\ q[i] = r[i] BY <2>3, <2>7, <4>1
      <4>2. CASE q[i] = e BY <2>8, <2>b, <4>2
      <4> QED BY <3>3, <4>1, <4>2
    <3>7. ASSUME NEW t
          PROVE  /\ Upto(drawn, k + 1, t) <= Count(q, t) + 1
                 /\ ~ Named(drawn, k + 1, id, t) => Upto(drawn, k + 1, t) <= Count(q, t)
      <4>1. Count(q, t) = Count(r, t) + (IF e.text = t THEN 1 ELSE 0)
        BY <2>2, <2>3, <3>1, CountAppend
      <4>2. /\ Upto(drawn, k, t) <= Count(r, t) + 1
            /\ ~ Named(drawn, k + 1, id, t) => Upto(drawn, k, t) <= Count(r, t)
        BY <2>3, <2>9
      <4>3. CASE e.text = t BY <2>4, <2>6, <4>1, <4>2, <4>3
      <4>4. CASE e.text # t BY <2>4, <2>6, <4>1, <4>2, <4>4
      <4> QED BY <4>3, <4>4
    <3> QED BY <3>2, <3>5, <3>6, <3>7 DEF q
  <2> QED BY <2>a, <2>b
<1> HIDE DEF P
<1>4. 0 \in S BY <1>2
<1>5. ASSUME NEW k \in Nat, k \in S PROVE k + 1 \in S
  <2> SUFFICES ASSUME k + 1 <= n PROVE P(k + 1) OBVIOUS
  <2>1. k <= n BY <1>0
  <2> QED BY <1>3, <1>5, <2>1
<1> HIDE DEF S
<1>6. n \in S BY <1>0, <1>4, <1>5, SetInduction
<1>7. P(n) BY <1>0, <1>6 DEF S
<1>8. \A t : Upto(drawn, n, t) = Count(drawn, t) BY <1>0 DEF Upto, Count
<1>9. OldOnes(g[1..n], n) /\ Kept(g[1..n], n) /\ g[1..n] \in Seq(RowRecord) /\ Distinct(g[1..n])
  BY <1>7 DEF P
<1> DEFINE d == g[1..n]
<1>10. Among(d, drawn) /\ \A i \in DOMAIN d : d[i].id # id BY <1>0, <1>9 DEF Among
<1>11. \A t : /\ Count(drawn, t) <= Count(d, t) + 1
              /\ ~ Named(drawn, n, id, t) => Count(drawn, t) <= Count(d, t)
  BY <1>8, <1>9
<1> HIDE DEF d
<1>12. Drop(drawn, id) = d /\ d \in Seq(RowRecord) /\ Distinct(d) BY <1>1, <1>9 DEF d
<1> QED BY ONLY <1>10, <1>11, <1>12 DEF n

-----------------------------------------------------------------------------
(* The inductive invariant.                                                *)

MailRecord == [id : Nat, text : Words, steer : BOOLEAN, revoked : BOOLEAN]
CallFields == {"kind", "slot", "arg", "text", "st", "evs"}
CallStates == {"out", "ok", "answered", "failed", "gone"}

\* What the server, the page and the calls between them hold.
Typed ==
    /\ journal \in Seq(EventRecord) /\ events \in Seq(EventRecord)
    /\ mail \in Seq(MailRecord) /\ pending \in Seq(RowRecord)
    /\ exists \in BOOLEAN /\ gone \in BOOLEAN /\ typing \in BOOLEAN
    /\ child \subseteq Kids /\ sseApprovals \subseteq Kids
    /\ steps \in Nat

\* A question the page shows, or a late pass may bring, has been asked.
AskedSafe ==
    /\ questions \in Nat /\ ask \in 0..questions /\ askQuestions \in 0..questions
    /\ \A s \in past : s.ask \in 0..questions

IsCall(c) ==
    /\ DOMAIN c = CallFields /\ c.st \in CallStates
    /\ c.text \in Words \cup Items /\ c.evs \in Seq(EventRecord)
    /\ c.kind \in Sends => c.text \in Texts /\ c.arg \in 1..steps
    /\ c.kind = "answer" => c.text \in Texts
    /\ c.kind = "continue" => c.text \in Items
CallsTyped == \A c \in calls : IsCall(c)

\* One poll at most is on its way; its answer continues what the page has.
OnePoll ==
    \A c \in calls : c.kind = "events" =>
        /\ c.st # "out"
        /\ c.st = "ok" => IsPrefix(events \o c.evs, journal)
        /\ \A d \in calls : d.kind = "events" => d = c

\* A message is accepted under the number its call carries, and only once.
MailNumbered ==
    /\ \A i, j \in DOMAIN mail : i # j => mail[i].id # mail[j].id
    /\ \A i \in DOMAIN mail : mail[i].id \in 1..steps
    /\ \A c, d \in calls :
          c.kind \in Sends /\ d.kind \in Sends /\ c.arg = d.arg => c = d
    /\ \A c \in calls : c.kind \in Sends /\ c.st = "out" =>
          \A i \in DOMAIN mail : mail[i].id # c.arg

\* A row is one of the sends the page must still show.
RowsOwed ==
    /\ Distinct(pending)
    /\ \A i \in DOMAIN pending : /\ pending[i].id \in DOMAIN mustShow
                                 /\ mustShow[pending[i].id] = pending[i].text
    /\ DOMAIN mustShow \subseteq 1..steps

\* The request id of an item, once made, is what memory, sessionStorage, the
\* calls and the forks agree on.
OneRequest ==
    /\ forks \in [Items -> SUBSET Nat]
    /\ storedIds \in [Items -> Nat] /\ continueRequests \in [Items -> Nat]
    /\ \A i \in Items : /\ \A x \in forks[i] : x = storedIds[i] /\ x # 0
                        /\ continueRequests[i] \in {0, storedIds[i]}
    /\ \A c \in calls : c.kind = "continue" =>
          storedIds[c.text] = c.arg /\ c.arg # 0

Decided == decided \subseteq resolvedLocal

IInv == /\ Typed /\ AskedSafe /\ CallsTyped /\ OnePoll /\ MailNumbered /\ RowsOwed
        /\ OneRequest /\ Decided /\ EventsFollowJournal /\ NothingSentVanishes

-----------------------------------------------------------------------------
(* The calls, and the moves.                                               *)

LEMMA PageCallFields ==
  ASSUME NEW kind, NEW slot, NEW arg, NEW said, NEW c, c = PageCall(kind, slot, arg, said)
  PROVE  /\ DOMAIN c = CallFields /\ c.kind = kind /\ c.arg = arg /\ c.text = said
         /\ c.st = "out" /\ c.evs = <<>> /\ c.slot = slot
BY DEF PageCall, CallFields

LEMMA AnsweredFields ==
  ASSUME NEW c, DOMAIN c = CallFields, NEW st, NEW d, d = [c EXCEPT !.st = st]
  PROVE  /\ DOMAIN d = CallFields /\ d.kind = c.kind /\ d.arg = c.arg /\ d.text = c.text
         /\ d.st = st /\ d.evs = c.evs
BY DEF CallFields

LEMMA PollFields ==
  ASSUME NEW from, NEW d, d = EventsAfter(from)
  PROVE  /\ DOMAIN d = CallFields /\ d.kind = "events" /\ d.text \in Words
         /\ d.st = (IF exists THEN "ok" ELSE "gone")
         /\ d.evs = SubSeq(journal, from + 1, Len(journal))
<1>e. "" \in Words BY DEF Words
<1> DEFINE x == IF exists THEN "ok" ELSE "gone"
           y == SubSeq(journal, from + 1, Len(journal))
<1>0. PICK c : c = PageCall("events", 0, 0, "") OBVIOUS
<1>1. DOMAIN c = CallFields /\ c.kind = "events" /\ c.text \in Words 
  BY <1>0, <1>e DEF PageCall, CallFields
<1>2. d = [c EXCEPT !.st = x, !.evs = y] BY <1>0 DEF EventsAfter
<1> HIDE DEF x, y
<1>3. /\ DOMAIN d = CallFields /\ d.kind = "events" /\ d.text = c.text /\ d.st = x /\ d.evs = y
  BY <1>1, <1>2 DEF CallFields
<1> QED BY <1>1, <1>3 DEF x, y

\* What an inspect or queue pass does, whichever of its answers lands.
PassMove ==
    /\ Pass
    /\ steps' \in {steps, steps + 1} /\ gone' \in {gone, TRUE}
    /\ askQuestions' \in {askQuestions, ask} \cup {s.ask : s \in past}

ClickMove ==
    \E kind, arg, said :
        /\ kind \in {"answer", "skip", "promote", "unqueue", "approve"}
        /\ Click(kind, arg, said)
        /\ said \in Words /\ (kind = "answer" => said \in Texts)

CallMove == \E c \in calls : \/ LandEvents(c) \/ LandSend(c) \/ LandClick(c)
                             \/ ServeSend(c) \/ ServeClick(c) \/ Refuse(c) \/ Fault(c)

LEMMA ClickIs ==
  ASSUME NEW kind \in {"answer", "skip", "promote", "unqueue", "approve"}, NEW arg,
         NEW said \in Words, kind = "answer" => said \in Texts, Click(kind, arg, said)
  PROVE  ClickMove
BY DEF ClickMove

LEMMA Moves ==
  ASSUME Next
  PROVE  \/ Poll \/ PassMove \/ StreamMessage \/ Consume \/ Server \/ Vanish \/ Reload
         \/ CallMove \/ ClickMove
         \/ \E t \in Texts, d \in Sends : Send(t, d)
         \/ \E i \in Items : ContinueFromMessage(i)
<1>1. CASE InspectPass \/ QueuePass \/ LatePass \/ QueueFails
  <2>1. ASSUME InspectPass PROVE PassMove
    <3>1. Seen.ask = ask BY DEF Seen
    <3> QED BY <2>1, <3>1 DEF InspectPass, LandInspect, Pass, PassMove, quotas
  <2>2. ASSUME QueuePass PROVE PassMove
    BY <2>2 DEF QueuePass, LandQueue, Pass, PassMove, quotas
  <2>3. ASSUME LatePass PROVE PassMove
    <3> QED BY <2>3 DEF LatePass, Spend, LandInspect, LandQueue, Pass, PassMove
  <2>4. ASSUME QueueFails PROVE PassMove
    BY <2>4 DEF QueueFails, Trouble, Spend, LandQueue, Pass, PassMove
  <2> QED BY <1>1, <2>1, <2>2, <2>3, <2>4
<1>2. CASE User
  <2>1. \A t \in Texts : t \in Words BY DEF Words
  <2>2. "" \in Words BY DEF Words
  <2>3. ASSUME NEW t \in Texts, Answer(t) PROVE ClickMove
    BY <2>1, <2>3, ClickIs DEF Answer
  <2>4. ASSUME SkipAsk PROVE ClickMove BY <2>2, <2>4, ClickIs DEF SkipAsk
  <2>5. ASSUME SteerQueued PROVE ClickMove BY <2>2, <2>5, ClickIs DEF SteerQueued
  <2>6. ASSUME WithdrawQueued PROVE ClickMove BY <2>2, <2>6, ClickIs DEF WithdrawQueued
  <2>7. ASSUME NEW k \in Kids, DecideApproval(k) PROVE ClickMove
    BY <2>2, <2>7, ClickIs DEF DecideApproval
  <2> QED BY <1>2, <2>3, <2>4, <2>5, <2>6, <2>7 DEF User
<1>3. CASE Land \/ Serve \/ (\E c \in calls : LandEvents(c)) \/ (\E c \in calls : Fault(c))
  BY <1>3 DEF Land, Serve, CallMove
<1> QED BY <1>1, <1>2, <1>3 DEF Next

\* The message the loop takes next is one of the mailbox.
LEMMA NextTaken ==
  ASSUME NEW S, NEW m \in Seq(S), m # <<>>, NEW first \in SUBSET DOMAIN m
  PROVE  (IF first = {} THEN 1 ELSE CHOOSE j \in first : \A k \in first : j <= k) \in 1..Len(m)
<1>1. DOMAIN m = 1..Len(m) /\ Len(m) \in Nat /\ Len(m) # 0 BY EmptySeq, LenProperties
<1>2. 1 \in 1..Len(m) BY <1>1
<1>3. CASE first = {} BY <1>2, <1>3
<1>4. CASE first # {}
  <2>1. first \in SUBSET Nat BY <1>1
  <2>2. (CHOOSE j \in first : \A k \in first : j <= k) \in first BY <1>4, <2>1, LeastNumber
  <2> QED BY <1>1, <1>4, <2>2
<1> QED BY <1>3, <1>4

LEMMA StepsGrow ==
  ASSUME steps \in Nat, Next
  PROVE  /\ steps' \in Nat /\ steps' \in {steps, steps + 1}
         /\ \A i \in 1..steps : i \in 1..steps'
<1>1. steps' \in {steps, steps + 1}
  <2>1. CASE Poll \/ PassMove \/ StreamMessage \/ Consume \/ Server \/ Vanish \/ Reload
    BY <2>1 DEF Poll, PassMove, StreamMessage, Consume, Server, Vanish, Reload, Trouble, Spend,
                quotas
  <2>2. CASE CallMove
    BY <2>2 DEF CallMove, LandEvents, LandSend, LandClick, ServeSend, ServeClick, Refuse, Fault,
                Trouble, Spend, quotas
  <2>3. CASE ClickMove BY <2>3 DEF ClickMove, Click, Spend
  <2>4. CASE \E t \in Texts, d \in Sends : Send(t, d) BY <2>4 DEF Send, Spend
  <2>5. CASE \E i \in Items : ContinueFromMessage(i) BY <2>5 DEF ContinueFromMessage, Spend
  <2> QED BY Moves, <2>1, <2>2, <2>3, <2>4, <2>5
<1> QED BY <1>1

LEMMA EventIs ==
  ASSUME NEW type \in {"input", "answered", "assistant"}, NEW said \in Words
  PROVE  Event(type, said) \in EventRecord
BY DEF Event, EventRecord

\* The journal, and the messages in it.
LEMMA JournalStep ==
  ASSUME Typed, CallsTyped, Next
  PROVE  /\ journal' \in Seq(EventRecord)
         /\ \/ journal' = journal
            \/ \E e \in EventRecord : journal' = Append(journal, e)
<1> SUFFICES \/ journal' = journal
             \/ \E e \in EventRecord : journal' = Append(journal, e)
  <2>1. journal \in Seq(EventRecord) BY DEF Typed
  <2>2. \A e \in EventRecord : Append(journal, e) \in Seq(EventRecord)
    BY <2>1, AppendProperties
  <2> QED BY <2>1, <2>2
<1>0. "" \in Words /\ \A t \in Texts : t \in Words BY DEF Words
<1>1. CASE Poll \/ PassMove \/ StreamMessage \/ Vanish \/ Reload
  BY <1>1 DEF Poll, PassMove, Pass, StreamMessage, Vanish, Reload, remoteVars
<1>2. CASE Consume
  <2> DEFINE first == {i \in DOMAIN mail : mail[i].steer}
             i == IF first = {} THEN 1 ELSE CHOOSE j \in first : \A k \in first : j <= k
  <2>1. mail # <<>>
        /\ journal' = (IF mail[i].revoked THEN journal
                       ELSE Append(journal, Event("input", mail[i].text)))
    BY <1>2 DEF Consume
  <2>2. i \in 1..Len(mail)
    <3>1. first \in SUBSET DOMAIN mail OBVIOUS
    <3> HIDE DEF first
    <3> QED BY <2>1, <3>1, NextTaken DEF Typed
  <2> HIDE DEF i
  <2>3. mail[i] \in MailRecord BY <2>2, ElementOfSeq DEF Typed
  <2>4. mail[i].text \in Words BY <2>3 DEF MailRecord
  <2> QED BY <2>1, <2>4, EventIs
<1>3. CASE Server
  <2>1. journal' = journal \/ journal' = Append(journal, Event("assistant", ""))
    BY <1>3 DEF Server
  <2> QED BY <1>0, <2>1, EventIs
<1>4. CASE CallMove
  <2> PICK c \in calls : \/ LandEvents(c) \/ LandSend(c) \/ LandClick(c) \/ ServeSend(c)
                         \/ ServeClick(c) \/ Refuse(c) \/ Fault(c)
    BY <1>4 DEF CallMove
  <2>0. IsCall(c) BY DEF CallsTyped
  <2>1. CASE LandEvents(c) \/ LandSend(c) \/ LandClick(c) \/ Refuse(c) \/ Fault(c)
    BY <2>1 DEF LandEvents, LandSend, LandClick, Refuse, Fault, remoteVars
  <2>2. CASE ServeSend(c)
    <3>1. journal' = journal \/ journal' = Append(journal, Event("answered", c.text))
      BY <2>2 DEF ServeSend
    <3>2. c.text \in Words BY <1>0, <2>0, <2>2 DEF IsCall, ServeSend
    <3> QED BY <3>1, <3>2, EventIs
  <2>3. CASE ServeClick(c)
    <3>1. \/ journal' = journal
          \/ c.kind = "answer" /\ journal' = Append(journal, Event("answered", c.text))
      BY <2>3 DEF ServeClick
    <3>2. c.kind = "answer" => c.text \in Words BY <1>0, <2>0 DEF IsCall
    <3> QED BY <3>1, <3>2, EventIs
  <2> QED BY <2>1, <2>2, <2>3
<1>5. CASE ClickMove BY <1>5 DEF ClickMove, Click, remoteVars
<1>6. CASE \E t \in Texts, d \in Sends : Send(t, d) BY <1>6 DEF Send, remoteVars
<1>7. CASE \E i \in Items : ContinueFromMessage(i) BY <1>7 DEF ContinueFromMessage, remoteVars
<1> QED BY Moves, <1>1, <1>2, <1>3, <1>4, <1>5, <1>6, <1>7

\* A call stays one as the steps grow; its answer is one; a poll is one.
LEMMA OldCall ==
  ASSUME NEW c, IsCall(c), \A i \in 1..steps : i \in 1..steps'
  PROVE  IsCall(c)'
BY DEF IsCall

LEMMA AnsweredCall ==
  ASSUME NEW c, IsCall(c), NEW st \in CallStates
  PROVE  IsCall([c EXCEPT !.st = st])
<1>0. PICK d : d = [c EXCEPT !.st = st] OBVIOUS
<1>1. DOMAIN c = CallFields BY DEF IsCall
<1>2. /\ DOMAIN d = CallFields /\ d.kind = c.kind /\ d.arg = c.arg /\ d.text = c.text
      /\ d.st = st /\ d.evs = c.evs
  BY <1>0, <1>1, AnsweredFields
<1>3. IsCall(d) BY ONLY <1>2, st \in CallStates, IsCall(c) DEF IsCall
<1> QED BY <1>0, <1>3

LEMMA PollIsCall ==
  ASSUME Typed, NEW from \in Nat
  PROVE  IsCall(EventsAfter(from))
<1>0. PICK d : d = EventsAfter(from) OBVIOUS
<1>1. /\ DOMAIN d = CallFields /\ d.kind = "events" /\ d.text \in Words
      /\ d.st = (IF exists THEN "ok" ELSE "gone")
      /\ d.evs = SubSeq(journal, from + 1, Len(journal))
  BY <1>0, PollFields
<1>2. d.st \in CallStates BY <1>1 DEF CallStates
<1>3. d.evs \in Seq(EventRecord)
  <2>1. journal \in Seq(EventRecord) BY DEF Typed
  <2>2. Len(journal) \in Nat /\ \A i \in 1..Len(journal) : journal[i] \in EventRecord
    BY <2>1, LenProperties, ElementOfSeq
  <2>3. from + 1 \in Int /\ Len(journal) \in Int
        /\ \A i \in (from + 1)..Len(journal) : journal[i] \in EventRecord
    BY <2>2
  <2> QED BY <1>1, <2>1, <2>3, SubSeqProperties
<1>4. IsCall(d) BY <1>1, <1>2, <1>3 DEF IsCall, Sends
<1> QED BY <1>0, <1>4

LEMMA ClickIsCall ==
  ASSUME NEW kind, NEW slot, NEW arg, NEW said \in Words \cup Items,
         kind \in Sends => said \in Texts /\ arg \in 1..steps',
         kind = "answer" => said \in Texts,
         kind = "continue" => said \in Items,
         NEW d, d = PageCall(kind, slot, arg, said)
  PROVE  IsCall(d)'
<1>1. /\ DOMAIN d = CallFields /\ d.kind = kind /\ d.arg = arg /\ d.text = said
      /\ d.st = "out" /\ d.evs = <<>>
  BY PageCallFields
<1>2. d.evs \in Seq(EventRecord) BY <1>1, EmptySeq
<1>3. d.st \in CallStates BY <1>1 DEF CallStates
<1> QED BY <1>1, <1>2, <1>3 DEF IsCall

LEMMA CallsTypedStep ==
  ASSUME Typed, CallsTyped, EventsFollowJournal, Next
  PROVE  CallsTyped'
<1>0. steps' \in Nat /\ \A i \in 1..steps : i \in 1..steps' BY StepsGrow DEF Typed
<1>a. \A d : IsCall(d) => IsCall(d)' BY <1>0, OldCall
<1>b. cursor \in Nat BY LenProperties DEF EventsFollowJournal, Typed
<1>c. ASSUME NEW d, d \in {EventsAfter(cursor), EventsAfter(0)} PROVE IsCall(d)'
  BY <1>a, <1>b, <1>c, PollIsCall
<1>d. PICK p : p = EventsAfter(cursor) OBVIOUS
<1>e. PICK z : z = EventsAfter(0) OBVIOUS
<1>1. ASSUME calls' \in SUBSET calls PROVE CallsTyped' BY <1>1, <1>a DEF CallsTyped
<1>2. ASSUME NEW c \in calls, NEW st \in CallStates, calls' = Answered(c, st)
      PROVE  CallsTyped'
  BY <1>2, <1>a, AnsweredCall DEF CallsTyped, Answered
<1>3. ASSUME NEW d, IsCall(d)', calls' \in SUBSET (calls \cup {d}) PROVE CallsTyped'
  BY <1>3, <1>a DEF CallsTyped
<1>4. CASE PassMove \/ StreamMessage \/ Consume \/ Server \/ Vanish
  BY <1>1, <1>4 DEF PassMove, Pass, StreamMessage, Consume, Server, Vanish
<1>5. CASE Poll BY <1>3, <1>5, <1>c, <1>d DEF Poll, Issue
<1>6. CASE Reload BY <1>3, <1>6, <1>c, <1>e DEF Reload
<1>7. CASE CallMove
  <2> PICK c \in calls : \/ LandEvents(c) \/ LandSend(c) \/ LandClick(c) \/ ServeSend(c)
                         \/ ServeClick(c) \/ Refuse(c) \/ Fault(c)
    BY <1>7 DEF CallMove
  <2>1. CASE LandEvents(c) \/ LandSend(c) BY <1>1, <2>1 DEF LandEvents, LandSend
  <2>2. CASE LandClick(c) BY <1>3, <1>c, <1>d, <2>2 DEF LandClick, AlsoPoll
  <2>3. CASE ServeSend(c) \/ ServeClick(c) \/ Refuse(c) \/ Fault(c)
    <3>1. \E st \in CallStates : calls' = Answered(c, st)
      BY <2>3 DEF ServeSend, ServeClick, Refuse, Fault, CallStates
    <3> QED BY <1>2, <3>1
  <2> QED BY <2>1, <2>2, <2>3
<1>8. CASE ClickMove
  <2>1. PICK kind, arg, said : /\ kind \in {"answer", "skip", "promote", "unqueue", "approve"}
                               /\ Click(kind, arg, said)
                               /\ said \in Words /\ (kind = "answer" => said \in Texts)
    BY <1>8 DEF ClickMove
  <2>2. kind \notin Sends /\ kind # "continue" BY <2>1 DEF Sends
  <2>3. PICK e : e = PageCall(kind, steps + 1, arg, said) OBVIOUS
  <2>4. IsCall(e)' BY <2>1, <2>2, <2>3, ClickIsCall
  <2> QED BY <1>3, <2>1, <2>3, <2>4 DEF Click, Issue
<1>9. CASE \E t \in Texts, d \in Sends : Send(t, d)
  <2>1. PICK t \in Texts, s \in Sends : Send(t, s) BY <1>9
  <2>2. PICK e, slot, id : /\ e = PageCall(s, slot, id, t) /\ id = steps + 1
                          /\ calls' = calls \cup {e} /\ steps' = steps + 1
    BY <2>1 DEF Send, Issue, NextId, Spend
  <2>3. id \in 1..steps' BY <1>0, <2>2 DEF Typed
  <2>4. t \in Words /\ s # "answer" /\ s # "continue" BY DEF Words, Sends
  <2>5. IsCall(e)' BY <2>2, <2>3, <2>4, ClickIsCall
  <2> QED BY <1>3, <2>2, <2>5
<1>10. CASE \E i \in Items : ContinueFromMessage(i)
  <2>1. PICK i \in Items : ContinueFromMessage(i) BY <1>10
  <2>2. PICK e, id : /\ e = PageCall("continue", steps + 1, id, i)
                    /\ calls' = calls \cup {e}
    BY <2>1 DEF ContinueFromMessage, Issue
  <2>3. "continue" \notin Sends /\ i \in Words \cup Items BY DEF Sends
  <2>4. IsCall(e)' BY <2>2, <2>3, ClickIsCall
  <2> QED BY <1>3, <2>2, <2>4
<1> QED BY Moves, <1>4, <1>5, <1>6, <1>7, <1>8, <1>9, <1>10

-----------------------------------------------------------------------------
(* Every part is kept.                                                     *)

LEMMA MailStep ==
  ASSUME Typed, CallsTyped, Next
  PROVE  mail' \in Seq(MailRecord)
<1>0. mail \in Seq(MailRecord) BY DEF Typed
<1>1. CASE UNCHANGED mail BY <1>0, <1>1
<1>2. CASE Consume
  <2> DEFINE first == {i \in DOMAIN mail : mail[i].steer}
             i == IF first = {} THEN 1 ELSE CHOOSE j \in first : \A k \in first : j <= k
  <2>1. mail # <<>> /\ mail' = RemoveAt(mail, i) BY <1>2 DEF Consume
  <2>2. i \in 1..Len(mail)
    <3>1. first \in SUBSET DOMAIN mail OBVIOUS
    <3> HIDE DEF first
    <3> QED BY <1>0, <2>1, <3>1, NextTaken
  <2> HIDE DEF i
  <2> QED BY <1>0, <2>1, <2>2, Removed
<1>3. CASE \E c \in calls : ServeSend(c)
  <2> PICK c \in calls : ServeSend(c) BY <1>3
  <2> DEFINE m == [id |-> c.arg, text |-> c.text, steer |-> c.kind = "steer",
                   revoked |-> FALSE]
  <2>1. \/ mail' = mail \/ mail' = Append(mail, m) BY DEF ServeSend
  <2>2. c.text \in Texts /\ c.arg \in 1..steps BY DEF ServeSend, CallsTyped, IsCall
  <2>3. c.text \in Words /\ c.arg \in Nat
    <3>1. steps \in Nat BY DEF Typed
    <3>2. \A x \in 1..steps : x \in Nat BY <3>1
    <3>3. c.text \in Words BY <2>2 DEF Words
    <3> QED BY <2>2, <3>2, <3>3
  <2>4. m \in MailRecord BY <2>3 DEF MailRecord
  <2> HIDE DEF m
  <2> QED BY <1>0, <2>1, <2>4, AppendProperties
<1>4. CASE \E c \in calls : ServeClick(c)
  <2> PICK c \in calls : ServeClick(c) BY <1>4
  <2>1. CASE UNCHANGED mail BY <1>0, <2>1
  <2>2. CASE ~ UNCHANGED mail
    <3>1. mail' = [i \in DOMAIN mail |->
                     IF mail[i].id # c.arg THEN mail[i]
                     ELSE IF c.kind = "unqueue" THEN [mail[i] EXCEPT !.revoked = TRUE]
                                                ELSE [mail[i] EXCEPT !.steer = TRUE]]
      BY <2>2 DEF ServeClick
    <3>2. DOMAIN mail = 1..Len(mail) /\ Len(mail) \in Nat
          /\ \A i \in 1..Len(mail) : mail[i] \in MailRecord
      BY <1>0, LenProperties, ElementOfSeq
    <3>3. \A m \in MailRecord : /\ [m EXCEPT !.revoked = TRUE] \in MailRecord
                                /\ [m EXCEPT !.steer = TRUE] \in MailRecord
      BY DEF MailRecord
    <3>4. mail' \in [1..Len(mail) -> MailRecord]
      <4> HIDE DEF MailRecord
      <4> QED BY <3>1, <3>2, <3>3
    <3> QED BY <3>2, <3>4, SeqDef
  <2> QED BY <2>1, <2>2
<1>5. CASE Poll \/ PassMove \/ StreamMessage \/ Server \/ Vanish \/ Reload
  BY <1>1, <1>5 DEF Poll, PassMove, Pass, StreamMessage, Server, Vanish, Reload, remoteVars
<1>6. CASE \E c \in calls : LandEvents(c) \/ LandSend(c) \/ LandClick(c) \/ Refuse(c) \/ Fault(c)
  BY <1>1, <1>6 DEF LandEvents, LandSend, LandClick, Refuse, Fault, remoteVars
<1>7. CASE ClickMove BY <1>1, <1>7 DEF ClickMove, Click, remoteVars
<1>8. CASE \E t \in Texts, d \in Sends : Send(t, d) BY <1>1, <1>8 DEF Send, remoteVars
<1>9. CASE \E i \in Items : ContinueFromMessage(i) BY <1>1, <1>9 DEF ContinueFromMessage, remoteVars
<1> QED BY Moves, <1>2, <1>3, <1>4, <1>5, <1>6, <1>7, <1>8, <1>9 DEF CallMove

\* The page's own rows and events.
LEMMA RowsTyped ==
  ASSUME Typed, CallsTyped, Distinct(pending), Next
  PROVE  pending' \in Seq(RowRecord) /\ events' \in Seq(EventRecord)
<1>0. pending \in Seq(RowRecord) /\ events \in Seq(EventRecord) BY DEF Typed
<1>1. CASE UNCHANGED <<pending, events>> BY <1>0, <1>1
<1>2. CASE \E c \in calls : LandEvents(c)
  <2> PICK c \in calls : LandEvents(c) BY <1>2
  <2>1. CASE c.st = "ok"
    <3>1. pending' = FoldLeft(Match, pending, c.evs) /\ events' = events \o c.evs
      BY <2>1 DEF LandEvents
    <3>2. c.evs \in Seq(EventRecord) BY DEF CallsTyped, IsCall
    <3>3. FoldLeft(Match, pending, c.evs) \in Seq(RowRecord) BY <1>0, <3>2, MatchesKeep
    <3>4. events \o c.evs \in Seq(EventRecord) BY <1>0, <3>2, ConcatProperties
    <3> QED BY <3>1, <3>3, <3>4
  <2>2. CASE c.st # "ok" BY <1>1, <2>2 DEF LandEvents
  <2> QED BY <2>1, <2>2
<1>3. CASE \E c \in calls : LandSend(c)
  <2> PICK c \in calls : LandSend(c) BY <1>3
  <2>1. events' = events /\ (pending' = pending \/ pending' = Drop(pending, c.arg))
    BY DEF LandSend
  <2> QED BY <1>0, <2>1, DropKeeps
<1>4. CASE \E t \in Texts, d \in Sends : Send(t, d)
  <2> PICK t \in Texts, d \in Sends : Send(t, d) BY <1>4
  <2>1. events' = events /\ pending' = Append(pending, [id |-> steps + 1, text |-> t])
    BY DEF Send, NextId
  <2>2. [id |-> steps + 1, text |-> t] \in RowRecord BY DEF Typed, RowRecord
  <2> QED BY <1>0, <2>1, <2>2, AppendProperties
<1>5. CASE Reload BY <1>5, EmptySeq DEF Reload
<1>6. CASE Poll \/ PassMove \/ StreamMessage \/ Consume \/ Server \/ Vanish
  BY <1>1, <1>6 DEF Poll, PassMove, Pass, StreamMessage, Consume, Server, Vanish, pageVars
<1>7. CASE \E c \in calls : LandClick(c) \/ ServeSend(c) \/ ServeClick(c) \/ Refuse(c) \/ Fault(c)
  BY <1>1, <1>7 DEF LandClick, ServeSend, ServeClick, Refuse, Fault, pageVars
<1>8. CASE ClickMove BY <1>1, <1>8 DEF ClickMove, Click, pageVars
<1>9. CASE \E i \in Items : ContinueFromMessage(i) BY <1>1, <1>9 DEF ContinueFromMessage
<1> QED BY Moves, <1>2, <1>3, <1>4, <1>5, <1>6, <1>7, <1>8, <1>9 DEF CallMove

LEMMA FlagsStep ==
  ASSUME Typed, Next
  PROVE  /\ exists' \in BOOLEAN /\ gone' \in BOOLEAN /\ typing' \in BOOLEAN
         /\ child' \subseteq Kids /\ sseApprovals' \subseteq Kids
<1>0. /\ exists \in BOOLEAN /\ gone \in BOOLEAN /\ typing \in BOOLEAN
      /\ child \subseteq Kids /\ sseApprovals \subseteq Kids
  BY DEF Typed
<1>1. CASE UNCHANGED <<exists, gone, typing, child, sseApprovals>> BY <1>0, <1>1
<1>2. CASE PassMove BY <1>0, <1>2 DEF PassMove, Pass, remoteVars
<1>3. CASE StreamMessage
  <2>1. UNCHANGED <<exists, gone, child>> BY <1>3 DEF StreamMessage, remoteVars
  <2>2. typing' \in BOOLEAN
    <3>1. typing' = ((Head(stream) = Delta \/ typing) /\ Head(stream) # Discard)
      BY <1>3 DEF StreamMessage
    <3> QED BY <3>1, Zenon
  <2>3. sseApprovals' = sseApprovals \cup ({Head(stream)} \cap Kids) BY <1>3 DEF StreamMessage
  <2> QED BY <1>0, <2>1, <2>2, <2>3
<1>4. CASE Server BY <1>0, <1>4 DEF Server, pageVars
<1>5. CASE Vanish BY <1>0, <1>5 DEF Vanish, pageVars
<1>6. CASE Reload BY <1>0, <1>6 DEF Reload, remoteVars
<1>7. CASE \E c \in calls : LandEvents(c)
  <2> PICK c \in calls : LandEvents(c) BY <1>7
  <2>1. UNCHANGED <<exists, child, sseApprovals>> BY DEF LandEvents, remoteVars
  <2>2. CASE c.st = "ok"
    <3>1. gone' = gone BY <2>2 DEF LandEvents
    <3>2. typing' = (typing /\ \A i \in DOMAIN c.evs : c.evs[i].type # "assistant")
      BY <2>2 DEF LandEvents
    <3>3. typing' \in BOOLEAN BY <3>2, Zenon
    <3> QED BY <1>0, <2>1, <3>1, <3>3
  <2>3. CASE c.st # "ok"
    <3>1. typing' = typing BY <2>3 DEF LandEvents
    <3>2. gone' = (gone \/ c.st = "gone") BY <2>3 DEF LandEvents
    <3>3. gone' \in BOOLEAN BY <3>2, Zenon
    <3> QED BY <1>0, <2>1, <3>1, <3>3
  <2> QED BY <2>2, <2>3
<1>8. CASE \E c \in calls : ServeClick(c)
  BY <1>0, <1>8 DEF ServeClick, pageVars
<1>9. CASE \E c \in calls : LandSend(c) \/ LandClick(c) \/ ServeSend(c) \/ Refuse(c) \/ Fault(c)
  BY <1>1, <1>9 DEF LandSend, LandClick, ServeSend, Refuse, Fault, remoteVars, pageVars
<1>10. CASE Poll \/ Consume BY <1>1, <1>10 DEF Poll, Consume, remoteVars, pageVars
<1>11. CASE ClickMove BY <1>1, <1>11 DEF ClickMove, Click, remoteVars, pageVars
<1>12. CASE \E t \in Texts, d \in Sends : Send(t, d) BY <1>1, <1>12 DEF Send, remoteVars
<1>13. CASE \E i \in Items : ContinueFromMessage(i)
  BY <1>1, <1>13 DEF ContinueFromMessage, remoteVars
<1> QED BY Moves, <1>2, <1>3, <1>4, <1>5, <1>6, <1>7, <1>8, <1>9, <1>10, <1>11, <1>12, <1>13
        DEF CallMove

LEMMA TypedStep ==
  ASSUME Typed, CallsTyped, Distinct(pending), Next
  PROVE  Typed'
<1>1. journal' \in Seq(EventRecord) BY JournalStep
<1>2. mail' \in Seq(MailRecord) BY MailStep
<1>3. pending' \in Seq(RowRecord) /\ events' \in Seq(EventRecord) BY RowsTyped
<1>4. steps' \in Nat BY StepsGrow DEF Typed
<1> QED BY <1>1, <1>2, <1>3, <1>4, FlagsStep DEF Typed

\* The open question is the last asked; a pass, late or not, shows one asked.
LEMMA AskedStep ==
  ASSUME AskedSafe, Next
  PROVE  AskedSafe'
<1>0. questions \in Nat /\ ask \in 0..questions /\ askQuestions \in 0..questions
      /\ \A s \in past : s.ask \in 0..questions
  BY DEF AskedSafe
<1>r. Seen.ask = ask BY DEF Seen
<1>s. (Seen.ask)' = ask' BY DEF Seen
<1>1. ASSUME questions' = questions, ask' \in {ask, 0},
             askQuestions' \in {askQuestions, ask, 0} \cup {s.ask : s \in past},
             past' \in SUBSET (past \cup {Seen'}) \/ past' = past
      PROVE  AskedSafe'
  <2>1. ask' \in 0..questions /\ askQuestions' \in 0..questions BY <1>0, <1>1
  <2>2. \A s \in past' : s.ask \in 0..questions BY <1>0, <1>1, <1>s, <2>1
  <2> QED BY <1>0, <1>1, <2>1, <2>2 DEF AskedSafe
<1>a. Remember => past' \in SUBSET (past \cup {Seen'}) BY DEF Remember
<1>2. CASE Poll \/ StreamMessage \/ Vanish
  BY <1>1, <1>2 DEF Poll, StreamMessage, Vanish, remoteVars, pageVars
<1>3. CASE PassMove BY <1>1, <1>3 DEF PassMove, Pass, remoteVars
<1>4. CASE Consume BY <1>1, <1>4, <1>a DEF Consume, pageVars
<1>5. CASE Server
  <2>1. /\ \/ questions' = questions /\ ask' = ask
           \/ questions' = questions + 1 /\ ask' = questions + 1
        /\ askQuestions' = askQuestions /\ past' \in SUBSET (past \cup {Seen'})
    BY <1>5, <1>a DEF Server, pageVars
  <2>2. questions' \in Nat /\ ask' \in 0..questions' /\ askQuestions' \in 0..questions'
        /\ \A x \in 0..questions : x \in 0..questions'
    BY <1>0, <2>1
  <2>3. \A s \in past' : s.ask \in 0..questions' BY <1>0, <1>s, <2>1, <2>2
  <2> QED BY <2>2, <2>3 DEF AskedSafe
<1>6. CASE Reload
  <2>1. questions' = questions /\ ask' = ask /\ askQuestions' = 0 /\ past' = {Seen}
    BY <1>6 DEF Reload, remoteVars
  <2>2. \A s \in past' : s.ask \in 0..questions BY <1>0, <1>r, <2>1
  <2> QED BY <1>0, <2>1, <2>2 DEF AskedSafe
<1>7. CASE CallMove
  <2> PICK c \in calls : \/ LandEvents(c) \/ LandSend(c) \/ LandClick(c) \/ ServeSend(c)
                         \/ ServeClick(c) \/ Refuse(c) \/ Fault(c)
    BY <1>7 DEF CallMove
  <2>1. CASE LandEvents(c) \/ LandSend(c) \/ Refuse(c) \/ Fault(c)
    BY <1>1, <2>1 DEF LandEvents, LandSend, Refuse, Fault, remoteVars, pageVars
  <2>2. CASE LandClick(c)
    <3>1. questions' = questions /\ ask' = ask /\ past' = past
          /\ (askQuestions' = askQuestions \/ askQuestions' = 0)
      BY <2>2 DEF LandClick, remoteVars
    <3> QED BY <1>1, <3>1
  <2>3. CASE ServeSend(c) BY <1>1, <1>a, <2>3 DEF ServeSend, pageVars
  <2>4. CASE ServeClick(c) BY <1>1, <1>a, <2>4 DEF ServeClick, pageVars
  <2> QED BY <2>1, <2>2, <2>3, <2>4
<1>8. CASE ClickMove BY <1>1, <1>8 DEF ClickMove, Click, remoteVars, pageVars
<1>9. CASE \E t \in Texts, d \in Sends : Send(t, d) BY <1>1, <1>9 DEF Send, remoteVars
<1>10. CASE \E i \in Items : ContinueFromMessage(i)
  BY <1>1, <1>10 DEF ContinueFromMessage, remoteVars
<1> QED BY Moves, <1>2, <1>3, <1>4, <1>5, <1>6, <1>7, <1>8, <1>9, <1>10

\* What the page saw decided it also keeps off the stack.
LEMMA DecidedStep ==
  ASSUME Decided, Next
  PROVE  Decided'
<1>1. CASE UNCHANGED <<decided, resolvedLocal>> BY <1>1 DEF Decided
<1>2. CASE \E c \in calls : LandClick(c) BY <1>2 DEF LandClick, Decided
<1>3. CASE Reload BY <1>3 DEF Reload, Decided
<1>4. CASE Poll \/ PassMove \/ StreamMessage \/ Consume \/ Server \/ Vanish
  BY <1>1, <1>4 DEF Poll, PassMove, Pass, StreamMessage, Consume, Server, Vanish, pageVars, history
<1>5. CASE \E c \in calls : \/ LandEvents(c) \/ LandSend(c) \/ ServeSend(c) \/ ServeClick(c)
                            \/ Refuse(c) \/ Fault(c)
  BY <1>1, <1>5 DEF LandEvents, LandSend, ServeSend, ServeClick, Refuse, Fault, pageVars, history
<1>6. CASE ClickMove BY <1>1, <1>6 DEF ClickMove, Click, pageVars, history
<1>7. CASE \E t \in Texts, d \in Sends : Send(t, d) BY <1>1, <1>7 DEF Send
<1>8. CASE \E i \in Items : ContinueFromMessage(i)
  BY <1>1, <1>8 DEF ContinueFromMessage, history
<1> QED BY Moves, <1>2, <1>3, <1>4, <1>5, <1>6, <1>7, <1>8 DEF CallMove

-----------------------------------------------------------------------------
(* Nothing that was sent vanishes.                                         *)

MustSay(t) == {i \in DOMAIN mustShow : mustShow[i] = t}

LEMMA MustCounted ==
  ASSUME DOMAIN mustShow \subseteq 1..steps, steps \in Nat, NEW t
  PROVE  IsFiniteSet(MustSay(t)) /\ Cardinality(MustSay(t)) \in Nat
<1>1. IsFiniteSet(1..steps) BY FS_Interval
<1>2. MustSay(t) \in SUBSET (1..steps) BY DEF MustSay
<1> QED BY <1>1, <1>2, FS_Subset, FS_CardinalityType

\* A poll lands: a row leaves only where an event that says the same arrives.
LEMMA PolledRows ==
  ASSUME Typed, CallsTyped, RowsOwed, NothingSentVanishes, NEW c \in calls, LandEvents(c)
  PROVE  RowsOwed' /\ NothingSentVanishes'
<1>0. pending \in Seq(RowRecord) /\ events \in Seq(EventRecord) /\ steps \in Nat BY DEF Typed
<1>1. UNCHANGED <<mustShow, steps>> BY DEF LandEvents, history, quotas
<1>2. CASE c.st # "ok"
  <2>1. UNCHANGED <<pending, events>> BY <1>2 DEF LandEvents
  <2> QED BY <1>1, <2>1 DEF RowsOwed, NothingSentVanishes, Distinct, Count
<1>3. CASE c.st = "ok"
  <2>1. pending' = FoldLeft(Match, pending, c.evs) /\ events' = events \o c.evs
    BY <1>3 DEF LandEvents
  <2>2. c.evs \in Seq(EventRecord) BY DEF CallsTyped, IsCall
  <2>3. Distinct(pending) BY DEF RowsOwed
  <2>4. PICK p, e : /\ p = FoldLeft(Match, pending, c.evs) /\ e = events \o c.evs
                    /\ pending' = p /\ events' = e
    BY <2>1
  <2>5. /\ p \in Seq(RowRecord) /\ Distinct(p) /\ Among(p, pending)
        /\ \A t : Count(pending, t) <= Count(p, t) + Count(c.evs, t)
    BY <1>0, <2>2, <2>3, <2>4, MatchesKeep
  <2>6. \A t : Count(events, t) + Count(c.evs, t) <= Count(e, t)
    BY <1>0, <2>2, <2>4, CountConcat
  <2>7. RowsOwed'
    <3>1. \A i \in DOMAIN p : /\ p[i].id \in DOMAIN mustShow
                              /\ mustShow[p[i].id] = p[i].text
      BY <2>5 DEF Among, RowsOwed
    <3>2. Distinct(pending)' BY <2>4, <2>5 DEF Distinct
    <3> QED BY <1>1, <2>4, <3>1, <3>2 DEF RowsOwed
  <2>8. NothingSentVanishes'
    <3> SUFFICES ASSUME NEW t \in Texts
                 PROVE  Cardinality(MustSay(t)) <= Count(p, t) + Count(e, t)
      <4>1. (\A t \in Texts : Cardinality(MustSay(t)) <= Count(p, t) + Count(e, t))
              => NothingSentVanishes'
        BY <1>1, <2>4 DEF NothingSentVanishes, MustSay, Count
      <4> QED BY <4>1
    <3>1. Cardinality(MustSay(t)) <= Count(pending, t) + Count(events, t)
      BY DEF NothingSentVanishes, MustSay
    <3>2. /\ Count(pending, t) \in Nat /\ Count(events, t) \in Nat /\ Count(p, t) \in Nat
          /\ Count(c.evs, t) \in Nat
      BY <1>0, <2>2, <2>5, Counted
    <3>3. Count(e, t) \in Nat
      <4>1. e \in Seq(EventRecord) BY <1>0, <2>2, <2>4, ConcatProperties
      <4> QED BY <4>1, Counted
    <3>4. Cardinality(MustSay(t)) \in Nat BY <1>0, MustCounted DEF RowsOwed
    <3> QED BY <2>5, <2>6, <3>1, <3>2, <3>3, <3>4
  <2> QED BY <2>7, <2>8
<1> QED BY <1>2, <1>3

\* A message is sent: one more row, and one more send to show.
LEMMA SentRows ==
  ASSUME Typed, RowsOwed, NothingSentVanishes, NEW s \in Texts, NEW d \in Sends, Send(s, d)
  PROVE  RowsOwed' /\ NothingSentVanishes'
<1>0. pending \in Seq(RowRecord) /\ events \in Seq(EventRecord) /\ steps \in Nat BY DEF Typed
<1>1. PICK id, row, p, m :
         /\ id = steps + 1 /\ row = [id |-> id, text |-> s]
         /\ p = Append(pending, row) /\ m = Owe(id, s)
         /\ pending' = p /\ mustShow' = m /\ events' = events /\ steps' = steps + 1
  BY DEF Send, NextId, Spend
<1>2. row \in RowRecord /\ row.id = id /\ row.text = s BY <1>0, <1>1 DEF RowRecord
<1>3. /\ p \in Seq(RowRecord) /\ DOMAIN p = 1..(Len(pending) + 1)
      /\ DOMAIN pending = 1..Len(pending) /\ Len(pending) \in Nat
      /\ \A i \in 1..Len(pending) : p[i] = pending[i]
      /\ p[Len(pending) + 1] = row
  BY <1>0, <1>1, <1>2, AppendProperties, LenProperties
<1>4. \A i \in DOMAIN p : \/ i \in DOMAIN pending /\ p[i] = pending[i]
                          \/ i = Len(pending) + 1 /\ p[i] = row
  BY <1>3
<1>5. /\ DOMAIN m = DOMAIN mustShow \cup {id} /\ m[id] = s
      /\ \A i \in DOMAIN mustShow : i # id => m[i] = mustShow[i]
  BY <1>1 DEF Owe
<1>6. id \notin DOMAIN mustShow BY <1>0, <1>1 DEF RowsOwed
<1>7. RowsOwed'
  <2>1. Distinct(p)
    <3> SUFFICES ASSUME NEW i \in DOMAIN p, NEW j \in DOMAIN p, i # j PROVE p[i].id # p[j].id
      BY DEF Distinct
    <3>1. \A k \in DOMAIN pending : pending[k].id # id BY <1>6 DEF RowsOwed
    <3>2. i \in DOMAIN pending /\ j \in DOMAIN pending => pending[i].id # pending[j].id
      BY DEF RowsOwed, Distinct
    <3> QED BY <1>2, <1>4, <3>1, <3>2
  <2>2. Distinct(pending)' BY <1>1, <2>1 DEF Distinct
  <2>3. \A i \in DOMAIN p : p[i].id \in DOMAIN m /\ m[p[i].id] = p[i].text
    BY <1>2, <1>4, <1>5, <1>6 DEF RowsOwed
  <2>4. DOMAIN m \subseteq 1..(steps + 1) BY <1>0, <1>1, <1>5 DEF RowsOwed
  <2> QED BY <1>1, <2>2, <2>3, <2>4 DEF RowsOwed
<1>8. NothingSentVanishes'
  <2> SUFFICES ASSUME NEW t \in Texts
               PROVE  Cardinality({i \in DOMAIN m : m[i] = t}) <= Count(p, t) + Count(events, t)
    <3>1. (\A t \in Texts :
             Cardinality({i \in DOMAIN m : m[i] = t}) <= Count(p, t) + Count(events, t))
            => NothingSentVanishes'
      BY <1>1 DEF NothingSentVanishes, Count
    <3> QED BY <3>1
  <2> DEFINE M == {i \in DOMAIN m : m[i] = t}
  <2>1. Cardinality(MustSay(t)) <= Count(pending, t) + Count(events, t)
    BY DEF NothingSentVanishes, MustSay
  <2>2. Count(pending, t) \in Nat /\ Count(events, t) \in Nat BY <1>0, Counted
  <2>3. Count(p, t) = Count(pending, t) + (IF row.text = t THEN 1 ELSE 0)
    BY <1>0, <1>1, <1>2, CountAppend
  <2>4. IsFiniteSet(MustSay(t)) /\ Cardinality(MustSay(t)) \in Nat
    BY <1>0, MustCounted DEF RowsOwed
  <2>5. CASE s = t
    <3>1. M = MustSay(t) \cup {id} BY <1>5, <1>6, <2>5 DEF MustSay
    <3>2. id \notin MustSay(t) BY <1>6 DEF MustSay
    <3>3. Cardinality(MustSay(t) \cup {id}) = Cardinality(MustSay(t)) + 1
      BY <2>4, <3>2, FS_AddElement
    <3> HIDE DEF M
    <3>4. Cardinality(M) <= Count(p, t) + Count(events, t)
      BY <1>2, <2>1, <2>2, <2>3, <2>4, <2>5, <3>1, <3>3
    <3> QED BY <3>4 DEF M
  <2>6. CASE s # t
    <3>1. M = MustSay(t) BY <1>5, <1>6, <2>6 DEF MustSay
    <3> HIDE DEF M
    <3>2. Cardinality(M) <= Count(p, t) + Count(events, t)
      BY <1>2, <2>1, <2>2, <2>3, <2>6, <3>1
    <3> QED BY <3>2 DEF M
  <2> QED BY <2>5, <2>6
<1> QED BY <1>7, <1>8

\* The answer of a send lands: the row that leaves is the send that is settled.
LEMMA LandedRows ==
  ASSUME Typed, RowsOwed, NothingSentVanishes, NEW c \in calls, LandSend(c)
  PROVE  RowsOwed' /\ NothingSentVanishes'
<1>0. pending \in Seq(RowRecord) /\ events \in Seq(EventRecord) /\ steps \in Nat BY DEF Typed
<1>1. events' = events /\ steps' = steps BY DEF LandSend, quotas
<1>2. CASE UNCHANGED <<pending, mustShow>>
  BY <1>1, <1>2 DEF RowsOwed, NothingSentVanishes, Distinct, Count
<1>3. CASE pending' = Drop(pending, c.arg) /\ mustShow' = Settle(c.arg)
  <2>1. PICK id, p, m : /\ id = c.arg /\ p = Drop(pending, id) /\ m = Settle(id)
                        /\ pending' = p /\ mustShow' = m
    BY <1>3
  <2>2. Distinct(pending) BY DEF RowsOwed
  <2>3. /\ p \in Seq(RowRecord) /\ Distinct(p) /\ Among(p, pending)
        /\ \A i \in DOMAIN p : p[i].id # id
        /\ \A t : /\ Count(pending, t) <= Count(p, t) + 1
                  /\ ~ Named(pending, Len(pending), id, t) => Count(pending, t) <= Count(p, t)
    BY <1>0, <2>1, <2>2, DropKeeps
  <2>4. /\ DOMAIN m = DOMAIN mustShow \ {id}
        /\ \A i \in DOMAIN mustShow : i # id => m[i] = mustShow[i]
    BY <2>1 DEF Settle
  <2>5. RowsOwed'
    <3>1. \A i \in DOMAIN p : p[i].id \in DOMAIN m /\ m[p[i].id] = p[i].text
      BY <2>3, <2>4 DEF Among, RowsOwed
    <3>2. Distinct(pending)' BY <2>1, <2>3 DEF Distinct
    <3>3. DOMAIN m \subseteq 1..steps BY <2>4 DEF RowsOwed
    <3> QED BY <1>1, <2>1, <3>1, <3>2, <3>3 DEF RowsOwed
  <2>6. NothingSentVanishes'
    <3> SUFFICES ASSUME NEW t \in Texts
                 PROVE  Cardinality({i \in DOMAIN m : m[i] = t}) <= Count(p, t) + Count(events, t)
      <4>1. (\A t \in Texts :
               Cardinality({i \in DOMAIN m : m[i] = t}) <= Count(p, t) + Count(events, t))
              => NothingSentVanishes'
        BY <1>1, <2>1 DEF NothingSentVanishes, Count
      <4> QED BY <4>1
    <3> DEFINE M == {i \in DOMAIN m : m[i] = t}
    <3>1. Cardinality(MustSay(t)) <= Count(pending, t) + Count(events, t)
      BY DEF NothingSentVanishes, MustSay
    <3>2. Count(pending, t) \in Nat /\ Count(events, t) \in Nat /\ Count(p, t) \in Nat
      BY <1>0, <2>3, Counted
    <3>3. IsFiniteSet(MustSay(t)) /\ Cardinality(MustSay(t)) \in Nat
      BY <1>0, MustCounted DEF RowsOwed
    <3>4. M = MustSay(t) \ {id} BY <2>4 DEF MustSay
    <3>5. Cardinality(MustSay(t) \ {id}) =
            IF id \in MustSay(t) THEN Cardinality(MustSay(t)) - 1 ELSE Cardinality(MustSay(t))
      BY <3>3, FS_RemoveElement
    <3>6. Named(pending, Len(pending), id, t) => id \in MustSay(t)
      <4>1. DOMAIN pending = 1..Len(pending) BY <1>0, LenProperties
      <4> QED BY <4>1 DEF Named, RowsOwed, MustSay
    <3>7. /\ Count(pending, t) <= Count(p, t) + 1
          /\ ~ Named(pending, Len(pending), id, t) => Count(pending, t) <= Count(p, t)
      BY <2>3
    <3> HIDE DEF M
    <3>8. Cardinality(M) <= Count(p, t) + Count(events, t)
      <4>1. CASE id \in MustSay(t) BY <3>1, <3>2, <3>3, <3>4, <3>5, <3>7, <4>1
      <4>2. CASE id \notin MustSay(t) BY <3>1, <3>2, <3>3, <3>4, <3>5, <3>6, <3>7, <4>2
      <4> QED BY <4>1, <4>2
    <3> QED BY <3>8 DEF M
  <2> QED BY <2>5, <2>6
<1> QED BY <1>2, <1>3 DEF LandSend

LEMMA RowsStep ==
  ASSUME Typed, CallsTyped, RowsOwed, NothingSentVanishes, Next
  PROVE  RowsOwed' /\ NothingSentVanishes'
<1>1. ASSUME UNCHANGED <<pending, events, mustShow>> PROVE RowsOwed' /\ NothingSentVanishes'
  <2>1. \A i \in 1..steps : i \in 1..steps' BY StepsGrow DEF Typed
  <2> QED BY <1>1, <2>1 DEF RowsOwed, NothingSentVanishes, Distinct, Count
<1>2. CASE \E c \in calls : LandEvents(c) BY <1>2, PolledRows
<1>3. CASE \E c \in calls : LandSend(c) BY <1>3, LandedRows
<1>4. CASE \E t \in Texts, d \in Sends : Send(t, d) BY <1>4, SentRows
<1>5. CASE Reload
  <2>1. pending' = <<>> /\ events' = <<>> /\ mustShow' = <<>> BY <1>5 DEF Reload
  <2>2. DOMAIN <<>> = {} OBVIOUS
  <2>3. RowsOwed' BY <2>1, <2>2 DEF RowsOwed, Distinct
  <2>4. \A t \in Texts :
          Cardinality({i \in DOMAIN <<>> : <<>>[i] = t}) <= Count(<<>>, t) + Count(<<>>, t)
    <3> TAKE t \in Texts
    <3>1. {i \in DOMAIN <<>> : <<>>[i] = t} = {} BY <2>2
    <3> QED BY <3>1, FS_EmptySet, CountOfNone
  <2>5. NothingSentVanishes' BY <2>1, <2>4 DEF NothingSentVanishes, Count
  <2> QED BY <2>3, <2>5
<1>6. CASE Poll \/ PassMove \/ StreamMessage \/ Consume \/ Server \/ Vanish
  BY <1>1, <1>6 DEF Poll, PassMove, Pass, StreamMessage, Consume, Server, Vanish, pageVars, history
<1>7. CASE \E c \in calls : LandClick(c) \/ ServeSend(c) \/ ServeClick(c) \/ Refuse(c) \/ Fault(c)
  BY <1>1, <1>7 DEF LandClick, ServeSend, ServeClick, Refuse, Fault, pageVars, history
<1>8. CASE ClickMove BY <1>1, <1>8 DEF ClickMove, Click, pageVars, history
<1>9. CASE \E i \in Items : ContinueFromMessage(i)
  BY <1>1, <1>9 DEF ContinueFromMessage, history
<1> QED BY Moves, <1>2, <1>3, <1>4, <1>5, <1>6, <1>7, <1>8, <1>9 DEF CallMove

-----------------------------------------------------------------------------
(* The events follow the journal.                                          *)

LEMMA PrefixIs ==
  ASSUME NEW S, NEW s \in Seq(S), NEW u \in Seq(S)
  PROVE  IsPrefix(s, u) <=> Len(s) <= Len(u) /\ \A i \in 1..Len(s) : s[i] = u[i]
<1>0. /\ Len(s) \in Nat /\ Len(u) \in Nat
      /\ \A i \in 1..Len(s) : s[i] \in S
      /\ \A i \in 1..Len(u) : u[i] \in S
  BY LenProperties, ElementOfSeq
<1>1. CASE Len(s) <= Len(u)
  <2> DEFINE a == SubSeq(s, 1, Len(s))
             b == SubSeq(u, 1, Len(s))
  <2>1. /\ a \in Seq(S) /\ Len(a) = Len(s) /\ \A i \in 1..Len(s) : a[i] = s[i]
    <3>1. 1 \in Int /\ Len(s) \in Int /\ \A i \in 1..Len(s) : s[i] \in S BY <1>0
    <3>2. /\ a \in Seq(S) /\ Len(a) = IF 1 <= Len(s) THEN Len(s) - 1 + 1 ELSE 0
          /\ \A i \in 1..(Len(s) - 1 + 1) : a[i] = s[1 + i - 1]
      BY <3>1, SubSeqProperties
    <3>3. \A i \in 1..Len(s) : i \in 1..(Len(s) - 1 + 1) /\ 1 + i - 1 = i BY <1>0
    <3> HIDE DEF a
    <3> QED BY <1>0, <3>2, <3>3
  <2>2. /\ b \in Seq(S) /\ Len(b) = Len(s) /\ \A i \in 1..Len(s) : b[i] = u[i]
    <3>1. 1 \in Int /\ Len(s) \in Int /\ \A i \in 1..Len(s) : u[i] \in S BY <1>0, <1>1
    <3>2. /\ b \in Seq(S) /\ Len(b) = IF 1 <= Len(s) THEN Len(s) - 1 + 1 ELSE 0
          /\ \A i \in 1..(Len(s) - 1 + 1) : b[i] = u[1 + i - 1]
      BY <3>1, SubSeqProperties
    <3>3. \A i \in 1..Len(s) : i \in 1..(Len(s) - 1 + 1) /\ 1 + i - 1 = i BY <1>0
    <3> HIDE DEF b
    <3> QED BY <1>0, <3>2, <3>3
  <2>3. IsPrefix(s, u) <=> a = b BY <1>1 DEF IsPrefix
  <2> HIDE DEF a, b
  <2>4. a = b <=> \A i \in 1..Len(s) : s[i] = u[i]
    <3>1. ASSUME \A i \in 1..Len(s) : s[i] = u[i] PROVE a = b
      <4>1. Len(a) = Len(b) /\ \A i \in 1..Len(a) : a[i] = b[i] BY <2>1, <2>2, <3>1
      <4> QED BY <2>1, <2>2, <4>1, SeqEqual
    <3>2. ASSUME a = b PROVE \A i \in 1..Len(s) : s[i] = u[i] BY <2>1, <2>2, <3>2
    <3> QED BY <3>1, <3>2
  <2> QED BY <1>1, <2>3, <2>4
<1>2. CASE ~ (Len(s) <= Len(u)) BY <1>2 DEF IsPrefix
<1> QED BY <1>1, <1>2

\* A prefix stays one as the journal grows.
LEMMA PrefixGrows ==
  ASSUME NEW S, NEW s \in Seq(S), NEW u \in Seq(S), NEW e \in S, IsPrefix(s, u)
  PROVE  IsPrefix(s, Append(u, e))
<1>0. Len(s) \in Nat /\ Len(u) \in Nat BY LenProperties
<1>1. PICK v : v = Append(u, e) OBVIOUS
<1>2. v \in Seq(S) /\ Len(v) = Len(u) + 1 /\ \A i \in 1..Len(u) : v[i] = u[i]
  BY <1>1, AppendProperties
<1>3. Len(s) <= Len(u) /\ \A i \in 1..Len(s) : s[i] = u[i] BY PrefixIs
<1>4. Len(s) <= Len(v) /\ \A i \in 1..Len(s) : s[i] = v[i] BY <1>0, <1>2, <1>3
<1> QED BY <1>1, <1>2, <1>4, PrefixIs

\* What a poll brings continues what the page has.
LEMMA PollContinues ==
  ASSUME NEW S, NEW s \in Seq(S), NEW u \in Seq(S), IsPrefix(s, u)
  PROVE  IsPrefix(s \o SubSeq(u, Len(s) + 1, Len(u)), u)
<1>0. /\ Len(s) \in Nat /\ Len(u) \in Nat /\ \A i \in 1..Len(u) : u[i] \in S
  BY LenProperties, ElementOfSeq
<1>1. Len(s) <= Len(u) /\ \A i \in 1..Len(s) : s[i] = u[i] BY PrefixIs
<1>2. PICK r : r = SubSeq(u, Len(s) + 1, Len(u)) OBVIOUS
<1>3. /\ r \in Seq(S) /\ Len(r) = Len(u) - Len(s)
      /\ \A i \in 1..(Len(u) - Len(s)) : r[i] = u[Len(s) + i]
  <2>1. Len(s) + 1 \in Int /\ Len(u) \in Int /\ \A i \in (Len(s) + 1)..Len(u) : u[i] \in S
    BY <1>0
  <2>2. /\ r \in Seq(S)
        /\ Len(r) = IF Len(s) + 1 <= Len(u) THEN Len(u) - (Len(s) + 1) + 1 ELSE 0
        /\ \A i \in 1..(Len(u) - (Len(s) + 1) + 1) : r[i] = u[Len(s) + 1 + i - 1]
    BY <1>2, <2>1, SubSeqProperties
  <2>3. \A i \in 1..(Len(u) - Len(s)) : /\ i \in 1..(Len(u) - (Len(s) + 1) + 1)
                                        /\ Len(s) + 1 + i - 1 = Len(s) + i
    BY <1>0
  <2> QED BY <1>0, <1>1, <2>2, <2>3
<1>4. PICK w : w = s \o r OBVIOUS
<1>5. /\ w \in Seq(S) /\ Len(w) = Len(s) + Len(r)
      /\ \A i \in 1..(Len(s) + Len(r)) : w[i] = IF i <= Len(s) THEN s[i] ELSE r[i - Len(s)]
  BY <1>3, <1>4, ConcatProperties
<1>6. ASSUME NEW i \in 1..Len(w) PROVE w[i] = u[i]
  <2>1. i \in 1..(Len(s) + Len(r)) BY <1>5
  <2>2. CASE i <= Len(s) BY <1>0, <1>1, <1>5, <2>1, <2>2
  <2>3. CASE ~ (i <= Len(s))
    <3>1. i - Len(s) \in 1..(Len(u) - Len(s)) /\ Len(s) + (i - Len(s)) = i
      BY <1>0, <1>3, <2>1, <2>3
    <3> QED BY <1>3, <1>5, <2>1, <2>3, <3>1
  <2> QED BY <2>2, <2>3
<1>7. Len(w) <= Len(u) BY <1>0, <1>3, <1>5
<1> QED BY <1>2, <1>4, <1>5, <1>6, <1>7, PrefixIs

LEMMA NothingIsPrefix ==
  ASSUME NEW S, NEW u \in Seq(S)
  PROVE  IsPrefix(<<>>, u)
<1>1. PICK s : s = <<>> OBVIOUS
<1>2. s \in Seq(S) /\ Len(s) = 0 BY <1>1, EmptySeq
<1>3. Len(u) \in Nat BY LenProperties
<1>4. Len(s) <= Len(u) /\ \A i \in 1..Len(s) : s[i] = u[i] BY <1>2, <1>3
<1> QED BY <1>1, <1>2, <1>4, PrefixIs

LEMMA StillPrefix ==
  ASSUME Typed, CallsTyped, Next, NEW s \in Seq(EventRecord), IsPrefix(s, journal)
  PROVE  IsPrefix(s, journal')
<1>0. journal \in Seq(EventRecord) BY DEF Typed
<1>1. CASE journal' = journal BY <1>1
<1>2. ASSUME NEW e \in EventRecord, journal' = Append(journal, e)
      PROVE  IsPrefix(s, journal')
  <2>1. IsPrefix(s, Append(journal, e)) BY <1>0, PrefixGrows
  <2> QED BY <1>2, <2>1
<1> QED BY <1>1, <1>2, JournalStep

LEMMA FollowStep ==
  ASSUME Typed, CallsTyped, OnePoll, EventsFollowJournal, Next
  PROVE  EventsFollowJournal'
<1>0. journal \in Seq(EventRecord) /\ events \in Seq(EventRecord) BY DEF Typed
<1>1. ASSUME UNCHANGED <<events, cursor>> PROVE EventsFollowJournal'
  <2>1. IsPrefix(events, journal') BY <1>0, StillPrefix DEF EventsFollowJournal
  <2> QED BY <1>1, <2>1 DEF EventsFollowJournal
<1>2. CASE \E c \in calls : LandEvents(c)
  <2> PICK c \in calls : LandEvents(c) BY <1>2
  <2>1. CASE c.st = "ok"
    <3>1. /\ c.kind = "events" /\ journal' = journal
          /\ events' = events \o c.evs /\ cursor' = cursor + Len(c.evs)
      BY <2>1 DEF LandEvents, remoteVars
    <3>2. IsPrefix(events \o c.evs, journal) BY <2>1, <3>1 DEF OnePoll
    <3>3. c.evs \in Seq(EventRecord) BY DEF CallsTyped, IsCall
    <3>4. Len(events \o c.evs) = Len(events) + Len(c.evs) BY <1>0, <3>3, ConcatProperties
    <3>5. cursor' = Len(events') BY <3>1, <3>4 DEF EventsFollowJournal
    <3>6. IsPrefix(events', journal') BY <3>1, <3>2
    <3> QED BY <3>5, <3>6 DEF EventsFollowJournal
  <2>2. CASE c.st # "ok" BY <1>1, <2>2 DEF LandEvents
  <2> QED BY <2>1, <2>2
<1>3. CASE Reload
  <2>1. events' = <<>> /\ cursor' = 0 /\ journal' = journal BY <1>3 DEF Reload, remoteVars
  <2>2. IsPrefix(<<>>, journal) BY <1>0, NothingIsPrefix
  <2>3. Len(<<>>) = 0 OBVIOUS
  <2> QED BY <2>1, <2>2, <2>3 DEF EventsFollowJournal
<1>4. CASE Poll \/ PassMove \/ StreamMessage \/ Consume \/ Server \/ Vanish
  BY <1>1, <1>4 DEF Poll, PassMove, Pass, StreamMessage, Consume, Server, Vanish, pageVars
<1>5. CASE \E c \in calls : \/ LandSend(c) \/ LandClick(c) \/ ServeSend(c) \/ ServeClick(c)
                            \/ Refuse(c) \/ Fault(c)
  BY <1>1, <1>5 DEF LandSend, LandClick, ServeSend, ServeClick, Refuse, Fault, pageVars
<1>6. CASE ClickMove BY <1>1, <1>6 DEF ClickMove, Click, pageVars
<1>7. CASE \E t \in Texts, d \in Sends : Send(t, d) BY <1>1, <1>7 DEF Send
<1>8. CASE \E i \in Items : ContinueFromMessage(i) BY <1>1, <1>8 DEF ContinueFromMessage
<1> QED BY Moves, <1>2, <1>3, <1>4, <1>5, <1>6, <1>7, <1>8 DEF CallMove

\* Polls do not overlap, whoever asks for them (pollBusy).
LEMMA OnePollStep ==
  ASSUME Typed, CallsTyped, OnePoll, EventsFollowJournal, Next
  PROVE  OnePoll'
<1>0. journal \in Seq(EventRecord) /\ events \in Seq(EventRecord) BY DEF Typed
<1>a. \A c \in calls : events \o c.evs \in Seq(EventRecord)
  BY <1>0, ConcatProperties DEF CallsTyped, IsCall
<1>b. \A c \in calls : IsPrefix(events \o c.evs, journal) => IsPrefix(events \o c.evs, journal')
  BY <1>a, StillPrefix
\* No new poll, and those under way are the same.
<1>1. ASSUME events' = events, \A d \in calls' : d.kind = "events" => d \in calls
      PROVE  OnePoll'
  BY <1>1, <1>b DEF OnePoll
\* The only poll is one that starts where the page stands.
<1>2. ASSUME NEW p, p = EventsAfter(cursor), events' = events, journal' = journal,
             \A d \in calls' : d.kind = "events" => d = p
      PROVE  OnePoll'
  <2>1. p.st # "out" /\ p.evs = SubSeq(journal, cursor + 1, Len(journal))
    BY <1>2, PollFields
  <2>2. IsPrefix(events \o p.evs, journal)
    <3>1. IsPrefix(events \o SubSeq(journal, Len(events) + 1, Len(journal)), journal)
      BY <1>0, PollContinues DEF EventsFollowJournal
    <3> QED BY <2>1, <3>1 DEF EventsFollowJournal
  <2> QED BY <1>2, <2>1, <2>2 DEF OnePoll
<1>3. CASE PassMove \/ StreamMessage \/ Consume \/ Server \/ Vanish
  BY <1>1, <1>3 DEF PassMove, Pass, StreamMessage, Consume, Server, Vanish, pageVars
<1>4. CASE Poll
  <2>1. PICK p : p = EventsAfter(cursor) OBVIOUS
  <2>2. \A d \in calls' : d.kind = "events" => d = p BY <1>4, <2>1 DEF Poll, Issue, Polls
  <2>3. events' = events /\ journal' = journal BY <1>4 DEF Poll, pageVars, remoteVars
  <2> QED BY <1>2, <2>1, <2>2, <2>3
<1>5. CASE Reload
  <2>1. PICK p : p = EventsAfter(0) OBVIOUS
  <2>2. p.st # "out" /\ p.evs = SubSeq(journal, 0 + 1, Len(journal)) BY <2>1, PollFields
  <2>3. PICK z : z = <<>> OBVIOUS
  <2>4. events' = z /\ journal' = journal /\ calls' = {p}
    BY <1>5, <2>1, <2>3 DEF Reload, remoteVars
  <2>5. z \in Seq(EventRecord) /\ Len(z) = 0 BY <2>3, EmptySeq
  <2>6. IsPrefix(z, journal) BY <1>0, <2>3, NothingIsPrefix
  <2>7. IsPrefix(z \o SubSeq(journal, Len(z) + 1, Len(journal)), journal)
    BY <1>0, <2>5, <2>6, PollContinues
  <2>8. IsPrefix(z \o p.evs, journal) BY <2>2, <2>5, <2>7
  <2> QED BY <2>2, <2>4, <2>8 DEF OnePoll
<1>6. CASE CallMove
  <2> PICK c \in calls : \/ LandEvents(c) \/ LandSend(c) \/ LandClick(c) \/ ServeSend(c)
                         \/ ServeClick(c) \/ Refuse(c) \/ Fault(c)
    BY <1>6 DEF CallMove
  <2>1. CASE LandEvents(c)
    <3>1. c.kind = "events" /\ calls' = calls \ {c} BY <2>1 DEF LandEvents
    <3>2. \A d \in calls' : d.kind # "events" BY <3>1 DEF OnePoll
    <3> QED BY <3>2 DEF OnePoll
  <2>2. CASE LandSend(c) BY <1>1, <2>2 DEF LandSend
  <2>3. CASE LandClick(c)
    <3>1. events' = events /\ journal' = journal BY <2>3 DEF LandClick, remoteVars
    <3>2. calls' \in {AlsoPoll(calls \ {c}), calls \ {c}} BY <2>3 DEF LandClick
    <3>3. CASE calls' \in SUBSET calls BY <1>1, <3>1, <3>3
    <3>4. CASE Polls(calls \ {c}) = {} /\ calls' = (calls \ {c}) \cup {EventsAfter(cursor)}
      <4>1. PICK p : p = EventsAfter(cursor) OBVIOUS
      <4>2. \A d \in calls' : d.kind = "events" => d = p BY <3>4, <4>1 DEF Polls
      <4> QED BY <1>2, <3>1, <4>1, <4>2
    <3> QED BY <3>2, <3>3, <3>4 DEF AlsoPoll
  <2>4. CASE ServeSend(c) \/ ServeClick(c) \/ Refuse(c)
    <3>1. c.st = "out" /\ events' = events BY <2>4 DEF ServeSend, ServeClick, Refuse, pageVars
    <3>2. PICK st : calls' = Answered(c, st) BY <2>4 DEF ServeSend, ServeClick, Refuse
    <3>3. PICK e : e = [c EXCEPT !.st = st] OBVIOUS
    <3>4. e.kind = c.kind BY <3>3, AnsweredFields DEF CallsTyped, IsCall
    <3>5. c.kind # "events" BY <3>1 DEF OnePoll
    <3>6. \A d \in calls' : d.kind = "events" => d \in calls BY <3>2, <3>3, <3>4, <3>5 DEF Answered
    <3> QED BY <1>1, <3>1, <3>6
  <2>5. CASE Fault(c)
    <3>1. events' = events /\ journal' = journal BY <2>5 DEF Fault, pageVars, remoteVars
    <3>2. PICK e : e = [c EXCEPT !.st = "failed"] OBVIOUS
    <3>3. calls' = (calls \ {c}) \cup {e} BY <2>5, <3>2 DEF Fault, Answered
    <3>4. e.kind = c.kind /\ e.st = "failed" BY <3>2, AnsweredFields DEF CallsTyped, IsCall
    <3>5. CASE c.kind # "events" BY <1>1, <3>1, <3>3, <3>4, <3>5
    <3>6. CASE c.kind = "events"
      <4>1. \A d \in calls' : d.kind = "events" => d = e BY <3>3, <3>6 DEF OnePoll
      <4> QED BY <3>4, <4>1 DEF OnePoll
    <3> QED BY <3>5, <3>6
  <2> QED BY <2>1, <2>2, <2>3, <2>4, <2>5
<1>7. ASSUME NEW kind, NEW slot, NEW arg, NEW said, kind # "events", events' = events,
             calls' = calls \cup {PageCall(kind, slot, arg, said)}
      PROVE  OnePoll'
  <2>1. PICK e : e = PageCall(kind, slot, arg, said) OBVIOUS
  <2>2. e.kind = kind BY <2>1, PageCallFields
  <2> QED BY <1>1, <1>7, <2>1, <2>2
<1>8. CASE ClickMove BY <1>7, <1>8 DEF ClickMove, Click, Issue, pageVars
<1>9. CASE \E t \in Texts, d \in Sends : Send(t, d)
  <2>1. PICK t \in Texts, d \in Sends : Send(t, d) BY <1>9
  <2>2. PICK slot, id : calls' = calls \cup {PageCall(d, slot, id, t)} /\ events' = events
    BY <2>1 DEF Send, Issue
  <2>3. d # "events" BY DEF Sends
  <2> QED BY <1>7, <2>2, <2>3
<1>10. CASE \E i \in Items : ContinueFromMessage(i)
  <2>1. PICK i \in Items : ContinueFromMessage(i) BY <1>10
  <2>2. PICK slot, id : calls' = calls \cup {PageCall("continue", slot, id, i)} /\ events' = events
    BY <2>1 DEF ContinueFromMessage, Issue
  <2> QED BY <1>7, <2>2
<1> QED BY Moves, <1>3, <1>4, <1>5, <1>6, <1>8, <1>9, <1>10

-----------------------------------------------------------------------------
(* A message is accepted once.                                             *)

DistinctMail(m) == \A i, j \in DOMAIN m : i # j => m[i].id # m[j].id

\* Taking a message out leaves the numbers of the others.
LEMMA TakenMail ==
  ASSUME NEW m \in Seq(MailRecord), NEW i \in 1..Len(m), DistinctMail(m)
  PROVE  /\ DistinctMail(RemoveAt(m, i))
         /\ \A j \in DOMAIN RemoveAt(m, i) : \E k \in DOMAIN m : RemoveAt(m, i)[j] = m[k]
<1>0. DOMAIN m = 1..Len(m) /\ Len(m) \in Nat BY LenProperties
<1> DEFINE r == RemoveAt(m, i)
<1>1. /\ r \in Seq(MailRecord) /\ Len(r) = Len(m) - 1
      /\ \A j \in 1..(Len(m) - 1) : r[j] = IF j < i THEN m[j] ELSE m[j + 1]
  BY Removed
<1> HIDE DEF r
<1>2. DOMAIN r = 1..(Len(m) - 1) BY <1>1, LenProperties
<1>3. \A j \in DOMAIN r : (IF j < i THEN j ELSE j + 1) \in DOMAIN m BY <1>0, <1>2
<1>4. \A j \in DOMAIN r : \E k \in DOMAIN m : r[j] = m[k] BY <1>1, <1>2, <1>3
<1>5. ASSUME NEW j \in DOMAIN r, NEW k \in DOMAIN r, j # k PROVE r[j].id # r[k].id
  <2> DEFINE a == IF j < i THEN j ELSE j + 1
             b == IF k < i THEN k ELSE k + 1
  <2>1. a \in DOMAIN m /\ b \in DOMAIN m BY <1>3
  <2>2. a # b BY <1>0, <1>2, <1>5
  <2>3. r[j] = m[a] /\ r[k] = m[b] BY <1>1, <1>2
  <2> HIDE DEF a, b
  <2> QED BY <2>1, <2>2, <2>3 DEF DistinctMail
<1>6. DistinctMail(r) BY <1>5 DEF DistinctMail
<1> QED BY <1>4, <1>6 DEF r

LEMMA MailNumberedStep ==
  ASSUME Typed, CallsTyped, MailNumbered, Next
  PROVE  MailNumbered'
<1>0. mail \in Seq(MailRecord) /\ steps \in Nat BY DEF Typed
<1>a. steps' \in Nat /\ \A i \in 1..steps : i \in 1..steps' BY <1>0, StepsGrow
<1>b. DOMAIN mail = 1..Len(mail) /\ Len(mail) \in Nat
      /\ \A i \in 1..Len(mail) : mail[i] \in MailRecord
  BY <1>0, LenProperties, ElementOfSeq
<1>c. /\ DistinctMail(mail)
      /\ \A i \in DOMAIN mail : mail[i].id \in 1..steps
      /\ \A x, y \in calls : x.kind \in Sends /\ y.kind \in Sends /\ x.arg = y.arg => x = y
      /\ \A x \in calls : x.kind \in Sends /\ x.st = "out" =>
            \A i \in DOMAIN mail : mail[i].id # x.arg
  BY DEF MailNumbered, DistinctMail
<1>d. DistinctMail(mail)' <=> DistinctMail(mail') BY DEF DistinctMail
\* The mailbox gets no new number, and no send is new.
<1>1. ASSUME DistinctMail(mail)',
             \A i \in DOMAIN mail' : \E k \in DOMAIN mail : mail'[i].id = mail[k].id,
             \A x, y \in calls' : x.kind \in Sends /\ y.kind \in Sends /\ x.arg = y.arg => x = y,
             \A x \in calls' : x.kind \in Sends /\ x.st = "out" => x \in calls
      PROVE  MailNumbered'
  BY <1>1, <1>a, <1>c DEF MailNumbered, DistinctMail
<1>2. ASSUME UNCHANGED mail, \A x \in calls' : x.kind \in Sends => x \in calls
      PROVE  MailNumbered'
  <2>1. DistinctMail(mail)' BY <1>2, <1>c DEF DistinctMail
  <2> QED BY <1>1, <1>2, <1>c, <2>1
\* A call is answered: its number stays its own.
<1>3. ASSUME NEW c \in calls, NEW st, st # "out", calls' = Answered(c, st)
      PROVE  /\ \A x, y \in calls' :
                  x.kind \in Sends /\ y.kind \in Sends /\ x.arg = y.arg => x = y
             /\ \A x \in calls' : x.kind \in Sends /\ x.st = "out" => x \in calls /\ x # c
  <2>1. PICK e : e = [c EXCEPT !.st = st] OBVIOUS
  <2>2. calls' = (calls \ {c}) \cup {e} BY <1>3, <2>1 DEF Answered
  <2>3. e.kind = c.kind /\ e.arg = c.arg /\ e.st = st
    BY <2>1, AnsweredFields DEF CallsTyped, IsCall
  <2> QED BY <1>3, <1>c, <2>2, <2>3
<1>4. CASE Consume
  <2> DEFINE first == {i \in DOMAIN mail : mail[i].steer}
             i == IF first = {} THEN 1 ELSE CHOOSE j \in first : \A k \in first : j <= k
  <2>1. mail # <<>> /\ mail' = RemoveAt(mail, i) /\ calls' = calls BY <1>4 DEF Consume
  <2>2. i \in 1..Len(mail)
    <3>1. first \in SUBSET DOMAIN mail OBVIOUS
    <3> HIDE DEF first
    <3> QED BY <1>0, <2>1, <3>1, NextTaken
  <2> HIDE DEF i
  <2>3. /\ DistinctMail(mail')
        /\ \A j \in DOMAIN mail' : \E k \in DOMAIN mail : mail'[j] = mail[k]
    BY <1>0, <1>c, <2>1, <2>2, TakenMail
  <2> QED BY <1>1, <1>c, <1>d, <2>1, <2>3
<1>5. CASE \E c \in calls : ServeSend(c)
  <2> PICK c \in calls : ServeSend(c) BY <1>5
  <2>0. c.kind \in Sends /\ c.st = "out" BY DEF ServeSend
  <2>1. PICK st : st # "out" /\ calls' = Answered(c, st) BY DEF ServeSend
  <2>2. /\ \A x, y \in calls' : x.kind \in Sends /\ y.kind \in Sends /\ x.arg = y.arg => x = y
        /\ \A x \in calls' : x.kind \in Sends /\ x.st = "out" => x \in calls /\ x # c
    BY <1>3, <2>1
  <2>3. CASE mail' = mail
    <3>1. DistinctMail(mail)' BY <2>3, <1>c DEF DistinctMail
    <3> QED BY <1>1, <2>2, <2>3, <3>1
  <2>4. CASE mail' # mail
    <3>1. PICK m, b : /\ m = [id |-> c.arg, text |-> c.text, steer |-> c.kind = "steer",
                              revoked |-> FALSE]
                      /\ b = Append(mail, m) /\ mail' = b
      BY <2>4 DEF ServeSend
    <3>2. c.text \in Texts /\ c.arg \in 1..steps BY <2>0 DEF CallsTyped, IsCall
    <3>a. c.text \in Words BY <3>2 DEF Words
    <3>b. \A x \in 1..steps : x \in Nat BY <1>0
    <3>3. c.text \in Words /\ c.arg \in Nat BY <3>2, <3>a, <3>b
    <3>4. m \in MailRecord /\ m.id = c.arg BY <3>1, <3>3 DEF MailRecord
    <3>5. /\ DOMAIN b = 1..(Len(mail) + 1) /\ b[Len(mail) + 1] = m
          /\ \A i \in 1..Len(mail) : b[i] = mail[i]
      BY <1>0, <3>1, <3>4, AppendProperties, LenProperties
    <3>6. \A i \in DOMAIN b : \/ i \in DOMAIN mail /\ b[i] = mail[i]
                              \/ i = Len(mail) + 1 /\ b[i] = m
      BY <1>b, <3>5
    <3>7. \A i \in DOMAIN mail : mail[i].id # c.arg BY <1>c, <2>0
    <3>8. DistinctMail(b)
      <4> SUFFICES ASSUME NEW i \in DOMAIN b, NEW j \in DOMAIN b, i # j PROVE b[i].id # b[j].id
        BY DEF DistinctMail
      <4>1. i \in DOMAIN mail /\ j \in DOMAIN mail => mail[i].id # mail[j].id
        BY <1>c DEF DistinctMail
      <4> QED BY <3>4, <3>6, <3>7, <4>1
    <3>9. \A i \in DOMAIN b : b[i].id \in 1..steps BY <1>c, <3>2, <3>4, <3>6
    <3>10. \A x \in calls' : x.kind \in Sends /\ x.st = "out" =>
             \A i \in DOMAIN b : b[i].id # x.arg
      <4> SUFFICES ASSUME NEW x \in calls', x.kind \in Sends, x.st = "out", NEW i \in DOMAIN b
                   PROVE  b[i].id # x.arg
        OBVIOUS
      <4>1. x \in calls /\ x # c BY <2>2
      <4>2. x.arg # c.arg BY <1>c, <2>0, <4>1
      <4>3. \A j \in DOMAIN mail : mail[j].id # x.arg BY <1>c, <4>1
      <4> QED BY <3>4, <3>6, <4>2, <4>3
    <3> QED BY <1>a, <2>2, <3>1, <3>8, <3>9, <3>10 DEF MailNumbered, DistinctMail
  <2> QED BY <2>3, <2>4
<1>6. CASE \E c \in calls : ServeClick(c)
  <2> PICK c \in calls : ServeClick(c) BY <1>6
  <2>1. calls' = Answered(c, "ok") BY DEF ServeClick
  <2>2. /\ \A x, y \in calls' : x.kind \in Sends /\ y.kind \in Sends /\ x.arg = y.arg => x = y
        /\ \A x \in calls' : x.kind \in Sends /\ x.st = "out" => x \in calls /\ x # c
    BY <1>3, <2>1
  <2>3. DOMAIN mail' = DOMAIN mail /\ \A i \in DOMAIN mail : mail'[i].id = mail[i].id
    <3>1. CASE mail' = mail BY <3>1
    <3>2. CASE mail' # mail
      <4>1. mail' = [i \in DOMAIN mail |->
                       IF mail[i].id # c.arg THEN mail[i]
                       ELSE IF c.kind = "unqueue" THEN [mail[i] EXCEPT !.revoked = TRUE]
                                                  ELSE [mail[i] EXCEPT !.steer = TRUE]]
        BY <3>2 DEF ServeClick
      <4>2. \A m \in MailRecord : /\ [m EXCEPT !.revoked = TRUE].id = m.id
                                  /\ [m EXCEPT !.steer = TRUE].id = m.id
        BY DEF MailRecord
      <4>3. \A i \in DOMAIN mail : mail[i] \in MailRecord BY <1>b
      <4> QED BY ONLY <4>1, <4>2, <4>3
    <3> QED BY <3>1, <3>2
  <2>4. DistinctMail(mail)' BY <1>c, <2>3 DEF DistinctMail
  <2> QED BY <1>1, <2>2, <2>3, <2>4
<1>7. CASE \E c \in calls : Refuse(c) \/ Fault(c)
  <2> PICK c \in calls : Refuse(c) \/ Fault(c) BY <1>7
  <2>1. PICK st : st # "out" /\ calls' = Answered(c, st) BY DEF Refuse, Fault
  <2>2. mail' = mail BY DEF Refuse, Fault, remoteVars
  <2>3. /\ \A x, y \in calls' : x.kind \in Sends /\ y.kind \in Sends /\ x.arg = y.arg => x = y
        /\ \A x \in calls' : x.kind \in Sends /\ x.st = "out" => x \in calls /\ x # c
    BY <1>3, <2>1
  <2>4. DistinctMail(mail)' BY <2>2, <1>c DEF DistinctMail
  <2> QED BY <1>1, <2>2, <2>3, <2>4
<1>8. CASE \E t \in Texts, d \in Sends : Send(t, d)
  <2>1. PICK t \in Texts, d \in Sends : Send(t, d) BY <1>8
  <2>2. PICK slot, id, e : /\ id = steps + 1 /\ e = PageCall(d, slot, id, t)
                           /\ calls' = calls \cup {e} /\ mail' = mail
    BY <2>1 DEF Send, Issue, NextId, remoteVars
  <2>3. e.kind = d /\ e.arg = id BY <2>2, PageCallFields
  <2>4. \A x \in calls : x.kind \in Sends => x.arg # id
    <3>1. \A x \in calls : x.kind \in Sends => x.arg \in 1..steps BY DEF CallsTyped, IsCall
    <3>2. \A k \in 1..steps : k # id BY <1>0, <2>2
    <3> QED BY <3>1, <3>2
  <2>5. \A x, y \in calls' : x.kind \in Sends /\ y.kind \in Sends /\ x.arg = y.arg => x = y
    BY <1>c, <2>2, <2>3, <2>4
  <2>6. \A i \in DOMAIN mail : mail[i].id # id BY <1>0, <1>c, <2>2
  <2>7. \A x \in calls' : x.kind \in Sends /\ x.st = "out" =>
          \A i \in DOMAIN mail : mail[i].id # x.arg
    BY <1>c, <2>2, <2>3, <2>6
  <2> QED BY <1>a, <1>c, <2>2, <2>5, <2>7 DEF MailNumbered, DistinctMail
<1>p. ASSUME NEW from, NEW p, p = EventsAfter(from) PROVE p.kind \notin Sends
  BY <1>p, PollFields DEF Sends
<1>9. CASE Poll \/ Reload
  <2>1. PICK p : p \in {EventsAfter(cursor), EventsAfter(0)} /\ calls' \in SUBSET (calls \cup {p})
    BY <1>9 DEF Poll, Reload, Issue
  <2>2. p.kind \notin Sends BY <1>p, <2>1
  <2>3. mail' = mail BY <1>9 DEF Poll, Reload, remoteVars
  <2> QED BY <1>2, <2>1, <2>2, <2>3
<1>10. CASE \E c \in calls : LandClick(c)
  <2>1. PICK p : p = EventsAfter(cursor) /\ calls' \in SUBSET (calls \cup {p})
    BY <1>10 DEF LandClick, AlsoPoll
  <2>2. p.kind \notin Sends BY <1>p, <2>1
  <2>3. mail' = mail BY <1>10 DEF LandClick, remoteVars
  <2> QED BY <1>2, <2>1, <2>2, <2>3
<1>11. CASE PassMove \/ StreamMessage \/ Server \/ Vanish
  BY <1>2, <1>11 DEF PassMove, Pass, StreamMessage, Server, Vanish, remoteVars
<1>12. CASE \E c \in calls : LandEvents(c) \/ LandSend(c)
  BY <1>2, <1>12 DEF LandEvents, LandSend, remoteVars
<1>13. ASSUME NEW kind, NEW slot, NEW arg, NEW said, kind \notin Sends, mail' = mail,
              calls' = calls \cup {PageCall(kind, slot, arg, said)}
       PROVE  MailNumbered'
  <2>1. PICK e : e = PageCall(kind, slot, arg, said) OBVIOUS
  <2>2. e.kind = kind BY <2>1, PageCallFields
  <2> QED BY <1>2, <1>13, <2>1, <2>2
<1>14. CASE ClickMove BY <1>13, <1>14 DEF ClickMove, Click, Issue, Sends, remoteVars
<1>15. CASE \E i \in Items : ContinueFromMessage(i)
  <2>1. PICK i \in Items : ContinueFromMessage(i) BY <1>15
  <2>2. PICK slot, id : calls' = calls \cup {PageCall("continue", slot, id, i)} /\ mail' = mail
    BY <2>1 DEF ContinueFromMessage, Issue, remoteVars
  <2>3. "continue" \notin Sends BY DEF Sends
  <2> QED BY <1>13, <2>2, <2>3
<1> QED BY Moves, <1>4, <1>5, <1>6, <1>7, <1>8, <1>9, <1>10, <1>11, <1>12, <1>14, <1>15
        DEF CallMove

-----------------------------------------------------------------------------
(* An item has one request.                                                *)

LEMMA OneRequestStep ==
  ASSUME Typed, CallsTyped, OneRequest, Next
  PROVE  OneRequest'
<1>0. steps \in Nat BY DEF Typed
<1>a. /\ forks \in [Items -> SUBSET Nat]
      /\ storedIds \in [Items -> Nat] /\ continueRequests \in [Items -> Nat]
      /\ \A i \in Items : /\ \A x \in forks[i] : x = storedIds[i] /\ x # 0
                          /\ continueRequests[i] \in {0, storedIds[i]}
      /\ \A c \in calls : c.kind = "continue" => storedIds[c.text] = c.arg /\ c.arg # 0
  BY DEF OneRequest
\* The requests stay, and every call to continue is of an item and with an id there was.
<1>1. ASSUME UNCHANGED <<forks, storedIds, continueRequests>>,
             \A d \in calls' : d.kind = "continue" =>
                \E c \in calls : c.kind = "continue" /\ d.text = c.text /\ d.arg = c.arg
      PROVE  OneRequest'
  BY <1>1, <1>a DEF OneRequest
<1>2. ASSUME NEW c \in calls, NEW st, calls' = Answered(c, st), NEW d \in calls',
             d.kind = "continue"
      PROVE  \E x \in calls : x.kind = "continue" /\ d.text = x.text /\ d.arg = x.arg
  <2>1. PICK e : e = [c EXCEPT !.st = st] OBVIOUS
  <2>2. d \in calls \/ d = e BY <1>2, <2>1 DEF Answered
  <2>3. e.kind = c.kind /\ e.arg = c.arg /\ e.text = c.text
    BY <2>1, AnsweredFields DEF CallsTyped, IsCall
  <2> QED BY <1>2, <2>2, <2>3
<1>3. CASE \E c \in calls : ServeSend(c) \/ Refuse(c) \/ Fault(c)
  <2> PICK c \in calls : ServeSend(c) \/ Refuse(c) \/ Fault(c) BY <1>3
  <2>1. PICK st : calls' = Answered(c, st) BY DEF ServeSend, Refuse, Fault
  <2>2. UNCHANGED <<forks, storedIds, continueRequests>>
    BY DEF ServeSend, Refuse, Fault, remoteVars, pageVars
  <2> QED BY <1>1, <1>2, <2>1, <2>2
<1>4. CASE \E c \in calls : ServeClick(c)
  <2> PICK c \in calls : ServeClick(c) BY <1>4
  <2>1. calls' = Answered(c, "ok") /\ UNCHANGED <<storedIds, continueRequests>>
    BY DEF ServeClick, pageVars
  <2>2. CASE forks' = forks BY <1>1, <1>2, <2>1, <2>2
  <2>3. CASE forks' # forks
    <3>1. /\ c.kind = "continue"
          /\ forks' = [forks EXCEPT ![c.text] = forks[c.text] \cup {c.arg}]
      BY <2>3 DEF ServeClick
    <3>2. c.text \in Items BY <3>1 DEF CallsTyped, IsCall
    <3>3. c.arg = storedIds[c.text] /\ c.arg # 0 /\ c.arg \in Nat BY <1>a, <3>1, <3>2
    <3>4. forks' \in [Items -> SUBSET Nat] BY <1>a, <3>1, <3>2, <3>3
    <3>5. \A i \in Items : \A x \in forks'[i] : x = storedIds[i] /\ x # 0
      BY <1>a, <3>1, <3>2, <3>3
    <3>6. \A d \in calls' : d.kind = "continue" => storedIds[d.text] = d.arg /\ d.arg # 0
      BY <1>a, <1>2, <2>1
    <3> QED BY <1>a, <2>1, <3>4, <3>5, <3>6 DEF OneRequest
  <2> QED BY <2>2, <2>3
<1>5. CASE \E i \in Items : ContinueFromMessage(i)
  <2> PICK i \in Items : ContinueFromMessage(i) BY <1>5
  <2>1. PICK id, slot, e : /\ id = RequestId(i) /\ e = PageCall("continue", slot, id, i)
                           /\ continueRequests' = [continueRequests EXCEPT ![i] = id]
                           /\ storedIds' = [storedIds EXCEPT ![i] = id]
                           /\ calls' = calls \cup {e} /\ forks' = forks
    BY DEF ContinueFromMessage, Issue, remoteVars
  <2>2. /\ id \in Nat /\ id # 0 /\ (storedIds[i] # 0 => id = storedIds[i])
    BY <1>0, <1>a, <2>1 DEF RequestId
  <2>3. e.kind = "continue" /\ e.arg = id /\ e.text = i BY <2>1, PageCallFields
  <2>4. storedIds' \in [Items -> Nat] /\ continueRequests' \in [Items -> Nat]
        /\ storedIds'[i] = id /\ continueRequests'[i] = id
        /\ \A j \in Items : j # i => /\ storedIds'[j] = storedIds[j]
                                     /\ continueRequests'[j] = continueRequests[j]
    BY <1>a, <2>1, <2>2
  <2>5. ASSUME NEW j \in Items
        PROVE  /\ \A x \in forks[j] : x = storedIds'[j] /\ x # 0
               /\ continueRequests'[j] \in {0, storedIds'[j]}
    <3>1. CASE j = i
      <4>1. \A x \in forks[i] : x = storedIds[i] /\ x # 0 BY <1>a
      <4> QED BY <2>2, <2>4, <3>1, <4>1
    <3>2. CASE j # i BY <1>a, <2>4, <3>2
    <3> QED BY <3>1, <3>2
  <2>6. ASSUME NEW d \in calls', d.kind = "continue" PROVE storedIds'[d.text] = d.arg /\ d.arg # 0
    <3>1. CASE d = e BY <2>2, <2>3, <2>4, <3>1
    <3>2. CASE d \in calls
      <4>1. storedIds[d.text] = d.arg /\ d.arg # 0 BY <1>a, <2>6, <3>2
      <4>2. d.text \in Items BY <2>6, <3>2 DEF CallsTyped, IsCall
      <4>3. CASE d.text = i BY <2>2, <2>4, <4>1, <4>3
      <4>4. CASE d.text # i BY <2>4, <4>1, <4>2, <4>4
      <4> QED BY <4>3, <4>4
    <3> QED BY <2>1, <3>1, <3>2
  <2> QED BY <1>a, <2>1, <2>4, <2>5, <2>6 DEF OneRequest
<1>p. ASSUME NEW from, NEW p, p = EventsAfter(from) PROVE p.kind # "continue"
  BY <1>p, PollFields
<1>6. CASE Reload
  <2>1. PICK p : p = EventsAfter(0) /\ calls' = {p} BY <1>6 DEF Reload
  <2>2. p.kind # "continue" BY <1>p, <2>1
  <2>3. continueRequests' = NoPlace /\ forks' = forks /\ storedIds' = storedIds
    BY <1>6 DEF Reload, remoteVars
  <2>4. continueRequests' \in [Items -> Nat] /\ \A i \in Items : continueRequests'[i] = 0
    BY <2>3 DEF NoPlace
  <2> QED BY <1>a, <2>1, <2>2, <2>3, <2>4 DEF OneRequest
<1>7. CASE Poll \/ (\E c \in calls : LandClick(c))
  <2>1. PICK p : p = EventsAfter(cursor) /\ calls' \in SUBSET (calls \cup {p})
    BY <1>7 DEF Poll, LandClick, Issue, AlsoPoll
  <2>2. p.kind # "continue" BY <1>p, <2>1
  <2>3. UNCHANGED <<forks, storedIds, continueRequests>>
    BY <1>7 DEF Poll, LandClick, remoteVars, pageVars
  <2> QED BY <1>1, <2>1, <2>2, <2>3
<1>8. CASE PassMove \/ StreamMessage \/ Consume \/ Server \/ Vanish
  BY <1>1, <1>8 DEF PassMove, Pass, StreamMessage, Consume, Server, Vanish, remoteVars, pageVars
<1>9. CASE \E c \in calls : LandEvents(c) \/ LandSend(c)
  BY <1>1, <1>9 DEF LandEvents, LandSend, remoteVars
<1>10. ASSUME NEW kind, NEW slot, NEW arg, NEW said, kind # "continue",
              UNCHANGED <<forks, storedIds, continueRequests>>,
              calls' = calls \cup {PageCall(kind, slot, arg, said)}
       PROVE  OneRequest'
  <2>1. PICK e : e = PageCall(kind, slot, arg, said) OBVIOUS
  <2>2. e.kind = kind BY <2>1, PageCallFields
  <2> QED BY <1>1, <1>10, <2>1, <2>2
<1>11. CASE ClickMove BY <1>10, <1>11 DEF ClickMove, Click, Issue, remoteVars, pageVars
<1>12. CASE \E t \in Texts, d \in Sends : Send(t, d)
  <2>1. PICK t \in Texts, d \in Sends : Send(t, d) BY <1>12
  <2>2. PICK slot, id : /\ calls' = calls \cup {PageCall(d, slot, id, t)}
                        /\ UNCHANGED <<forks, storedIds, continueRequests>>
    BY <2>1 DEF Send, Issue, remoteVars
  <2>3. d # "continue" BY DEF Sends
  <2> QED BY <1>10, <2>2, <2>3
<1> QED BY Moves, <1>3, <1>4, <1>5, <1>6, <1>7, <1>8, <1>9, <1>11, <1>12 DEF CallMove

-----------------------------------------------------------------------------
(* The theorems.                                                           *)

LEMMA InitIInv == Init => IInv
<1> SUFFICES ASSUME Init PROVE IInv OBVIOUS
<1>0. 0 \in Nat /\ \A i \in 1..0 : FALSE OBVIOUS
<1>1. PICK z : z = <<>> OBVIOUS
<1>2. Len(z) = 0 /\ DOMAIN z = {} /\ \A S : z \in Seq(S) BY <1>1, EmptySeq
<1>3. /\ journal = z /\ events = z /\ mail = z /\ pending = z /\ mustShow = z
      /\ cursor = 0 /\ steps = 0 /\ questions = 0 /\ ask = 0 /\ askQuestions = 0
      /\ past = {Seen} /\ calls = {EventsAfter(0)}
      /\ forks = [i \in Items |-> {}] /\ storedIds = NoPlace /\ continueRequests = NoPlace
      /\ decided = {} /\ resolvedLocal = {}
  BY <1>1 DEF Init
<1>4. Typed
  <2>1. exists = TRUE /\ gone = FALSE /\ typing = FALSE /\ child = {} /\ sseApprovals = {}
    BY DEF Init
  <2>2. exists \in BOOLEAN /\ gone \in BOOLEAN /\ typing \in BOOLEAN BY <2>1, Zenon
  <2>3. child \subseteq Kids /\ sseApprovals \subseteq Kids BY <2>1
  <2>4. /\ journal \in Seq(EventRecord) /\ events \in Seq(EventRecord)
        /\ mail \in Seq(MailRecord) /\ pending \in Seq(RowRecord)
    BY <1>2, <1>3
  <2>5. steps \in Nat BY <1>3
  <2> QED BY <2>2, <2>3, <2>4, <2>5 DEF Typed
<1>5. AskedSafe
  <2>1. Seen.ask = 0 BY <1>3 DEF Seen
  <2> QED BY <1>3, <2>1 DEF AskedSafe
<1>6. CallsTyped BY <1>0, <1>3, <1>4, PollIsCall DEF CallsTyped
<1>7. PICK p : p = EventsAfter(0) OBVIOUS
<1>8. /\ p.kind = "events" /\ p.st # "out"
      /\ p.evs = SubSeq(journal, 0 + 1, Len(journal))
  BY <1>7, PollFields
<1>9. journal \in Seq(EventRecord) BY <1>4 DEF Typed
<1>10. IsPrefix(z, journal) BY <1>1, <1>9, NothingIsPrefix
<1>11. EventsFollowJournal BY <1>2, <1>3, <1>10 DEF EventsFollowJournal
<1>12. OnePoll
  <2>1. IsPrefix(z \o SubSeq(journal, Len(z) + 1, Len(journal)), journal)
    BY <1>2, <1>9, <1>10, PollContinues
  <2>2. IsPrefix(events \o p.evs, journal) BY <1>2, <1>3, <1>8, <2>1
  <2> QED BY <1>3, <1>7, <1>8, <2>2 DEF OnePoll
<1>13. MailNumbered BY <1>2, <1>3, <1>7, <1>8 DEF MailNumbered, Sends
<1>14. RowsOwed BY <1>2, <1>3 DEF RowsOwed, Distinct
<1>15. OneRequest BY <1>3, <1>7, <1>8 DEF OneRequest, NoPlace
<1>16. Decided BY <1>3 DEF Decided
<1>17. NothingSentVanishes
  <2>1. \A t : {i \in DOMAIN z : z[i] = t} = {} BY <1>2
  <2>2. \A t : Count(z, t) = 0 BY <1>1, CountOfNone
  <2>3. \A t : Cardinality({i \in DOMAIN z : z[i] = t}) = 0 BY <2>1, FS_EmptySet
  <2> QED BY <1>3, <2>2, <2>3 DEF NothingSentVanishes
<1> QED BY <1>4, <1>5, <1>6, <1>11, <1>12, <1>13, <1>14, <1>15, <1>16, <1>17 DEF IInv

LEMMA NextIInv == IInv /\ [Next]_vars => IInv'
<1> SUFFICES ASSUME IInv, [Next]_vars PROVE IInv' OBVIOUS
<1>0. /\ Typed /\ AskedSafe /\ CallsTyped /\ OnePoll /\ MailNumbered /\ RowsOwed /\ OneRequest
      /\ Decided /\ EventsFollowJournal /\ NothingSentVanishes
  BY DEF IInv
<1>1. CASE Next
  <2>1. Distinct(pending) BY <1>0 DEF RowsOwed
  <2>2. Typed' /\ CallsTyped' BY <1>0, <1>1, <2>1, TypedStep, CallsTypedStep
  <2>3. AskedSafe' /\ Decided' BY <1>0, <1>1, AskedStep, DecidedStep
  <2>4. OnePoll' /\ EventsFollowJournal' BY <1>0, <1>1, OnePollStep, FollowStep
  <2>5. MailNumbered' /\ OneRequest' BY <1>0, <1>1, MailNumberedStep, OneRequestStep
  <2>6. RowsOwed' /\ NothingSentVanishes' BY <1>0, <1>1, RowsStep
  <2> QED BY <2>2, <2>3, <2>4, <2>5, <2>6 DEF IInv
<1>2. CASE UNCHANGED vars
  <2>0. UNCHANGED vars BY <1>2
  <2> USE DEF vars, remoteVars, pageVars, history, quotas
  <2>1. Typed' /\ AskedSafe' /\ Decided' BY <1>0, <2>0 DEF Typed, AskedSafe, Decided
  <2>2. CallsTyped' BY <1>0, <2>0 DEF CallsTyped, IsCall
  <2>3. OnePoll' /\ EventsFollowJournal' BY <1>0, <2>0 DEF OnePoll, EventsFollowJournal
  <2>4. MailNumbered' /\ OneRequest' BY <1>0, <2>0 DEF MailNumbered, OneRequest
  <2>5. RowsOwed' BY <1>0, <2>0 DEF RowsOwed, Distinct
  <2>6. NothingSentVanishes' BY <1>0, <2>0 DEF NothingSentVanishes, Count
  <2> QED BY <2>1, <2>2, <2>3, <2>4, <2>5, <2>6 DEF IInv
<1> QED BY <1>1, <1>2

\* The whole invariant: what the page, the server and the calls between them
\* hold in every reachable state, however the calls are answered.
THEOREM Invariance == Spec => []IInv
<1>1. IInv /\ [Next]_vars => IInv' BY NextIInv
<1> QED BY InitIInv, <1>1, PTL DEF Spec

\* Rows and messages keep distinct numbers, and the page asks no question that
\* was not asked (setPending, setAskQuestions and the calls behind them).
THEOREM TypeCorrect == Spec => []TypeOK
<1>1. IInv => TypeOK
  <2> SUFFICES ASSUME IInv PROVE TypeOK OBVIOUS
  <2>1. \A i \in DOMAIN pending : pending[i].text \in Texts
    <3>1. pending \in Seq(RowRecord) BY DEF IInv, Typed
    <3>2. \A i \in DOMAIN pending : pending[i] \in RowRecord
      BY <3>1, LenProperties, ElementOfSeq
    <3> QED BY <3>2 DEF RowRecord
  <2>2. \A c \in calls : c.st \in {"out", "ok", "answered", "failed", "gone"}
    BY DEF IInv, CallsTyped, IsCall, CallStates
  <2> QED BY <2>1, <2>2 DEF TypeOK, IInv, Typed, AskedSafe, MailNumbered, RowsOwed, Distinct
<1> QED BY Invariance, <1>1, PTL

\* Whatever polls overlap, fail or are asked for twice, the page's events are
\* the journal from its start, and no message that was sent and not refused is
\* missing from the page (poll, send).
THEOREM NothingLost == Spec => []NothingIsLost
<1>1. IInv => NothingIsLost BY DEF IInv, NothingIsLost
<1> QED BY Invariance, <1>1, PTL

\* Continuing from a message makes one fork, and a decided approval is not
\* asked again (continueFromMessage, decideApproval).
THEOREM ClicksOnce == Spec => []ClicksAreOnce
<1>1. IInv => ClicksAreOnce
  <2> SUFFICES ASSUME IInv PROVE ClicksAreOnce OBVIOUS
  <2>1. ASSUME NEW i \in Items PROVE Cardinality(forks[i]) <= 1
    <3>1. forks[i] \in SUBSET {storedIds[i]} BY DEF IInv, OneRequest
    <3>2. IsFiniteSet({storedIds[i]}) /\ Cardinality({storedIds[i]}) = 1 BY FS_Singleton
    <3>3. Cardinality(forks[i]) <= Cardinality({storedIds[i]}) BY <3>1, <3>2, FS_Subset
    <3> QED BY <3>2, <3>3
  <2>2. decided \cap OpenApprovals = {} BY DEF IInv, Decided, OpenApprovals
  <2> QED BY <2>1, <2>2 DEF ClicksAreOnce
<1> QED BY Invariance, <1>1, PTL

(***************************************************************************)
(* Beside the remote state.  Card and rail are true once nothing is on its *)
(* way, and the panel keeps to the scope it names (ScreensTrue, of         *)
(* Review); the viewport keeps its reader's place and follows the others   *)
(* (PlaceKept, of TimelineScroll).                                         *)
(*                                                                         *)
(* A screen at rest is true because of what it was before: as long as no   *)
(* live event and no change by an action is still to be told of, the       *)
(* card's call, if it has an answer, has the answer of now, or another     *)
(* call stands behind it (CardInv); the same of the rail's read and its    *)
(* timer (RailInv).                                                        *)
(***************************************************************************)
(* The invariant.                                                          *)

Opened == Scopes \cup {NoScope}
Calls == [scope : Scopes, got : Int]
Acts == [by : {NoCall, "panel", "rail", "card", "gone"}, scope : Opened,
         push : BOOLEAN, at : {"none", "asked", "push", "done", "refused"}]
Screens == [at : {"loading", "ready", "error"}, scope : Opened, diff : Int]

WorkTypes ==
    /\ latest \in Nat /\ work \in 0 .. latest /\ turn \in Unavailable .. latest
    /\ news \in BOOLEAN
CardTypes ==
    /\ phase \in {"loading", "ready", "error"} /\ rerun \in BOOLEAN
    /\ card \in Calls \cup {NoCardCall} /\ cardCall \in Calls \cup {NoCardCall}
RailTypes ==
    /\ env \in Unavailable .. latest
    /\ envReads \in {{}} \cup {{got} : got \in Unread .. latest}
    /\ recent \in BOOLEAN /\ timer \in BOOLEAN
PanelTypes ==
    /\ panel \in BOOLEAN /\ scope \in Scopes /\ saved \in Scopes /\ picked \in BOOLEAN
    /\ shown \in Screens /\ reads \in {{}} \cup {{c} : c \in Calls}
    /\ hint \in Opened /\ asked \in Opened /\ astray \in BOOLEAN
ActTypes ==
    /\ act \in Acts /\ untold \subseteq CardAndRail /\ (act.by = "panel" => act.scope \in Scopes)
    /\ reviewSteps \in 0 .. ReviewSteps
Types == WorkTypes /\ CardTypes /\ RailTypes /\ PanelTypes /\ ActTypes

\* Panel and rail are never on the screen together, and neither is left with
\* a call, a timer or an action of the other.
OnePlace ==
    /\ panel => /\ env = Unavailable /\ envReads = {} /\ ~timer /\ ~recent
                /\ act.by # "rail"
    /\ ~panel => reads = {} /\ shown = Loading /\ act.by # "panel"

\* The workspace may have moved since the place was last told of it.
Dirty(place) == news \/ place \in untold

\* What the card has, or will have when its call is answered.
CardInv ==
    /\ rerun => cardCall # NoCardCall
    /\ ~Dirty("card") /\ ~rerun =>
         \/ cardCall = NoCardCall /\ (phase = "ready" => card = CardClaim)
         \/ cardCall.scope = "last-turn" /\ cardCall.got \in {Unread, turn}
         \/ /\ cardCall.scope = "working-tree" /\ turn <= 0
            /\ cardCall.got \in {Unread, work}
RailInv ==
    ~Dirty("rail") /\ ~timer =>
         \/ envReads = {} /\ env \in {Unavailable, work}
         \/ envReads = {Unread}
         \/ envReads = {work}

\* A read answered with an unavailable diff was of a turn that has none.
Truthful ==
    \A c \in reads :
        c.got = Unread \/ (c.got = Unavailable <=> c.scope = "last-turn" /\ turn = Unavailable)

PanelInv ==
    /\ \A c \in reads : (c.scope = scope \/ astray) /\ shown.at # "ready"
    /\ shown.at = "ready" => /\ shown.scope = scope \/ astray
                             /\ shown.diff = Unavailable => picked
    /\ asked # NoScope => scope = asked

-----------------------------------------------------------------------------
(* The moves.                                                              *)

\* What the user does to the panel: nothing of the workspace, nor of the card.
Opens == onReview \/ openDiff(NoScope)
Panels == \/ Opens \/ closeDiff \/ (\E s \in Scopes : pickScope(s)) \/ Refresh
          \/ PanelStep \/ (\E c \in reads : PanelFails(c))
Rails == RailStep \/ RailFails
Asks == (\E push \in BOOLEAN : doCommit(push)) \/ undo
Serves == ActServed \/ PushServed \/ ActFails
Agents == TurnBegins \/ (\E kid \in BOOLEAN : AgentWrites(kid))
Cards == CardStep \/ CardFails \/ retry
Bumps == ActReturns \/ EventArrives
ReviewMoves == Panels \/ Rails \/ Asks \/ ActRefused \/ Agents \/ Cards \/ Bumps \/ Serves

LEMMA Covered ==
  ASSUME ReviewNext
  PROVE  ReviewMoves
BY DEF ReviewNext, ReviewMoves, Panels, Rails, Asks, Serves, Agents, Cards, Bumps, CardStep,
       RailStep, PanelStep, ActStep, Opens

\* The panel opens in the place of the rail, or is pointed at a scope.
LEMMA OpensFact ==
  ASSUME Types, OnePlace, Opens
  PROVE  \E h \in Opened :
           /\ openDiff(h)
           /\ h = NoScope \/ (h = card.scope /\ card.got > 0)
<1>1. CASE onReview
  <2>1. card \in Calls
    BY <1>1 DEF onReview, Types, CardTypes, NoCardCall, Unread
  <2>. QED  BY <1>1, <2>1 DEF onReview, Calls, Opened
<1>2. CASE openDiff(NoScope)
  BY <1>2 DEF Opened
<1>. QED  BY <1>1, <1>2 DEF Opens

\* What leaves the workspace and the card alone.
LEMMA QuietFact ==
  ASSUME Panels \/ Rails \/ Asks \/ ActRefused
  PROVE  UNCHANGED <<serverVars, cardVars>>
<1>1. CASE Panels
  BY <1>1 DEF Panels, Opens, onReview, openDiff, closeDiff, pickScope, Refresh, PanelStep,
              PanelServed, PanelLands, PanelFails
<1>2. CASE Rails
  BY <1>2 DEF Rails, RailStep, RailFails, Quiet, TimerFires, RailServed, RailLands
<1>3. CASE Asks
  BY <1>3 DEF Asks, doCommit, undo
<1>4. CASE ActRefused
  BY <1>4 DEF ActRefused
<1>. QED  BY <1>1, <1>2, <1>3, <1>4

\* What git and a failure do: they change the workspace and have it untold, or
\* leave both.
LEMMA ServesFact ==
  ASSUME Types, Serves
  PROVE  /\ UNCHANGED <<turn, news, cardVars, railVars, panelVars>>
         /\ \/ work' = work /\ latest' = latest /\ untold' = untold
            \/ untold' = CardAndRail /\ work' \in 0 .. latest' /\ latest' \in {latest, latest + 1}
         /\ reviewSteps' = reviewSteps \/ ReviewSpend
         /\ \E at \in {"push", "done", "refused"} : act' = [act EXCEPT !.at = at]
<1>0. latest \in Nat /\ work \in 0 .. latest
  BY DEF Types, WorkTypes
<1>1. CASE ActServed
  <2>1. /\ UNCHANGED <<turn, news, latest, cardVars, railVars, panelVars, reviewSteps>> /\ work' = 0
        /\ untold' = IF work = 0 THEN untold ELSE CardAndRail
        /\ act' = [act EXCEPT !.at = IF act.push THEN "push" ELSE "done"]
    BY <1>1 DEF ActServed
  <2>. QED  BY <1>0, <2>1
<1>2. CASE PushServed
  BY <1>0, <1>2 DEF PushServed, serverVars
<1>3. CASE ActFails
  BY <1>0, <1>3 DEF ActFails
<1>. QED  BY <1>1, <1>2, <1>3 DEF Serves

\* A place is struck from the untold only when it reads anew.
LEMMA UntoldFact ==
  ASSUME Types, ReviewMoves
  PROVE  /\ Panels \/ Rails \/ Asks \/ ActRefused =>
                ("card" \in untold' <=> "card" \in untold)
         /\ untold' \in {untold, untold \ {"card"}, untold \ {"rail"}, {}, CardAndRail}
         /\ CardStep \/ CardFails \/ Agents => untold' = untold
         /\ Asks \/ ActRefused \/ Cards => ("rail" \in untold' <=> "rail" \in untold)
         /\ Panels => untold' = untold \/ closeDiff
         /\ Rails => untold' = untold \/ TimerFires
<1>1. Asks \/ ActRefused \/ Agents \/ CardStep \/ CardFails => untold' = untold
  BY DEF Asks, doCommit, undo, Begin, ActRefused, Agents, TurnBegins, AgentWrites, CardStep,
         CardServed, CardLands, CardFails, actVars
<1>2. Panels => untold' = untold \/ (closeDiff /\ untold' = untold \ {"rail"})
  BY DEF Panels, Opens, onReview, openDiff, closeDiff, pickScope, Refresh, PanelStep,
         PanelServed, PanelLands, PanelFails, actVars
<1>3. Rails => untold' = untold \/ (TimerFires /\ untold' = untold \ {"rail"})
  BY DEF Rails, RailStep, RailFails, Quiet, TimerFires, RailServed, RailLands, actVars
<1>4. retry => untold' = untold \ {"card"}
  BY DEF retry
<1>5. Bumps => untold' = {}
  BY DEF Bumps, ActReturns, EventArrives
<1>6. Serves => untold' \in {untold, CardAndRail}
  BY ServesFact
<1>. QED  BY <1>1, <1>2, <1>3, <1>4, <1>5, <1>6 DEF ReviewMoves, Cards

-----------------------------------------------------------------------------
(* Types.                                                                  *)

LEMMA WorkTyped ==
  ASSUME Types, ReviewMoves
  PROVE  WorkTypes'
<1>1. CASE Panels \/ Rails \/ Asks \/ ActRefused
  BY <1>1, QuietFact DEF Types, WorkTypes, serverVars
<1>2. CASE Agents
  <2>1. CASE TurnBegins
    BY <2>1 DEF Types, WorkTypes, TurnBegins, Unavailable
  <2>2. CASE \E kid \in BOOLEAN : AgentWrites(kid)
    BY <2>2 DEF Types, WorkTypes, AgentWrites, Unavailable
  <2>. QED  BY <1>2, <2>1, <2>2 DEF Agents
<1>3. CASE Cards
  BY <1>3 DEF Types, WorkTypes, Cards, CardStep, CardServed, CardLands, CardFails, retry,
              serverVars
<1>4. CASE Bumps
  BY <1>4 DEF Types, WorkTypes, Bumps, ActReturns, EventArrives, serverVars
<1>5. CASE Serves
  BY <1>5, ServesFact DEF Types, WorkTypes
<1>. QED  BY <1>1, <1>2, <1>3, <1>4, <1>5 DEF ReviewMoves

\* The newest state of the workspace never steps back.
LEMMA LatestGrows ==
  ASSUME Types, ReviewMoves
  PROVE  latest \in Nat /\ latest' \in Nat /\ latest <= latest'
<1>1. latest \in Nat
  BY DEF Types, WorkTypes
<1>2. latest' = latest \/ latest' = latest + 1
  <2>1. CASE Panels \/ Rails \/ Asks \/ ActRefused
    BY <2>1, QuietFact DEF serverVars
  <2>2. CASE Agents \/ Cards \/ Bumps
    BY <2>2 DEF Agents, TurnBegins, AgentWrites, Cards, CardStep, CardServed, CardLands,
                CardFails, retry, Bumps, ActReturns, EventArrives, serverVars
  <2>3. CASE Serves
    BY <2>3, ServesFact
  <2>. QED  BY <2>1, <2>2, <2>3 DEF ReviewMoves
<1>. QED  BY <1>1, <1>2

LEMMA CallFact ==
  /\ Call("last-turn") \in Calls /\ Call("last-turn") # NoCardCall
  /\ Call("last-turn").scope = "last-turn" /\ Call("last-turn").got = Unread
  /\ Call("working-tree") \in Calls /\ Call("working-tree") # NoCardCall
  /\ Call("working-tree").scope = "working-tree" /\ Call("working-tree").got = Unread
  /\ \A c \in Calls : c # NoCardCall
BY DEF Call, Calls, NoCardCall, Scopes, NoScope, Unread

LEMMA CardTyped ==
  ASSUME Types, ReviewMoves
  PROVE  CardTypes'
<1>. USE DEF CardTypes
<1>0. CardTypes
  BY DEF Types
<1>1. CASE Panels \/ Rails \/ Asks \/ ActRefused
  BY <1>0, <1>1, QuietFact DEF cardVars
<1>2. CASE Agents \/ Serves
  BY <1>0, <1>2, ServesFact DEF Agents, TurnBegins, AgentWrites, cardVars
<1>3. CASE Bumps
  <2>1. CardTick
    BY <1>3 DEF Bumps, ActReturns, EventArrives, bumpWorkspaceEpoch
  <2>. QED  BY <1>0, <2>1, CallFact DEF CardTick
<1>4. CASE CardServed
  <2>1. cardCall \in Calls /\ UNCHANGED <<phase, card, rerun>>
        /\ cardCall' = [cardCall EXCEPT !.got = Diff(cardCall.scope)]
    BY <1>0, <1>4 DEF CardServed
  <2>2. Diff(cardCall.scope) \in Int
    BY DEF Diff, Types, WorkTypes, Unavailable
  <2>3. cardCall' \in Calls
    BY <2>1, <2>2 DEF Calls
  <2>. QED  BY <1>0, <2>1, <2>3
<1>5. CASE CardLands
  BY <1>0, <1>5, CallFact DEF CardLands, Finally
<1>6. CASE CardFails
  BY <1>0, <1>6, CallFact DEF CardFails, Finally
<1>7. CASE retry
  BY <1>0, <1>7, CallFact DEF retry
<1>. QED  BY <1>1, <1>2, <1>3, <1>4, <1>5, <1>6, <1>7 DEF ReviewMoves, Cards, CardStep

LEMMA RailTyped ==
  ASSUME Types, ReviewMoves
  PROVE  RailTypes'
<1>. DEFINE Reads == {{}} \cup {{got} : got \in Unread .. latest'}
<1>0. /\ latest \in Nat /\ latest' \in Nat /\ latest <= latest'
      /\ work \in 0 .. latest /\ RailTypes
  BY LatestGrows DEF Types, WorkTypes
<1>1. env \in Unavailable .. latest' /\ Unavailable \in Unavailable .. latest'
  BY <1>0 DEF RailTypes, Unavailable
<1>2. envReads \in Reads /\ {} \in Reads /\ {Unread} \in Reads /\ {work} \in Reads
  <2>1. work \in Unread .. latest' /\ Unread \in Unread .. latest'
    BY <1>0 DEF Unread
  <2>2. Unread .. latest \subseteq Unread .. latest'
    BY <1>0 DEF Unread
  <2>. QED  BY <1>0, <2>1, <2>2 DEF RailTypes
<1>3. \A got \in envReads \ {Unread} : got \in Unavailable .. latest'
  BY <1>0 DEF RailTypes, Unavailable, Unread
<1>4. recent \in BOOLEAN /\ timer \in BOOLEAN
  BY <1>0 DEF RailTypes
<1>. SUFFICES env' \in Unavailable .. latest' /\ envReads' \in Reads
              /\ recent' \in BOOLEAN /\ timer' \in BOOLEAN
  BY DEF RailTypes
<1>. HIDE DEF Reads
<1>5. CASE UNCHANGED railVars
  BY <1>1, <1>2, <1>4, <1>5 DEF railVars
<1>6. CASE RailTick
  BY <1>1, <1>2, <1>4, <1>6 DEF RailTick, RailLoad, railVars
<1>7. CASE RailLoad /\ timer' \in BOOLEAN
  BY <1>1, <1>2, <1>7 DEF RailLoad
<1>8. CASE Rails
  BY <1>1, <1>2, <1>3, <1>4, <1>8 DEF Rails, RailStep, RailFails, Quiet, TimerFires,
              RailServed, RailLands, RailLoad
<1>9. CASE RailLeaves \/ RailReturns
  BY <1>1, <1>2, <1>9 DEF RailLeaves, RailReturns
<1>10. UNCHANGED railVars \/ RailTick \/ (RailLoad /\ timer' \in BOOLEAN) \/ Rails
       \/ RailLeaves \/ RailReturns
  <2>1. CASE Panels
    BY <2>1 DEF Panels, Opens, onReview, openDiff, closeDiff, pickScope, Refresh, PanelStep,
                PanelServed, PanelLands, PanelFails
  <2>2. CASE Asks \/ ActRefused \/ Agents \/ Cards \/ Serves
    BY <2>2, ServesFact DEF Asks, doCommit, undo, ActRefused, Agents, TurnBegins,
                AgentWrites, Cards, CardStep, CardServed, CardLands, CardFails, retry
  <2>3. CASE Bumps
    BY <2>3 DEF Bumps, ActReturns, EventArrives, bumpWorkspaceEpoch
  <2>. QED  BY <2>1, <2>2, <2>3 DEF ReviewMoves
<1>. QED  BY <1>5, <1>6, <1>7, <1>8, <1>9, <1>10

\* What a load leaves: one call, and nothing on the screen.
LEMMA LoadFact ==
  ASSUME NEW s \in Scopes
  PROVE  /\ Call(s) \in Calls /\ Call(s).scope = s /\ Call(s).got = Unread
         /\ reload(s) => shown' = Loading /\ reads' = {Call(s)}
         /\ load(s) => shown' = Loading /\ reads' = {Call(s)} /\ astray' = FALSE
         /\ Loading \in Screens /\ Loading.at = "loading"
BY DEF load, reload, Heard, Call, Calls, Unread, Loading, Screens, Opened

\* One call of the panel is on its way at most: the one that counts.
LEMMA OneRead ==
  ASSUME Types, NEW c \in reads
  PROVE  reads = {c} /\ c \in Calls /\ reads \ {c} = {}
BY DEF Types, PanelTypes

LEMMA DiffFact ==
  ASSUME Types, NEW s \in Scopes
  PROVE  /\ Diff(s) \in Int /\ Diff(s) # Unread
         /\ Diff(s) = Unavailable <=> s = "last-turn" /\ turn = Unavailable
BY DEF Types, WorkTypes, Diff, Unavailable, Unread, Scopes

\* The panel while it is left alone.
LEMMA PanelRests ==
  ASSUME Types, Rails \/ Asks \/ ActRefused \/ Agents \/ Cards \/ Serves \/ EventArrives
  PROVE  UNCHANGED panelVars
BY ServesFact DEF Rails, RailStep, RailFails, Quiet, TimerFires, RailServed, RailLands, Asks, doCommit,
       undo, ActRefused, Agents, TurnBegins, AgentWrites, Cards, CardStep,
       CardServed, CardLands, CardFails, retry, EventArrives

\* The ways the panel is opened, and pointed at a scope.
LEMMA OpenDiffFact ==
  ASSUME Types, NEW h \in Opened, openDiff(h)
  PROVE  /\ hint' = h /\ panel' /\ reviewSteps' \in 0 .. ReviewSteps
         /\ \/ /\ panel /\ UNCHANGED <<picked, saved, railVars, act>>
               /\ asked' = IF h = hint THEN asked ELSE h
               /\ \/ h # NoScope /\ h # hint /\ setScope(h)
                  \/ (h = NoScope \/ h = hint) /\ UNCHANGED <<scope, shown, reads, astray>>
            \/ /\ ~panel /\ ~picked' /\ picked' \in BOOLEAN /\ asked' = h /\ astray' = FALSE
               /\ scope' = (IF h = NoScope THEN saved ELSE h) /\ scope' \in Scopes
               /\ shown' = Loading /\ reads' = {Call(scope')} /\ saved' = saved
               /\ RailLeaves
               /\ act' = [act EXCEPT !.by = IF @ = "rail" THEN "gone" ELSE @]
<1>1. /\ hint' = h /\ reviewSteps' \in 0 .. ReviewSteps
  BY ReviewAssumption DEF openDiff, ReviewSpend, Types, ActTypes
<1>2. CASE panel
  BY <1>1, <1>2 DEF openDiff
<1>3. CASE ~panel
  BY <1>1, <1>3 DEF openDiff, Types, PanelTypes, Opened
<1>. QED  BY <1>2, <1>3

LEMMA SetScopeFact ==
  ASSUME Types, NEW s \in Scopes, setScope(s)
  PROVE  /\ scope' = s /\ shown' \in Screens /\ reads' \in {{}} \cup {{c} : c \in Calls}
         /\ astray' \in BOOLEAN
         /\ \/ s = scope /\ UNCHANGED <<shown, reads, astray>>
            \/ s # scope /\ shown' = Loading /\ reads' = {Call(s)} /\ astray' = FALSE
BY LoadFact DEF setScope, Types, PanelTypes

LEMMA PanelTyped ==
  ASSUME Types, ReviewMoves, OnePlace
  PROVE  PanelTypes'
<1>. USE DEF PanelTypes
<1>0. PanelTypes /\ card \in Calls \cup {NoCardCall}
  BY DEF Types, CardTypes
<1>1. CASE UNCHANGED panelVars
  BY <1>0, <1>1 DEF panelVars
<1>2. CASE Opens
  <2>1. PICK h \in Opened : openDiff(h)
    BY <1>2, OpensFact
  <2>2. CASE panel
    <3>1. h # NoScope => h \in Scopes
      BY DEF Opened
    <3>. QED  BY <1>0, <2>1, <2>2, <3>1, OpenDiffFact, SetScopeFact
  <2>3. CASE ~panel
    <3>1. scope' \in Scopes /\ reads' = {Call(scope')} /\ shown' = Loading /\ saved' = saved
          /\ panel' \in BOOLEAN
      BY <2>1, <2>3, OpenDiffFact DEF openDiff
    <3>2. Call(scope') \in Calls /\ Loading \in Screens
      BY <3>1, LoadFact
    <3>. QED  BY <1>0, <2>1, <2>3, <3>1, <3>2, OpenDiffFact
  <2>. QED  BY <2>2, <2>3
<1>3. CASE closeDiff
  BY <1>0, <1>3, LoadFact DEF closeDiff, Opened
<1>4. CASE \E s \in Scopes : pickScope(s)
  BY <1>0, <1>4, SetScopeFact DEF pickScope, Opened
<1>5. CASE Refresh
  BY <1>0, <1>5, LoadFact DEF Refresh
<1>6. ASSUME NEW c \in reads, PanelServed(c)  PROVE PanelTypes'
  <2>1. c \in Calls /\ reads \ {c} = {}
    BY OneRead
  <2>2. [c EXCEPT !.got = Diff(c.scope)] \in Calls
    BY <2>1, DiffFact DEF Calls
  <2>. QED  BY <1>0, <1>6, <2>1, <2>2 DEF PanelServed
<1>7. ASSUME NEW c \in reads, PanelLands(c)  PROVE PanelTypes'
  <2>1. c \in Calls /\ reads \ {c} = {}
    BY OneRead
  <2>2. CASE FallsBack(c)
    <3>1. /\ scope' = "working-tree" /\ asked' = NoScope
          /\ reads' \in {{}, {Call("working-tree")}}
          /\ UNCHANGED <<panel, picked, shown, hint, saved, astray>>
      BY <1>7, <2>1, <2>2 DEF PanelLands
    <3>. QED  BY <1>0, <3>1, CallFact DEF Scopes, Opened
  <2>3. CASE ~FallsBack(c)
    <3>1. [at |-> "ready", scope |-> c.scope, diff |-> c.got] \in Screens
      BY <2>1 DEF Calls, Screens, Opened
    <3>. QED  BY <1>0, <1>7, <2>1, <2>3, <3>1 DEF PanelLands
  <2>. QED  BY <2>2, <2>3
<1>8. ASSUME NEW c \in reads, PanelFails(c)  PROVE PanelTypes'
  <2>1. reads \ {c} = {}
    BY OneRead
  <2>2. [Loading EXCEPT !.at = "error"] \in Screens
    BY DEF Loading, Screens, Opened
  <2>. QED  BY <1>0, <1>8, <2>1, <2>2 DEF PanelFails
<1>9. CASE ActReturns
  <2>1. CASE act.by = "panel"
    <3>1. /\ reload(act.scope) /\ UNCHANGED <<panel, scope, picked, hint, saved, asked>>
          /\ astray' \in BOOLEAN
      BY <1>9, <2>1 DEF ActReturns
    <3>2. shown' = Loading /\ reads' = {Call(act.scope)}
      BY <3>1 DEF reload, Heard
    <3>3. Call(act.scope) \in Calls
      BY <2>1, LoadFact DEF Types, ActTypes
    <3>. QED  BY <1>0, <3>1, <3>2, <3>3, LoadFact
  <2>2. CASE act.by # "panel"
    BY <1>0, <1>9, <2>2 DEF ActReturns
  <2>. QED  BY <2>1, <2>2
<1>. QED  BY <1>1, <1>2, <1>3, <1>4, <1>5, <1>6, <1>7, <1>8, <1>9, PanelRests
          DEF ReviewMoves, Panels, PanelStep, Bumps

LEMMA ActTyped ==
  ASSUME Types, ReviewMoves, OnePlace
  PROVE  ActTypes'
<1>00. untold' \subseteq CardAndRail
  BY UntoldFact DEF Types, ActTypes
<1>0. /\ act \in Acts /\ reviewSteps \in 0 .. ReviewSteps /\ scope \in Scopes
      /\ NoAct \in Acts /\ NoAct.by # "panel" /\ (act.by = "panel" => act.scope \in Scopes)
  BY DEF Types, ActTypes, PanelTypes, Opened, NoAct, NoCall, Acts
<1>1. ReviewSpend => reviewSteps' \in 0 .. ReviewSteps
  BY <1>00, <1>0, ReviewAssumption DEF ReviewSpend
<1>2. \A at \in {"asked", "push", "done", "refused"} :
        /\ [act EXCEPT !.at = at] \in Acts
        /\ [act EXCEPT !.at = at].by = act.by /\ [act EXCEPT !.at = at].scope = act.scope
  BY <1>0 DEF Acts
<1>3. ASSUME NEW push \in BOOLEAN, NEW by \in {"panel", "rail", "card"}, Begin(by, push)
      PROVE  ActTypes'
  <2>1. [by |-> by, scope |-> scope, push |-> push, at |-> "asked"] \in Acts
    BY <1>0 DEF Acts, Opened
  <2>2. act' = [by |-> by, scope |-> scope, push |-> push, at |-> "asked"] /\ ReviewSpend
    BY <1>3 DEF Begin
  <2>3. act'.scope = scope
    BY <2>2
  <2>. QED  BY <1>00, <1>0, <1>1, <2>1, <2>2, <2>3 DEF ActTypes
<1>4. CASE Opens
  <2>1. PICK h \in Opened : openDiff(h)
    BY <1>4, OpensFact
  <2>2. act' = act \/ act' = [act EXCEPT !.by = IF @ = "rail" THEN "gone" ELSE @]
    BY <2>1 DEF openDiff
  <2>3. act' \in Acts /\ act'.scope = act.scope /\ (act'.by = "panel" => act.by = "panel")
    BY <1>00, <1>0, <2>2 DEF Acts
  <2>. QED  BY <1>00, <1>0, <1>1, <2>1, <2>3 DEF openDiff, ActTypes
<1>5. CASE closeDiff
  <2>1. act' = [act EXCEPT !.by = IF @ = "panel" THEN "gone" ELSE @] /\ ReviewSpend
    BY <1>5 DEF closeDiff
  <2>2. act' \in Acts /\ act'.by # "panel"
    BY <1>00, <1>0, <2>1 DEF Acts
  <2>. QED  BY <1>00, <1>1, <2>1, <2>2 DEF ActTypes
<1>6. CASE \/ \E s \in Scopes : pickScope(s)
           \/ Refresh \/ PanelStep \/ \E c \in reads : PanelFails(c)
  BY <1>00, <1>0, <1>1, <1>6 DEF pickScope, Refresh, PanelStep, PanelServed, PanelLands, PanelFails,
                          ActTypes, actVars
<1>7. CASE Asks
  BY <1>3, <1>7 DEF Asks, doCommit, undo
<1>8. CASE ActRefused \/ Serves
  BY <1>00, <1>0, <1>1, <1>2, <1>8, ServesFact DEF ActRefused, ActTypes
<1>9. CASE Rails \/ Agents \/ Cards \/ Bumps
  BY <1>00, <1>0, <1>1, <1>9 DEF Rails, RailStep, RailFails, Quiet, TimerFires, RailServed,
     RailLands, Agents, TurnBegins, AgentWrites, Cards, CardStep, CardServed, CardLands,
     CardFails, retry, Bumps, ActReturns, EventArrives, ActTypes, actVars
<1>. QED  BY <1>4, <1>5, <1>6, <1>7, <1>8, <1>9 DEF ReviewMoves, Panels

-----------------------------------------------------------------------------
(* Card and rail.                                                          *)

\* A tick leaves a call that was not answered yet, or one more behind it.
LEMMA TickFact ==
  ASSUME CardInv, CardTick
  PROVE  /\ phase' = phase /\ card' = card
         /\ \/ cardCall' = Call("last-turn") /\ rerun' = rerun /\ cardCall = NoCardCall /\ ~rerun
            \/ rerun' /\ cardCall' = cardCall /\ cardCall # NoCardCall
BY DEF CardTick, CardInv

LEMMA FinallyFact ==
  ASSUME Types, Finally
  PROVE  /\ ~rerun' /\ rerun' \in BOOLEAN
         /\ \/ rerun /\ cardCall' = Call("last-turn")
            \/ ~rerun /\ cardCall' = NoCardCall
BY DEF Finally, Types, CardTypes

LEMMA CardStays ==
  ASSUME Types, CardInv, ReviewMoves
  PROVE  CardInv'
<1>0. act \in Acts /\ work \in Nat /\ turn \in Int /\ turn # Unread /\ rerun \in BOOLEAN
  BY DEF Types, WorkTypes, CardTypes, ActTypes, Unavailable, Unread
<1>1. CASE Panels \/ Rails \/ Asks \/ ActRefused
  BY <1>1, QuietFact, UntoldFact DEF CardInv, Dirty, CardClaim, serverVars, cardVars
<1>2. CASE Agents
  BY <1>2 DEF Agents, TurnBegins, AgentWrites, CardInv, Dirty, cardVars
<1>3. CASE Bumps
  <2>1. CardTick
    BY <1>3 DEF Bumps, ActReturns, EventArrives, bumpWorkspaceEpoch
  <2>. QED  BY <1>0, <2>1, TickFact, CallFact DEF CardInv
<1>4. CASE Serves
  <2>1. UNCHANGED <<cardVars, news, turn>> /\ (Dirty("card")' \/ (work' = work /\ untold' = untold))
    BY <1>4, ServesFact DEF Dirty, CardAndRail
  <2>. QED  BY <2>1 DEF CardInv, Dirty, CardClaim, cardVars
<1>5. CASE Cards
  <2>1. UNCHANGED serverVars /\ (CardStep \/ CardFails => (Dirty("card")' <=> Dirty("card")))
    BY <1>5, UntoldFact DEF Cards, CardStep, CardServed, CardLands, CardFails, retry, Dirty,
                         serverVars
  <2>2. CASE CardServed
    <3>1. cardCall \in Calls /\ cardCall.got = Unread /\ UNCHANGED <<rerun, serverVars>>
          /\ cardCall' = [cardCall EXCEPT !.got = Diff(cardCall.scope)]
      BY <2>2 DEF CardServed, Types, CardTypes
    <3>2. cardCall'.scope = cardCall.scope /\ cardCall'.got = Diff(cardCall.scope)
      BY <3>1 DEF Calls
    <3>3. cardCall' # NoCardCall
      BY <3>1, <3>2 DEF Calls, NoCardCall, Scopes, NoScope
    <3>4. cardCall # NoCardCall /\ turn' = turn /\ work' = work
      BY <2>1, <3>1, CallFact DEF serverVars
    <3>5. ~Dirty("card")' /\ ~rerun' => ~Dirty("card") /\ ~rerun
      BY <1>0, <2>1, <2>2, <3>1 DEF CardStep
    <3>6. ~Dirty("card") /\ ~rerun =>
            \/ cardCall.scope = "last-turn"
            \/ cardCall.scope = "working-tree" /\ turn <= 0
      BY <3>4 DEF CardInv
    <3>. QED  BY <3>2, <3>3, <3>4, <3>5, <3>6 DEF CardInv, Diff
  <2>3. CASE CardLands
    <3>1. cardCall \in Calls /\ cardCall.got # Unread
      BY <2>3 DEF CardLands, Types, CardTypes
    <3>2. CASE cardCall.scope = "last-turn" /\ cardCall.got <= 0
      <4>1. cardCall' = Call("working-tree") /\ UNCHANGED <<phase, card, rerun>>
        BY <2>3, <3>2 DEF CardLands
      <4>2. ~Dirty("card") /\ ~rerun => turn <= 0
        BY <3>1, <3>2, CallFact DEF CardInv
      <4>3. turn' = turn /\ (~Dirty("card")' /\ ~rerun' => ~Dirty("card") /\ ~rerun)
        BY <1>0, <2>1, <2>3, <4>1 DEF serverVars, CardStep
      <4>. QED  BY <4>1, <4>2, <4>3, CallFact DEF CardInv
    <3>3. CASE ~(cardCall.scope = "last-turn" /\ cardCall.got <= 0)
      <4>1. card' = cardCall /\ phase' = "ready" /\ Finally
        BY <2>3, <3>3 DEF CardLands
      <4>2. ~Dirty("card") /\ ~rerun => cardCall = CardClaim
        <5>. SUFFICES ASSUME ~Dirty("card"), ~rerun PROVE cardCall = CardClaim
          OBVIOUS
        <5>1. cardCall = [scope |-> cardCall.scope, got |-> cardCall.got]
          BY <3>1 DEF Calls
        <5>2. \/ cardCall.scope = "last-turn" /\ cardCall.got = turn
              \/ cardCall.scope = "working-tree" /\ cardCall.got = work /\ turn <= 0
          BY <3>1, CallFact DEF CardInv
        <5>3. cardCall.scope = "last-turn" => turn > 0
          BY <1>0, <3>3, <5>2
        <5>. QED  BY <1>0, <5>1, <5>2, <5>3 DEF CardClaim
      <4>3. CardClaim' = CardClaim
        BY <2>1 DEF CardClaim, serverVars
      <4>. QED  BY <2>1, <2>3, <4>1, <4>2, <4>3, CallFact, FinallyFact DEF CardInv, CardStep
    <3>. QED  BY <3>2, <3>3
  <2>4. CASE CardFails
    <3>1. phase' = "error" /\ Finally
      BY <2>4 DEF CardFails
    <3>. QED  BY <2>1, <3>1, CallFact, FinallyFact DEF CardInv
  <2>5. CASE retry
    <3>1. \/ cardCall = NoCardCall /\ cardCall' = Call("last-turn") /\ rerun' = rerun
          \/ cardCall # NoCardCall /\ cardCall' = cardCall /\ rerun'
      BY <2>5 DEF retry
    <3>. QED  BY <2>1, <3>1, CallFact DEF CardInv
  <2>. QED  BY <1>5, <2>2, <2>3, <2>4, <2>5 DEF Cards, CardStep
<1>. QED  BY <1>1, <1>2, <1>3, <1>4, <1>5 DEF ReviewMoves

\* What a bump, or a live event, does to the rail.
LEMMA RailStays ==
  ASSUME Types, OnePlace, RailInv, ReviewMoves
  PROVE  RailInv'
<1>0. act \in Acts /\ RailTypes
  BY DEF Types, ActTypes
<1>1. CASE Panels \/ Asks \/ ActRefused \/ Cards
  <2>1. /\ UNCHANGED serverVars /\ (~closeDiff => (Dirty("rail")' <=> Dirty("rail")))
    <3>1. UNCHANGED serverVars
      BY <1>1, QuietFact DEF Cards, CardStep, CardServed, CardLands, CardFails, retry
    <3>. QED  BY <1>1, <3>1, UntoldFact DEF Dirty, serverVars
  <2>2. (UNCHANGED railVars /\ ~closeDiff) \/ RailLeaves \/ RailReturns
    <3>1. CASE closeDiff
      BY <3>1 DEF closeDiff
    <3>2. CASE ~closeDiff
      BY <1>1, <3>2 DEF Panels, Opens, onReview, openDiff, pickScope, Refresh, PanelStep,
                PanelServed, PanelLands, PanelFails, Asks, doCommit, undo,
                ActRefused, Cards, CardStep, CardServed, CardLands, CardFails, retry
    <3>. QED  BY <3>1, <3>2
  <2>3. CASE UNCHANGED railVars /\ ~closeDiff
    BY <2>1, <2>3 DEF RailInv, railVars, serverVars
  <2>4. CASE RailLeaves \/ RailReturns
    BY <2>4 DEF RailInv, RailLeaves, RailReturns
  <2>. QED  BY <2>2, <2>3, <2>4
<1>2. CASE Rails
  <2>1. UNCHANGED serverVars /\ (~TimerFires => (Dirty("rail")' <=> Dirty("rail")))
    BY <1>2, QuietFact, UntoldFact DEF Dirty, serverVars
  <2>2. work' = work
    BY <2>1 DEF serverVars
  <2>0. Quiet \/ RailServed \/ RailLands \/ RailFails => (Dirty("rail")' <=> Dirty("rail"))
    BY <2>1 DEF Quiet, RailServed, RailLands, RailFails, TimerFires, actVars, Dirty, serverVars
  <2>3. CASE Quiet
    BY <2>0, <2>2, <2>3 DEF Quiet, RailInv
  <2>4. CASE TimerFires
    BY <2>4 DEF TimerFires, RailLoad, RailInv
  <2>5. CASE RailServed
    BY <2>0, <2>2, <2>5 DEF RailServed, RailInv
  <2>6. CASE RailLands
    <3>1. PICK got \in envReads \ {Unread} : env' = got
      BY <2>6 DEF RailLands
    <3>2. timer' = timer /\ envReads' = {}
      BY <2>6 DEF RailLands
    <3>3. ~Dirty("rail") /\ ~timer => got = work
      BY <3>1 DEF RailInv
    <3>. QED  BY <2>0, <2>2, <2>6, <3>1, <3>2, <3>3 DEF RailInv
  <2>7. CASE RailFails
    BY <2>7 DEF RailFails, RailInv
  <2>. QED  BY <1>2, <2>3, <2>4, <2>5, <2>6, <2>7 DEF Rails, RailStep
<1>3. CASE Agents
  BY <1>3 DEF Agents, TurnBegins, AgentWrites, RailInv, Dirty
<1>4. CASE Serves
  <2>1. UNCHANGED <<railVars, news>> /\ (Dirty("rail")' \/ (work' = work /\ untold' = untold))
    BY <1>4, ServesFact DEF Dirty, CardAndRail
  <2>. QED  BY <2>1 DEF RailInv, Dirty, railVars
<1>5. CASE Bumps
  <2>1. RailTick \/ (RailLoad /\ timer' /\ act.by = "rail")
    BY <1>5 DEF Bumps, ActReturns, EventArrives, bumpWorkspaceEpoch
  <2>2. CASE panel
    <3>1. RailTick
      BY <2>1, <2>2 DEF OnePlace
    <3>. QED  BY <2>2, <3>1 DEF RailTick, railVars, OnePlace, RailInv
  <2>3. CASE ~panel
    <3>1. timer' \/ envReads' = {Unread}
      BY <2>1, <2>3 DEF RailTick, RailLoad
    <3>. QED  BY <3>1 DEF RailInv
  <2>. QED  BY <2>2, <2>3
<1>. QED  BY <1>1, <1>2, <1>3, <1>4, <1>5 DEF ReviewMoves

LEMMA PlaceStays ==
  ASSUME Types, OnePlace, ReviewMoves
  PROVE  OnePlace'
<1>0. act \in Acts /\ panel \in BOOLEAN
  BY DEF Types, ActTypes, PanelTypes
<1>1. CASE Opens
  <2>1. PICK h \in Opened : openDiff(h)
    BY <1>1, OpensFact
  <2>2. CASE panel
    <3>1. panel' /\ UNCHANGED <<railVars, act>>
      BY <2>1, <2>2, OpenDiffFact
    <3>. QED  BY <2>2, <3>1 DEF OnePlace, railVars
  <2>3. CASE ~panel
    <3>1. /\ panel' /\ RailLeaves
          /\ act' = [act EXCEPT !.by = IF @ = "rail" THEN "gone" ELSE @]
      BY <2>1, <2>3, OpenDiffFact
    <3>2. act'.by # "rail"
      BY <1>0, <3>1 DEF Acts
    <3>. QED  BY <3>1, <3>2 DEF OnePlace, RailLeaves
  <2>. QED  BY <2>2, <2>3
<1>2. CASE closeDiff
  <2>1. /\ ~panel' /\ reads' = {} /\ shown' = Loading
        /\ act' = [act EXCEPT !.by = IF @ = "panel" THEN "gone" ELSE @]
    BY <1>2 DEF closeDiff
  <2>2. act'.by # "panel"
    BY <1>0, <2>1 DEF Acts
  <2>. QED  BY <2>1, <2>2 DEF OnePlace
<1>3. CASE (\E s \in Scopes : pickScope(s)) \/ Refresh
  BY <1>3 DEF pickScope, Refresh, OnePlace, railVars, actVars
<1>4. CASE PanelStep \/ (\E c \in reads : PanelFails(c))
  <2>1. panel
    BY <1>4 DEF PanelStep, OnePlace
  <2>2. panel' = panel /\ UNCHANGED <<railVars, act>>
    BY <1>4 DEF PanelStep, PanelServed, PanelLands, PanelFails, actVars
  <2>. QED  BY <2>1, <2>2 DEF OnePlace, railVars
<1>5. CASE Rails
  <2>1. ~panel /\ UNCHANGED <<panelVars, act>>
    BY <1>0, <1>5 DEF Rails, RailStep, RailFails, Quiet, TimerFires, RailServed, RailLands, OnePlace, actVars
  <2>. QED  BY <2>1 DEF OnePlace, panelVars
<1>6. CASE Asks
  <2>1. UNCHANGED <<railVars, panelVars>>
    BY <1>6 DEF Asks, doCommit, undo
  <2>2. \/ act'.by = "panel" /\ panel
        \/ act'.by = "rail" /\ ~panel
        \/ act'.by = "card"
    BY <1>6 DEF Asks, doCommit, undo, Begin
  <2>. QED  BY <2>1, <2>2 DEF OnePlace, railVars, panelVars
<1>7. CASE ActRefused \/ Serves
  <2>1. UNCHANGED <<railVars, panelVars>> /\ (act'.by = act.by \/ act' = NoAct)
    <3>1. CASE ActRefused
      BY <3>1 DEF ActRefused
    <3>2. CASE Serves
      <4>1. UNCHANGED <<railVars, panelVars>> /\ \E at : act' = [act EXCEPT !.at = at]
        BY <3>2, ServesFact
      <4>. QED  BY <1>0, <4>1 DEF Acts
    <3>. QED  BY <1>7, <3>1, <3>2
  <2>. QED  BY <2>1 DEF OnePlace, railVars, panelVars, NoAct, NoCall
<1>8. CASE Agents \/ Cards
  <2>1. UNCHANGED <<railVars, panelVars, act>>
    BY <1>8 DEF Agents, TurnBegins, AgentWrites, Cards, CardStep, CardServed, CardLands,
                CardFails, retry, actVars
  <2>. QED  BY <2>1 DEF OnePlace, railVars, panelVars
<1>9. CASE Bumps
  <2>1. panel' = panel /\ (~panel => UNCHANGED <<shown, reads>>)
        /\ (act' = act \/ act' = NoAct)
    BY <1>0, <1>9 DEF Bumps, ActReturns, EventArrives, panelVars, OnePlace
  <2>2. panel => UNCHANGED railVars
    BY <1>9 DEF Bumps, ActReturns, EventArrives, bumpWorkspaceEpoch, RailTick, OnePlace
  <2>. QED  BY <2>1, <2>2 DEF OnePlace, railVars, NoAct, NoCall
<1>. QED  BY <1>1, <1>2, <1>3, <1>4, <1>5, <1>6, <1>7, <1>8, <1>9 DEF ReviewMoves, Panels

-----------------------------------------------------------------------------
(* The panel.                                                              *)

LEMMA TruthStays ==
  ASSUME Types, OnePlace, Truthful, ReviewMoves
  PROVE  Truthful'
<1>0. turn' = Unavailable <=> turn = Unavailable
  <2>1. CASE Panels \/ Rails \/ Asks \/ ActRefused
    BY <2>1, QuietFact DEF serverVars
  <2>2. CASE Agents
    BY <2>2 DEF Agents, TurnBegins, AgentWrites, Types, WorkTypes, Unavailable
  <2>3. CASE Cards \/ Bumps
    BY <2>3 DEF Cards, CardStep, CardServed, CardLands, CardFails, retry, Bumps, ActReturns,
                EventArrives, serverVars
  <2>4. CASE Serves
    BY <2>4, ServesFact
  <2>. QED  BY <2>1, <2>2, <2>3, <2>4 DEF ReviewMoves
<1>. DEFINE Good(c) == \/ c.got = Unread
                       \/ (c.got = Unavailable <=> c.scope = "last-turn" /\ turn = Unavailable)
<1>2. ASSUME NEW c \in reads'  PROVE Good(c)
  <2>1. \A d \in reads : Good(d)
    BY DEF Truthful
  <2>2. \A d : d.got = Unread => Good(d)
    OBVIOUS
  <2>3. CASE UNCHANGED panelVars
    BY <2>1, <2>3 DEF panelVars
  <2>4. ASSUME NEW d \in reads, PanelServed(d)  PROVE Good(c)
    <3>1. c = [d EXCEPT !.got = Diff(d.scope)] /\ d \in Calls
      BY <1>2, <2>4, OneRead DEF PanelServed
    <3>2. c.scope = d.scope /\ c.got = Diff(d.scope) /\ d.scope \in Scopes
      BY <3>1 DEF Calls
    <3>. QED  BY <3>2, DiffFact
  <2>5. ASSUME ~ \E d \in reads : PanelServed(d), ~UNCHANGED panelVars
        PROVE  c \in reads \/ c.got = Unread
    <3>1. CASE Opens
      <4>1. PICK h \in Opened : openDiff(h)
        BY <3>1, OpensFact
      <4>2. CASE panel
        <5>1. h # NoScope => h \in Scopes
          BY DEF Opened
        <5>. QED  BY <1>2, <4>1, <4>2, <5>1, OpenDiffFact, SetScopeFact, LoadFact
      <4>3. CASE ~panel
        BY <1>2, <4>1, <4>3, OpenDiffFact, LoadFact
      <4>. QED  BY <4>2, <4>3
    <3>2. CASE closeDiff
      BY <1>2, <3>2 DEF closeDiff
    <3>3. CASE \E s \in Scopes : pickScope(s)
      BY <1>2, <3>3, SetScopeFact, LoadFact DEF pickScope
    <3>4. CASE Refresh
      BY <1>2, <3>4, LoadFact DEF Refresh, Types, PanelTypes
    <3>5. CASE PanelStep \/ (\E d \in reads : PanelFails(d))
      BY <1>2, <2>5, <3>5, CallFact DEF PanelStep, PanelLands, PanelFails
    <3>6. CASE ActReturns
      BY <1>2, <3>6, LoadFact DEF ActReturns, Types, ActTypes
    <3>. QED  BY <2>5, <3>1, <3>2, <3>3, <3>4, <3>5, <3>6, PanelRests DEF ReviewMoves, Panels, Bumps
  <2>. QED  BY <2>1, <2>2, <2>3, <2>4, <2>5
<1>. QED  BY <1>0, <1>2 DEF Truthful

\* What is read and shown is of the scope the toolbar names, or astray; and the
\* card's scope stays until the user picks another.
LEMMA PanelStays ==
  ASSUME Types, OnePlace, Truthful, PanelInv, ReviewMoves
  PROVE  PanelInv'
<1>0. /\ act \in Acts /\ panel \in BOOLEAN /\ picked \in BOOLEAN /\ scope \in Scopes
      /\ astray \in BOOLEAN
  BY DEF Types, ActTypes, PanelTypes
<1>1. CASE UNCHANGED panelVars
  BY <1>0, <1>1 DEF PanelInv, panelVars
<1>2. ASSUME NEW s \in Scopes, setScope(s), picked' = picked \/ picked' = TRUE,
             asked' \in {NoScope, s}
      PROVE  PanelInv'
  <2>1. /\ scope' = s
        /\ \/ s = scope /\ UNCHANGED <<shown, reads, astray>>
           \/ s # scope /\ shown' = Loading /\ reads' = {Call(s)} /\ astray' = FALSE
    BY <1>2, SetScopeFact
  <2>2. CASE s = scope /\ UNCHANGED <<shown, reads, astray>>
    BY <1>0, <1>2, <2>1, <2>2 DEF PanelInv
  <2>3. CASE s # scope /\ shown' = Loading /\ reads' = {Call(s)} /\ astray' = FALSE
    BY <1>0, <1>2, <2>1, <2>3, LoadFact DEF PanelInv
  <2>. QED  BY <2>1, <2>2, <2>3
<1>5. CASE Opens
  <2>1. PICK h \in Opened : openDiff(h)
    BY <1>5, OpensFact
  <2>2. CASE panel
    <3>1. /\ UNCHANGED picked /\ asked' = IF h = hint THEN asked ELSE h
          /\ \/ h # NoScope /\ h # hint /\ setScope(h)
             \/ (h = NoScope \/ h = hint) /\ UNCHANGED <<scope, shown, reads, astray>>
      BY <2>1, <2>2, OpenDiffFact
    <3>2. CASE h # NoScope /\ h # hint /\ setScope(h)
      <4>1. h \in Scopes
        BY <3>2 DEF Opened
      <4>. QED  BY <1>2, <3>1, <3>2, <4>1
    <3>3. CASE (h = NoScope \/ h = hint) /\ UNCHANGED <<scope, shown, reads, astray>>
      BY <1>0, <3>1, <3>3 DEF PanelInv
    <3>. QED  BY <3>1, <3>2, <3>3
  <2>3. CASE ~panel
    <3>1. /\ scope' = (IF h = NoScope THEN saved ELSE h) /\ scope' \in Scopes /\ asked' = h
          /\ shown' = Loading /\ reads' = {Call(scope')}
      BY <2>1, <2>3, OpenDiffFact
    <3>2. \A c \in reads' : c.scope = scope' /\ shown'.at # "ready"
      BY <3>1, LoadFact
    <3>. QED  BY <3>1, <3>2, LoadFact DEF PanelInv
  <2>. QED  BY <1>0, <2>2, <2>3
<1>6. CASE closeDiff
  <2>1. shown' = Loading /\ reads' = {} /\ asked' = NoScope
    BY <1>6 DEF closeDiff
  <2>. QED  BY <2>1, LoadFact DEF PanelInv, Scopes
<1>7. ASSUME NEW s \in Scopes, pickScope(s)  PROVE PanelInv'
  BY <1>2, <1>7 DEF pickScope
<1>8. CASE Refresh
  <2>1. shown' = Loading /\ reads' = {Call(scope)} /\ UNCHANGED <<scope, picked, asked>>
    BY <1>0, <1>8, LoadFact DEF Refresh
  <2>. QED  BY <1>0, <2>1, LoadFact DEF PanelInv
<1>9. ASSUME NEW c \in reads, PanelServed(c)  PROVE PanelInv'
  <2>1. reads' = {[c EXCEPT !.got = Diff(c.scope)]} /\ c \in Calls
        /\ UNCHANGED <<scope, picked, shown, asked, astray>>
    BY <1>9, OneRead DEF PanelServed
  <2>2. [c EXCEPT !.got = Diff(c.scope)].scope = c.scope
    BY <2>1 DEF Calls
  <2>. QED  BY <1>0, <2>1, <2>2 DEF PanelInv
<1>10. ASSUME NEW c \in reads, PanelLands(c)  PROVE PanelInv'
  <2>1. /\ reads \ {c} = {} /\ (c.scope = scope \/ astray) /\ shown.at # "ready"
        /\ c.got # Unread /\ UNCHANGED <<picked, astray>>
        /\ (c.got = Unavailable <=> c.scope = "last-turn" /\ turn = Unavailable)
    BY <1>10, OneRead DEF PanelLands, PanelInv, Truthful
  <2>2. CASE FallsBack(c)
    <3>1. /\ scope' = "working-tree" /\ asked' = NoScope /\ shown' = shown
          /\ reads' \in {{}, {Call("working-tree")}}
      BY <1>10, <2>1, <2>2 DEF PanelLands
    <3>. QED  BY <2>1, <3>1, CallFact DEF PanelInv
  <2>3. CASE ~FallsBack(c)
    <3>1. /\ shown' = [at |-> "ready", scope |-> c.scope, diff |-> c.got]
          /\ reads' = {} /\ UNCHANGED <<scope, asked>>
      BY <1>10, <2>1, <2>3 DEF PanelLands
    <3>2. c.got = Unavailable => picked
      BY <2>1, <2>3 DEF FallsBack
    <3>. QED  BY <1>0, <2>1, <3>1, <3>2 DEF PanelInv
  <2>. QED  BY <2>2, <2>3
<1>11. ASSUME NEW c \in reads, PanelFails(c)  PROVE PanelInv'
  <2>1. reads' = {} /\ shown' = [Loading EXCEPT !.at = "error"]
        /\ UNCHANGED <<scope, picked, asked>>
    BY <1>11, OneRead DEF PanelFails
  <2>2. shown'.at = "error"
    BY <2>1 DEF Loading
  <2>. QED  BY <1>0, <2>1, <2>2 DEF PanelInv
<1>12. CASE ActReturns
  <2>1. UNCHANGED <<scope, picked, asked>>
    BY <1>12 DEF ActReturns
  <2>2. CASE act.by = "panel"
    <3>1. act.scope \in Scopes
      BY <2>2 DEF Types, ActTypes
    <3>2. shown' = Loading /\ reads' = {Call(act.scope)} /\ astray' = (act.scope # scope)
      BY <1>12, <2>2, <3>1, LoadFact DEF ActReturns
    <3>. QED  BY <1>0, <2>1, <3>1, <3>2, LoadFact DEF PanelInv
  <2>3. CASE act.by # "panel"
    BY <1>0, <1>12, <2>1, <2>3 DEF ActReturns, PanelInv
  <2>. QED  BY <2>2, <2>3
<1>. QED  BY <1>1, <1>5, <1>6, <1>7, <1>8, <1>9, <1>10, <1>11, <1>12, PanelRests
          DEF ReviewMoves, Panels, PanelStep, Bumps

-----------------------------------------------------------------------------
(* The three places together.                                              *)

\* What every behaviour keeps, whatever pushes and users do.
Sound == Types /\ OnePlace /\ Truthful

LEMMA Begins ==
  ASSUME ReviewInit
  PROVE  Sound /\ CardInv /\ RailInv /\ PanelInv
<1>1. work \in {0, 1} /\ turn \in {Unavailable, 0, 1} /\ latest = 1
  BY DEF ReviewInit
<1>01. news \in BOOLEAN /\ recent \in BOOLEAN /\ timer \in BOOLEAN
  BY Zenon DEF ReviewInit
<1>02. env = Unavailable /\ envReads = {Unread}
  BY Zenon DEF ReviewInit
<1>2. WorkTypes
  BY <1>1, <1>01 DEF WorkTypes, Unavailable
<1>3. CardTypes
  BY CallFact DEF ReviewInit, CardTypes
<1>4. RailTypes
  <2>1. env \in Unavailable .. latest /\ Unread \in Unread .. latest
    BY <1>1, <1>02 DEF Unavailable, Unread
  <2>. QED  BY <1>01, <1>02, <2>1 DEF RailTypes
<1>5. PanelTypes
  BY LoadFact DEF ReviewInit, PanelTypes, Scopes, Opened
<1>6. ActTypes
  BY ReviewAssumption DEF ReviewInit, ActTypes, NoAct, NoCall, Acts, Opened
<1>7. OnePlace
  BY DEF ReviewInit, OnePlace, NoAct, NoCall
<1>8. Truthful
  BY CallFact DEF ReviewInit, Truthful
<1>9. CardInv /\ RailInv
  BY CallFact DEF ReviewInit, CardInv, RailInv
<1>10. PanelInv
  <2>1. reads = {} /\ shown = Loading /\ act = NoAct /\ hint = NoScope /\ asked = NoScope
    BY Zenon DEF ReviewInit
  <2>2. shown.at # "ready" /\ act.by # "panel"
    BY <2>1 DEF Loading, NoAct, NoCall
  <2>. QED  BY <2>1, <2>2 DEF PanelInv
<1>. QED  BY <1>2, <1>3, <1>4, <1>5, <1>6, <1>7, <1>8, <1>9, <1>10 DEF Sound, Types

LEMMA SoundStays ==
  ASSUME Sound, [ReviewNext]_reviewVars
  PROVE  Sound'
<1>1. CASE UNCHANGED reviewVars
  BY <1>1 DEF Sound, Types, WorkTypes, CardTypes, RailTypes, PanelTypes, ActTypes, OnePlace,
              Truthful, reviewVars, serverVars, cardVars, railVars, panelVars, actVars
<1>2. CASE ReviewNext
  BY <1>2, Covered, WorkTyped, CardTyped, RailTyped, PanelTyped, ActTyped, PlaceStays,
     TruthStays DEF Sound, Types
<1>. QED  BY <1>1, <1>2

-----------------------------------------------------------------------------
(* The rows of a file: the types of its reads.                             *)

\* A read that a click started is for one of the file's gaps.
ReadIsOf(r, gs) == DOMAIN r = {"gap", "lines"} /\ r.gap \in DOMAIN gs
ReadsAreOfGaps ==
    /\ \E S : gapReads \in Seq(S)
    /\ \A i \in DOMAIN gapReads : ReadIsOf(gapReads[i], gaps)
FileTypes ==
    /\ DiffTypeOK /\ ReadsAreOfGaps
    /\ prefetching.at = "served" => prefetching.lines # NoBlob

LEMMA BlobIsRead == \A t : BlobOf(t) # NoBlob
<1>. TAKE t
<1>1. \A x : <<x>> # <<>>
  OBVIOUS
<1>. QED  BY <1>1 DEF BlobOf, NoBlob

LEMMA WiderSeq ==
  ASSUME NEW S, NEW T, NEW s \in Seq(S)
  PROVE  s \in Seq(S \cup T)
BY LenProperties, ElementOfSeq, IsASeq

LEMMA ReadsStay ==
  ASSUME FileTypes, DiffNext
  PROVE  ReadsAreOfGaps'
<1>. USE DEF FileTypes
<1>1. PICK S : gapReads \in Seq(S)
  BY DEF ReadsAreOfGaps
<1>2. DOMAIN gapReads = 1 .. Len(gapReads) /\ Len(gapReads) \in Nat
  BY <1>1, LenProperties
<1>3. \A i \in 1 .. Len(gapReads) : ReadIsOf(gapReads[i], gaps) /\ gapReads[i] \in S
  BY <1>1, <1>2, ElementOfSeq DEF ReadsAreOfGaps
<1>4. gaps' = gaps
  BY DEF DiffNext, ToggleGap, ReadServed, ReadLands, ReadFails, PrefetchServed, PrefetchLands,
         PrefetchFails, Rewrite, fileVars
<1>5. CASE gapReads' = gapReads
  BY <1>1, <1>2, <1>3, <1>4, <1>5 DEF ReadsAreOfGaps
<1>6. ASSUME NEW g \in DOMAIN gaps, gapReads' = Append(gapReads, [gap |-> g, lines |-> NoBlob])
      PROVE  ReadsAreOfGaps'
  <2>. DEFINE r == [gap |-> g, lines |-> NoBlob]
  <2>1. ReadIsOf(r, gaps)
    BY DEF ReadIsOf
  <2>. HIDE DEF r
  <2>2. gapReads \in Seq(S \cup {r}) /\ r \in S \cup {r}
    BY <1>1, WiderSeq
  <2>3. /\ gapReads' \in Seq(S \cup {r}) /\ Len(gapReads') = Len(gapReads) + 1
        /\ \A i \in 1 .. Len(gapReads) : gapReads'[i] = gapReads[i]
        /\ gapReads'[Len(gapReads) + 1] = r
    BY <1>6, <2>2, AppendProperties DEF r
  <2>4. DOMAIN gapReads' = 1 .. Len(gapReads) + 1
    BY <2>3, LenProperties
  <2>5. \A i \in 1 .. Len(gapReads) + 1 : i \in 1 .. Len(gapReads) \/ i = Len(gapReads) + 1
    BY <1>2
  <2>6. \A i \in 1 .. Len(gapReads) + 1 : ReadIsOf(gapReads'[i], gaps)
    BY <1>3, <2>1, <2>3, <2>5
  <2>. QED  BY <2>3, <2>4, <2>6, <1>4 DEF ReadsAreOfGaps
<1>7. ASSUME NEW i \in DOMAIN gapReads, ReadServed(i)
      PROVE  ReadsAreOfGaps'
  <2>. DEFINE r == [gapReads[i] EXCEPT !.lines = BlobOf(text)]
  <2>1. ReadIsOf(r, gaps)
    BY <1>2, <1>3 DEF ReadIsOf
  <2>2. gapReads' = [gapReads EXCEPT ![i] = r]
    BY <1>7 DEF ReadServed
  <2>. HIDE DEF r
  <2>3. gapReads \in Seq(S \cup {r}) /\ r \in S \cup {r}
    BY <1>1, WiderSeq
  <2>4. gapReads' \in Seq(S \cup {r})
    BY <1>2, <2>2, <2>3, ExceptSeq
  <2>5. \A j \in DOMAIN gapReads' :
          j \in DOMAIN gapReads /\ (gapReads'[j] = r \/ gapReads'[j] = gapReads[j])
    BY <2>2
  <2>6. \A j \in DOMAIN gapReads' : ReadIsOf(gapReads'[j], gaps)
    BY <1>2, <1>3, <2>1, <2>5
  <2>. QED  BY <2>4, <2>6, <1>4 DEF ReadsAreOfGaps
<1>8. ASSUME NEW i \in DOMAIN gapReads, gapReads' = RemoveAt(gapReads, i)
      PROVE  ReadsAreOfGaps'
  <2>1. /\ gapReads' \in Seq(S) /\ Len(gapReads') = Len(gapReads) - 1
        /\ \A j \in 1 .. (Len(gapReads) - 1) :
              gapReads'[j] = IF j < i THEN gapReads[j] ELSE gapReads[j + 1]
    BY <1>1, <1>2, <1>8, Removed
  <2>2. DOMAIN gapReads' = 1 .. (Len(gapReads) - 1)
    BY <2>1, LenProperties
  <2>3. \A j \in 1 .. (Len(gapReads) - 1) : j \in 1 .. Len(gapReads) /\ j + 1 \in 1 .. Len(gapReads)
    BY <1>2
  <2>4. \A j \in 1 .. (Len(gapReads) - 1) : ReadIsOf(gapReads'[j], gaps)
    BY <1>3, <2>1, <2>3
  <2>. QED  BY <2>1, <2>2, <2>4, <1>4 DEF ReadsAreOfGaps
<1>9. CASE \E g \in DOMAIN gaps : ToggleGap(g)
  BY <1>5, <1>6, <1>9 DEF ToggleGap
<1>10. CASE \E i \in DOMAIN gapReads : ReadServed(i) \/ ReadLands(i) \/ ReadFails(i)
  BY <1>7, <1>8, <1>10 DEF ReadLands, ReadFails
<1>11. CASE PrefetchServed \/ PrefetchLands \/ PrefetchFails \/ Rewrite
  BY <1>5, <1>11 DEF PrefetchServed, PrefetchLands, PrefetchFails, Rewrite, bodyVars
<1>. QED  BY <1>9, <1>10, <1>11 DEF DiffNext

LEMMA FileTypesStay ==
  ASSUME FileTypes, DiffNext
  PROVE  FileTypes'
<1>0. /\ DiffTypeOK /\ (prefetching.at = "served" => prefetching.lines # NoBlob) /\ ReadsAreOfGaps'
      /\ \A i \in DOMAIN gapReads : gapReads[i].gap \in DOMAIN gaps
  BY ReadsStay DEF FileTypes, ReadsAreOfGaps, ReadIsOf
<1>. USE <1>0, DiffBodyAssumption DEF FileTypes, DiffTypeOK, fileVars
<1>1. CASE \E g \in DOMAIN gaps : ToggleGap(g)
  <2>1. PICK g \in DOMAIN gaps : ToggleGap(g)
    BY <1>1
  <2>. QED  BY <2>1 DEF ToggleGap, DiffSpend
<1>2. CASE \E i \in DOMAIN gapReads : ReadServed(i)
  BY <1>2 DEF ReadServed
<1>3. CASE \E i \in DOMAIN gapReads : ReadLands(i)
  <2>1. PICK i \in DOMAIN gapReads : ReadLands(i)
    BY <1>3
  <2>2. prefetching' = NoRead /\ NoRead.at = "none"
    BY <2>1 DEF ReadLands, NoRead
  <2>. QED  BY <2>1, <2>2 DEF ReadLands
<1>4. CASE \E i \in DOMAIN gapReads : ReadFails(i)
  <2>1. PICK i \in DOMAIN gapReads : ReadFails(i)
    BY <1>4
  <2>2. prefetching' = NoRead /\ NoRead.at = "none"
    BY <2>1 DEF ReadFails, NoRead
  <2>. QED  BY <2>1, <2>2 DEF ReadFails, DiffSpend
<1>5. CASE PrefetchServed
  <2>1. prefetching'.at = "served" /\ prefetching'.lines # NoBlob
    BY <1>5, BlobIsRead DEF PrefetchServed
  <2>. QED  BY <1>5, <2>1 DEF PrefetchServed
<1>6. CASE PrefetchLands
  <2>1. prefetching' = NoRead /\ NoRead.at = "none" /\ blob' # NoBlob
    BY <1>6 DEF PrefetchLands, NoRead
  <2>. QED  BY <1>6, <2>1 DEF PrefetchLands
<1>8. CASE PrefetchFails
  <2>1. prefetching' = NoRead /\ NoRead.at = "none"
    BY <1>8 DEF PrefetchFails, NoRead
  <2>. QED  BY <1>8, <2>1 DEF PrefetchFails, DiffSpend
<1>7. CASE Rewrite
  BY <1>7 DEF Rewrite, bodyVars, DiffSpend
<1>. QED  BY <1>1, <1>2, <1>3, <1>4, <1>5, <1>6, <1>7, <1>8 DEF DiffNext
-----------------------------------------------------------------------------
(* The viewport.                                                           *)

Heights ==
    /\ maxTop \in 0 .. MaxTop /\ top \in 0 .. maxTop /\ lastTop \in Nat /\ unseen \in Nat
    /\ stored \in Nat \cup {AtTail} /\ left \in Nat \cup {AtTail}
Flags ==
    /\ stick \in BOOLEAN /\ showJump \in BOOLEAN /\ moved \in BOOLEAN /\ reading \in BOOLEAN
Stages ==
    /\ view \in {"away", "loading", "open"} /\ gesture \in {"none", "up"}
    /\ owed \in [added : 0 .. 1, sent : BOOLEAN] /\ scrollSteps \in 0 .. ScrollSteps
ScrollTypes == Heights /\ Flags /\ Stages

\* What the reader may rely on when gestures, movements and their events take
\* their turns.
Calm == ~Races /\ ~Keys /\ ~Native /\ ~Nudges /\ ~Hasty
\* The handler knows the place, unless a scroll event is on its way.
Told == ~moved => top = lastTop
\* A page that is not open has nothing to scroll, and what it was left with.
Unopened == view # "open" =>
    /\ top = 0 /\ lastTop = 0 /\ maxTop = 0 /\ gesture = "none" /\ stick /\ ~reading /\ ~moved
    /\ stored = left /\ (view = "away" => owed = NoEffects)
\* Who follows is at the tail.
Follows == stick => NearBottom(top) /\ top >= lastTop /\ gesture = "none"
\* Who reads is not: from the gesture to the movement that brings him back.
Reads ==
    /\ reading => view = "open" /\ ~stick
    /\ gesture = "up" => reading /\ top <= lastTop /\ ~owed.sent
    /\ reading /\ gesture = "none" => ~NearBottom(top)
    /\ reading /\ Arriving => ~NearBottom(top)
\* One who neither reads nor is followed has come to the tail just now.
Returns == view = "open" /\ ~reading /\ ~stick => moved /\ top > lastTop /\ NearBottom(top)
\* The place in session storage is the one on the screen.
Remembers == view = "open" /\ ~moved /\ gesture = "none" =>
    stored = IF NearBottom(top) THEN AtTail ELSE top
ReaderInv == ScrollTypes /\ Told /\ Unopened /\ Follows /\ Reads /\ Returns /\ Remembers

USE DEF AtTail

LEMMA ScrollBounds ==
  /\ Near \in Nat /\ Near > 0 /\ MaxTop \in Nat /\ ScrollSteps \in Nat
BY ScrollAssumption

LEMMA HeightsStay ==
  ASSUME ScrollTypes, ScrollNext
  PROVE  Heights'
<1>. USE ScrollBounds DEF ScrollTypes, Heights, Stages, Least
<1>1. CASE \E d \in -1 .. 2, n \in 0 .. 1, rendered \in {TRUE, ~Native} :
              RenderRows(d, n, rendered)
  BY <1>1 DEF RenderRows, Layout, ScrollSpend
<1>2. CASE RenderSend
  BY <1>2 DEF RenderSend, Layout, ScrollSpend
<1>3. CASE Effects
  BY <1>3 DEF Effects, Follow, ScrollTo
<1>4. CASE onScroll
  <2>1. (lastTop' = top \/ lastTop' = lastTop) /\ (unseen' = 0 \/ unseen' = unseen)
    BY <1>4, Zenon DEF onScroll
  <2>2. stored' = AtTail \/ stored' = top \/ stored' = stored
    BY <1>4, Zenon DEF onScroll
  <2>. QED  BY <1>4, <2>1, <2>2 DEF onScroll
<1>5. CASE GestureUp
  BY <1>5 DEF GestureUp, releaseStick, ScrollSpend
<1>6. CASE BrowserMovesUp
  BY <1>6 DEF BrowserMovesUp, MoveTo, ScrollSpend
<1>7. CASE ReaderMovesDown
  BY <1>7 DEF ReaderMovesDown, MoveTo, ScrollSpend
<1>8. CASE jumpToBottom
  BY <1>8 DEF jumpToBottom, Follow, ScrollTo, ScrollSpend
<1>9. CASE Leave
  BY <1>9 DEF Leave, ScrollSpend
<1>10. CASE Enter
  BY <1>10 DEF Enter
<1>11. CASE Loaded
  BY <1>11 DEF Loaded, Restore, ScrollTo
<1>. QED  BY <1>1, <1>2, <1>3, <1>4, <1>5, <1>6, <1>7, <1>8, <1>9, <1>10, <1>11 DEF ScrollNext

LEMMA FlagsStay ==
  ASSUME Flags, ScrollNext
  PROVE  Flags'
<1>. USE DEF Flags
<1>1. CASE \E d \in -1 .. 2, n \in 0 .. 1, rendered \in {TRUE, ~Native} :
              RenderRows(d, n, rendered)
  BY <1>1, Zenon DEF RenderRows, Layout, ScrollSpend
<1>2. CASE RenderSend
  BY <1>2, Zenon DEF RenderSend, Layout, ScrollSpend
<1>3. CASE Effects
  BY <1>3, Zenon DEF Effects, Follow, ScrollTo
<1>4. CASE onScroll
  BY <1>4, Zenon DEF onScroll
<1>5. CASE GestureUp
  BY <1>5, Zenon DEF GestureUp, releaseStick, ScrollSpend
<1>6. CASE BrowserMovesUp
  BY <1>6, Zenon DEF BrowserMovesUp, MoveTo, ScrollSpend
<1>7. CASE ReaderMovesDown
  BY <1>7, Zenon DEF ReaderMovesDown, MoveTo, ScrollSpend
<1>8. CASE jumpToBottom
  BY <1>8, Zenon DEF jumpToBottom, Follow, ScrollTo, ScrollSpend
<1>9. CASE Leave
  BY <1>9, Zenon DEF Leave, ScrollSpend
<1>10. CASE Enter
  BY <1>10, Zenon DEF Enter
<1>11. CASE Loaded
  BY <1>11, Zenon DEF Loaded, Restore, ScrollTo
<1>. QED  BY <1>1, <1>2, <1>3, <1>4, <1>5, <1>6, <1>7, <1>8, <1>9, <1>10, <1>11 DEF ScrollNext

LEMMA StagesStay ==
  ASSUME Stages, ScrollNext
  PROVE  Stages'
<1>. USE ScrollBounds DEF Stages, NoEffects
<1>1. CASE \E d \in -1 .. 2, n \in 0 .. 1, rendered \in {TRUE, ~Native} :
              RenderRows(d, n, rendered)
  <2>1. PICK d \in -1 .. 2, n \in 0 .. 1, rendered \in {TRUE, ~Native} :
              RenderRows(d, n, rendered)
    BY <1>1
  <2>2. owed' \in [added : 0 .. 1, sent : BOOLEAN]
    BY <2>1 DEF RenderRows
  <2>. QED  BY <2>1, <2>2 DEF RenderRows, ScrollSpend
<1>2. CASE RenderSend
  BY <1>2 DEF RenderSend, Layout, ScrollSpend
<1>3. CASE Effects
  BY <1>3 DEF Effects, Follow, ScrollTo
<1>4. CASE onScroll
  BY <1>4 DEF onScroll
<1>5. CASE GestureUp
  BY <1>5 DEF GestureUp, releaseStick, ScrollSpend
<1>6. CASE BrowserMovesUp
  BY <1>6 DEF BrowserMovesUp, MoveTo, ScrollSpend
<1>7. CASE ReaderMovesDown
  BY <1>7 DEF ReaderMovesDown, MoveTo, ScrollSpend
<1>8. CASE jumpToBottom
  BY <1>8 DEF jumpToBottom, Follow, ScrollTo, ScrollSpend
<1>9. CASE Leave
  BY <1>9 DEF Leave, ScrollSpend
<1>10. CASE Enter
  BY <1>10 DEF Enter
<1>11. CASE Loaded
  BY <1>11 DEF Loaded, Restore, ScrollTo
<1>. QED  BY <1>1, <1>2, <1>3, <1>4, <1>5, <1>6, <1>7, <1>8, <1>9, <1>10, <1>11 DEF ScrollNext

LEMMA OfferStays ==
  ASSUME ScrollTypes, JumpIsOffered, ScrollNext
  PROVE  JumpIsOffered'
<1>. USE DEF JumpIsOffered, ScrollTypes
<1>1. CASE (\E d \in -1 .. 2, n \in 0 .. 1, rendered \in {TRUE, ~Native} :
              RenderRows(d, n, rendered)) \/ RenderSend
  BY <1>1 DEF RenderRows, RenderSend
<1>3. CASE Effects
  BY <1>3 DEF Effects, Follow, ScrollTo
<1>4. CASE onScroll
  <2>1. CASE view = "open"
    <3>1. showJump' <=> ~stick'
      BY <1>4, <2>1, Zenon DEF onScroll
    <3>2. unseen' > 0 => ~NearBottom(top) /\ unseen' = unseen
      BY <1>4, <2>1 DEF onScroll
    <3>3. ~NearBottom(top) => stick' = FALSE \/ stick' = stick
      BY <1>4, <2>1, Zenon DEF onScroll
    <3>. QED  BY <3>1, <3>2, <3>3
  <2>. QED  BY <1>4, <2>1 DEF onScroll
<1>5. CASE GestureUp
  BY <1>5 DEF GestureUp, releaseStick
<1>6. CASE BrowserMovesUp \/ ReaderMovesDown
  BY <1>6 DEF BrowserMovesUp, ReaderMovesDown, MoveTo
<1>7. CASE jumpToBottom
  BY <1>7 DEF jumpToBottom, Follow
<1>8. CASE Leave \/ Enter
  BY <1>8 DEF Leave, Enter
<1>9. CASE Loaded
  BY <1>9 DEF Loaded, Restore
<1>. QED  BY <1>1, <1>3, <1>4, <1>5, <1>6, <1>7, <1>8, <1>9 DEF ScrollNext

LEMMA Laid ==
  ASSUME NEW m, Flags, Layout(m)
  PROVE  /\ stick => top' = m /\ lastTop' = m /\ (moved' <=> moved \/ m # top)
         /\ ~stick => top' = Least(top, m) /\ lastTop' = lastTop
                     /\ (moved' <=> moved \/ m < top)
BY Zenon DEF Layout, Flags

\* What the handler of scroll events makes of a movement.
LEMMA Handled ==
  ASSUME Flags, onScroll, view = "open"
  PROVE  /\ top < lastTop => ~stick'
         /\ top > lastTop /\ NearBottom(top) /\ ~(top < lastTop) => stick'
         /\ ~(top < lastTop) /\ ~(top > lastTop /\ NearBottom(top)) => stick' = stick
         /\ NearBottom(top) => stored' = AtTail
         /\ ~NearBottom(top) => stored' = top
         /\ lastTop' = top /\ moved' = FALSE
         /\ UNCHANGED <<view, maxTop, top, owed, gesture, reading, left>>
BY Zenon DEF onScroll, Flags

\* Where a page that has its first rows begins.
LEMMA Restored ==
  ASSUME ScrollTypes, Unopened, Loaded
  PROVE  /\ view' = "open" /\ maxTop' \in Nat /\ left' = left /\ gesture' = "none"
         /\ owed' = NoEffects /\ lastTop' = top' /\ (reading' <=> ~stick')
         /\ left # AtTail /\ maxTop' - left >= Near =>
               top' = left /\ ~stick' /\ stored' = left
         /\ ~(left # AtTail /\ maxTop' - left >= Near) =>
               top' = maxTop' /\ stick' /\ stored' = AtTail
<1>. USE ScrollBounds DEF ScrollTypes, Heights, Flags, Stages, Unopened
<1>1. PICK m \in 0 .. MaxTop : maxTop' = m /\ Restore(m)
  BY DEF Loaded
<1>2. CASE left # AtTail /\ m - left >= Near
  <2>1. ScrollTo(Least(left, m)) /\ stick' = FALSE /\ UNCHANGED stored
    BY <1>1, <1>2 DEF Restore, Loaded
  <2>2. Least(left, m) = left
    BY <1>2 DEF Least
  <2>3. top' = left /\ lastTop' = left /\ ~stick' /\ stored' = left
    BY <2>1, <2>2 DEF ScrollTo, Loaded
  <2>4. reading' <=> ~stick'
    BY Zenon DEF Loaded
  <2>. QED  BY <1>1, <1>2, <2>3, <2>4 DEF Loaded
<1>3. CASE ~(left # AtTail /\ m - left >= Near)
  <2>1. ScrollTo(m) /\ stick' = stick /\ stored' = AtTail
    BY <1>1, <1>3 DEF Restore, Loaded
  <2>. QED  BY <1>1, <1>3, <2>1 DEF Loaded, ScrollTo
<1>. QED  BY <1>2, <1>3

\* What is at the tail, for any two places.
LEMMA Near0 ==
  \A m, t \in Nat : /\ t = m => m - t < Near
                    /\ m - t >= Near <=> ~(m - t < Near)
                    /\ t = m => t >= m /\ ~(t > m)
BY ScrollBounds

LEMMA ReaderStays ==
  ASSUME Calm, ReaderInv, ScrollNext, ScrollTypes'
  PROVE  ReaderInv'
<1>. USE ScrollBounds DEF Calm, ReaderInv, ScrollTypes, Heights, Flags, Stages, Told, Unopened,
         Follows, Reads, Returns, Remembers, NearBottom, Arriving, NoEffects, Least
<1>0. /\ maxTop' \in Nat /\ top' \in Nat /\ lastTop' \in Nat /\ Near \in Nat
      /\ maxTop \in Nat /\ top \in Nat /\ lastTop \in Nat
  OBVIOUS
<1>. USE <1>0
<1>1. CASE \E d \in -1 .. 2, n \in 0 .. 1, rendered \in {TRUE, ~Native} :
              RenderRows(d, n, rendered)
  <2>0. PICK d \in -1 .. 2, n \in 0 .. 1 : RenderRows(d, n, TRUE)
    BY <1>1
  <2>1. Told'
    BY <2>0 DEF RenderRows, Layout
  <2>2. Unopened'
    BY <2>0 DEF RenderRows, Layout
  <2>3. Follows'
    BY <2>0 DEF RenderRows, Layout
  <2>4. Reads'
    BY <2>0 DEF RenderRows, Layout
  <2>5. Returns'
    BY <2>0, Laid DEF RenderRows
  <2>6. Remembers'
    BY <2>0 DEF RenderRows, Layout
  <2>. QED  BY <2>1, <2>2, <2>3, <2>4, <2>5, <2>6
<1>2. CASE RenderSend
  <2>0. CASE view = "open"
    <3>. DEFINE m == Least(maxTop + 1, MaxTop)
    <3>1. /\ maxTop' = m /\ Layout(maxTop') /\ owed'.sent /\ gesture = "none" /\ ~Arriving
          /\ UNCHANGED <<view, stick, showJump, unseen, stored, gesture, reading, left>>
      BY <1>2, <2>0 DEF RenderSend
    <3>2. /\ stick => top' = maxTop' /\ lastTop' = maxTop' /\ (moved' <=> moved \/ maxTop' # top)
          /\ ~stick => top' = Least(top, maxTop') /\ lastTop' = lastTop
                      /\ (moved' <=> moved \/ maxTop' < top)
      BY <3>1, Laid
    <3>3. CASE stick
      <4>1. top' = maxTop' /\ lastTop' = maxTop' /\ NearBottom(top)'
        BY <3>2, <3>3, Near0
      <4>2. Told'
        BY <2>0, <3>1, <3>3, <4>1, Near0
      <4>3. Unopened'
        BY <2>0, <3>1, <3>3, <4>1, Near0
      <4>4. Follows'
        BY <2>0, <3>1, <3>3, <4>1, Near0
      <4>5. Reads'
        BY <2>0, <3>1, <3>3, <4>1, Near0
      <4>6. Returns'
        BY <2>0, <3>1, <3>3, <4>1, Near0
      <4>7. Remembers'
        <5>1. moved => moved'
          BY <3>2, <3>3
        <5>2. ~moved => stored = AtTail
          BY <2>0, <3>1, <3>3
        <5>. QED  BY <3>1, <4>1, <5>1, <5>2
      <4>. QED  BY <4>2, <4>3, <4>4, <4>5, <4>6, <4>7
    <3>4. CASE ~stick
      <4>1. maxTop <= maxTop' /\ top' = top /\ lastTop' = lastTop /\ (moved' <=> moved)
        BY <3>1, <3>2, <3>4
      <4>2. Told'
        BY <2>0, <3>1, <3>4, <4>1, Near0
      <4>3. Unopened'
        BY <2>0, <3>1, <3>4, <4>1, Near0
      <4>4. Follows'
        BY <2>0, <3>1, <3>4, <4>1, Near0
      <4>5. Reads'
        BY <2>0, <3>1, <3>4, <4>1, Near0
      <4>6. Returns'
        BY <2>0, <3>1, <3>4, <4>1, Near0
      <4>7. Remembers'
        BY <2>0, <3>1, <3>4, <4>1, Near0
      <4>. QED  BY <4>2, <4>3, <4>4, <4>5, <4>6, <4>7
    <3>. QED  BY <3>3, <3>4
  <2>1. CASE view # "open"
    BY <1>2, <2>1 DEF RenderSend
  <2>. QED  BY <2>0, <2>1
<1>3. CASE Effects
  <2>0. CASE owed.sent
    BY <1>3, <2>0 DEF Effects, Follow, ScrollTo
  <2>1. CASE ~owed.sent
    BY <1>3, <2>1 DEF Effects
  <2>. QED  BY <2>0, <2>1
<1>4. CASE onScroll
  <2>0. moved /\ view = "open"
    BY <1>4 DEF onScroll
  <2>. QED  BY <1>4, <2>0, Handled
<1>5. CASE GestureUp
  <2>1. Told'
    BY <1>5 DEF GestureUp, releaseStick
  <2>2. Unopened'
    BY <1>5 DEF GestureUp, releaseStick
  <2>3. Follows'
    BY <1>5 DEF GestureUp, releaseStick
  <2>4. Reads'
    BY <1>5 DEF GestureUp, releaseStick
  <2>5. Returns'
    BY <1>5 DEF GestureUp, releaseStick
  <2>6. Remembers'
    BY <1>5 DEF GestureUp, releaseStick
  <2>. QED  BY <2>1, <2>2, <2>3, <2>4, <2>5, <2>6
<1>6. CASE BrowserMovesUp
  <2>1. Told'
    BY <1>6 DEF BrowserMovesUp, MoveTo
  <2>2. Unopened'
    BY <1>6 DEF BrowserMovesUp, MoveTo
  <2>3. Follows'
    BY <1>6 DEF BrowserMovesUp, MoveTo
  <2>4. Reads'
    BY <1>6 DEF BrowserMovesUp, MoveTo
  <2>5. Returns'
    BY <1>6 DEF BrowserMovesUp, MoveTo
  <2>6. Remembers'
    BY <1>6 DEF BrowserMovesUp, MoveTo
  <2>. QED  BY <2>1, <2>2, <2>3, <2>4, <2>5, <2>6
<1>7. CASE ReaderMovesDown
  <2>1. Told'
    BY <1>7 DEF ReaderMovesDown, MoveTo
  <2>2. Unopened'
    BY <1>7 DEF ReaderMovesDown, MoveTo
  <2>3. Follows'
    BY <1>7 DEF ReaderMovesDown, MoveTo
  <2>4. Reads'
    BY <1>7 DEF ReaderMovesDown, MoveTo
  <2>5. Returns'
    BY <1>7 DEF ReaderMovesDown, MoveTo
  <2>6. Remembers'
    BY <1>7 DEF ReaderMovesDown, MoveTo
  <2>. QED  BY <2>1, <2>2, <2>3, <2>4, <2>5, <2>6
<1>8. CASE jumpToBottom
  <2>1. Told'
    BY <1>8 DEF jumpToBottom, Follow, ScrollTo
  <2>2. Unopened'
    BY <1>8 DEF jumpToBottom, Follow, ScrollTo
  <2>3. Follows'
    BY <1>8 DEF jumpToBottom, Follow, ScrollTo
  <2>4. Reads'
    BY <1>8 DEF jumpToBottom, Follow, ScrollTo
  <2>5. Returns'
    BY <1>8 DEF jumpToBottom, Follow, ScrollTo
  <2>6. Remembers'
    BY <1>8 DEF jumpToBottom, Follow, ScrollTo
  <2>. QED  BY <2>1, <2>2, <2>3, <2>4, <2>5, <2>6
<1>9. CASE Leave
  <2>1. Told'
    BY <1>9 DEF Leave
  <2>2. Unopened'
    BY <1>9 DEF Leave
  <2>3. Follows'
    BY <1>9 DEF Leave
  <2>4. Reads'
    BY <1>9 DEF Leave
  <2>5. Returns'
    BY <1>9 DEF Leave
  <2>6. Remembers'
    BY <1>9 DEF Leave
  <2>. QED  BY <2>1, <2>2, <2>3, <2>4, <2>5, <2>6
<1>10. CASE Enter
  <2>1. Told'
    BY <1>10 DEF Enter
  <2>2. Unopened'
    BY <1>10 DEF Enter
  <2>3. Follows'
    BY <1>10 DEF Enter
  <2>4. Reads'
    BY <1>10 DEF Enter
  <2>5. Returns'
    BY <1>10 DEF Enter
  <2>6. Remembers'
    BY <1>10 DEF Enter
  <2>. QED  BY <2>1, <2>2, <2>3, <2>4, <2>5, <2>6
<1>11. CASE Loaded
  <2>1. /\ view' = "open" /\ left' = left /\ gesture' = "none" /\ owed' = NoEffects
        /\ lastTop' = top' /\ (reading' <=> ~stick')
    BY <1>11, Restored
  <2>2. CASE left # AtTail /\ maxTop' - left >= Near
    <3>1. top' = left /\ ~stick' /\ stored' = left
      BY <1>11, <2>2, Restored
    <3>3. maxTop' - top' >= Near
      BY <3>1, <2>2
    <3>2. ~NearBottom(top)'
      BY <3>3, Near0
    <3>. QED  BY <2>1, <3>1, <3>2
  <2>3. CASE ~(left # AtTail /\ maxTop' - left >= Near)
    <3>1. top' = maxTop' /\ stick' /\ stored' = AtTail
      BY <1>11, <2>3, Restored
    <3>2. NearBottom(top)'
      BY <3>1, Near0
    <3>3. Told'
      BY <2>1, <3>1, <3>2, Near0
    <3>4. Unopened'
      BY <2>1, <3>1, <3>2, Near0
    <3>5. Follows'
      BY <2>1, <3>1, <3>2, Near0
    <3>6. Reads'
      BY <2>1, <3>1, <3>2, Near0
    <3>7. Returns'
      BY <2>1, <3>1, <3>2, Near0
    <3>8. Remembers'
      BY <2>1, <3>1, <3>2, Near0
    <3>. QED  BY <3>3, <3>4, <3>5, <3>6, <3>7, <3>8
  <2>. QED  BY <2>2, <2>3
<1>. QED  BY <1>1, <1>2, <1>3, <1>4, <1>5, <1>6, <1>7, <1>8, <1>9, <1>10, <1>11 DEF ScrollNext

LEMMA ReaderKept ==
  ASSUME Calm, ReaderInv, ScrollNext
  PROVE  RenderKeepsReader /\ PlaceIsFound
<1>. USE ScrollBounds DEF Calm, ReaderInv, ScrollTypes, Told, Unopened, Follows, Reads, Returns,
         NearBottom, Arriving, Least
<1>1. RenderKeepsReader
  BY DEF RenderKeepsReader, RenderFeed, RenderRows, RenderSend, Layout
<1>2. PlaceIsFound
  <2>. SUFFICES ASSUME view = "loading", view' = "open" PROVE PlaceIsFound
    BY DEF PlaceIsFound
  <2>1. Loaded
    BY DEF ScrollNext, RenderRows, RenderSend, Effects, onScroll, GestureUp, BrowserMovesUp,
           ReaderMovesDown, MoveTo, jumpToBottom, Leave, Enter
  <2>. QED  BY <2>1, Restored DEF PlaceIsFound
<1>. QED  BY <1>1, <1>2

-----------------------------------------------------------------------------
(* The theorems.                                                           *)

LEMMA ScrollBegins ==
  ASSUME ScrollInit
  PROVE  ReaderInv /\ JumpIsOffered
<1>. USE ScrollBounds DEF ScrollInit
<1>1. owed \in [added : 0 .. 1, sent : BOOLEAN]
  BY DEF NoEffects
<1>2. Flags
  BY Zenon DEF Flags
<1>3. ScrollTypes
  BY <1>1, <1>2 DEF ScrollTypes, Heights, Stages
<1>4. Told /\ Unopened /\ Follows /\ Reads /\ Returns /\ Remembers
  BY DEF Told, Unopened, Follows, NearBottom, Reads, Returns, Remembers, Arriving
<1>. QED  BY <1>3, <1>4 DEF ReaderInv, JumpIsOffered

LEMMA FileBegins ==
  ASSUME DiffInit
  PROVE  FileTypes
<1>1. ReadsAreOfGaps
  <2>1. gapReads = <<>>
    BY DEF DiffInit
  <2>2. <<>> \in Seq({}) /\ DOMAIN <<>> = {}
    OBVIOUS
  <2>3. gapReads \in Seq({}) /\ \A i \in DOMAIN gapReads : FALSE
    BY <2>1, <2>2
  <2>4. \E S : gapReads \in Seq(S)
    BY <2>3
  <2>. QED  BY <2>3, <2>4 DEF ReadsAreOfGaps
<1>2. prefetching.at \in {"none", "asked"}
  BY DEF DiffInit, NoRead, Asked
<1>3. /\ status \in {"modified", "added", "deleted"} /\ open = {} /\ loadingIdx = 0
      /\ diffSteps = 0
  BY DEF DiffInit
<1>4. blobFailed \in BOOLEAN
  BY Zenon DEF DiffInit
<1>5. DiffTypeOK
  BY <1>2, <1>3, <1>4, DiffBodyAssumption DEF DiffTypeOK
<1>. QED  BY <1>1, <1>2, <1>5 DEF FileTypes

\* A behaviour is one of the three parts, and leaves the others as they are.
LEMMA PartsMove ==
  ASSUME [MCNext]_mcvars
  PROVE  [ReviewNext]_reviewVars /\ [DiffNext]_diffVars /\ [ScrollNext]_scrollVars
<1>1. CASE MCNext
  BY <1>1 DEF MCNext, OnScreens, OnFile, OnViewport
<1>2. CASE UNCHANGED mcvars
  BY <1>2 DEF mcvars
<1>. QED  BY <1>1, <1>2

LEMMA PartsBegin ==
  ASSUME MCInit
  PROVE  ReviewInit /\ DiffInit /\ ScrollInit
BY DEF MCInit

LEMMA ScrollTypesStay ==
  ASSUME ScrollTypes, JumpIsOffered, [ScrollNext]_scrollVars
  PROVE  ScrollTypes' /\ JumpIsOffered'
<1>1. CASE ScrollNext
  BY <1>1, HeightsStay, FlagsStay, StagesStay, OfferStays DEF ScrollTypes
<1>2. CASE UNCHANGED scrollVars
  BY <1>2 DEF scrollVars, ScrollTypes, Heights, Flags, Stages, JumpIsOffered
<1>. QED  BY <1>1, <1>2

LEMMA FileStays ==
  ASSUME FileTypes, [DiffNext]_diffVars
  PROVE  FileTypes'
<1>1. CASE DiffNext
  BY <1>1, FileTypesStay
<1>2. CASE UNCHANGED diffVars
  BY <1>2 DEF diffVars, fileVars, bodyVars, FileTypes, DiffTypeOK, ReadsAreOfGaps
<1>. QED  BY <1>1, <1>2

LEMMA OneAtMost == \A S : S = {} \/ (\E x : S = {x}) => Cardinality(S) <= 1
<1>1. Cardinality({}) = 0
  BY FS_EmptySet
<1>2. \A x : Cardinality({x}) = 1
  BY FS_Singleton
<1>3. \A S : S = {} \/ (\E x : S = {x}) => Cardinality(S) = 0 \/ Cardinality(S) = 1
  BY <1>1, <1>2, Zenon
<1>. QED  BY <1>3

\* Every variable of the page keeps its type, nothing is read for a panel that
\* is gone, and a band is open only when the file was read.
THEOREM ReviewTyped == MCSpec => []MCTypeOK
<1>. DEFINE Inv == Sound /\ FileTypes /\ ScrollTypes /\ JumpIsOffered
<1>1. MCInit => Inv
  BY PartsBegin, Begins, FileBegins, ScrollBegins DEF ReaderInv
<1>2. Inv /\ [MCNext]_mcvars => Inv'
  BY PartsMove, SoundStays, FileStays, ScrollTypesStay
<1>3. Inv => MCTypeOK
  <2>. SUFFICES ASSUME Inv PROVE MCTypeOK
    OBVIOUS
  <2>1. Cardinality(envReads) <= 1
    BY OneAtMost DEF Sound, Types, RailTypes
  <2>2. Cardinality(reads) <= 1
    BY OneAtMost DEF Sound, Types, PanelTypes
  <2>3. ReviewTypeOK
    BY <2>1, <2>2 DEF Sound, Types, WorkTypes, CardTypes, RailTypes, PanelTypes,
                      ActTypes, OnePlace, ReviewTypeOK
  <2>4. ScrollTypeOK
    <3>1. {stick, showJump, moved, reading} \subseteq BOOLEAN
      BY Zenon DEF ScrollTypes, Flags
    <3>2. maxTop \in Nat /\ top \in Nat /\ top <= maxTop
      BY ScrollBounds DEF ScrollTypes, Heights
    <3>. QED  BY <3>1, <3>2 DEF ScrollTypeOK, ScrollTypes, Heights, Stages
  <2>. QED  BY <2>3, <2>4 DEF FileTypes, MCTypeOK
<1>. QED  BY <1>1, <1>2, <1>3, PTL DEF MCSpec

\* Once no event and no read is on its way, card and rail state what the
\* workspace holds, whatever failed before or after git changed it: but for what
\* an action changed that has not returned, or failed after the change, until
\* the place reads again (bumpWorkspaceEpoch).
THEOREM QuietIsTrue == MCSpec => []QuietScreensAreTrue
<1>. DEFINE Inv == Sound /\ CardInv /\ RailInv
<1>1. MCInit => Inv
  BY PartsBegin, Begins
<1>2. Inv /\ [MCNext]_mcvars => Inv'
  <2>. SUFFICES ASSUME Inv, [ReviewNext]_reviewVars PROVE Inv'
    BY PartsMove
  <2>1. CASE UNCHANGED reviewVars
    BY <2>1, SoundStays DEF CardInv, RailInv, Dirty, CardClaim, reviewVars, serverVars,
                            cardVars, railVars, actVars
  <2>2. CASE ReviewNext
    BY <2>2, Covered, SoundStays, CardStays, RailStays DEF Sound
  <2>. QED  BY <2>1, <2>2
<1>3. ASSUME Inv  PROVE QuietScreensAreTrue
  <2>. SUFFICES ASSUME ~news
                PROVE  /\ "card" \notin untold /\ cardCall = NoCardCall /\ phase = "ready" =>
                              card = CardClaim
                       /\ "rail" \notin untold /\ envReads = {} /\ ~timer /\ env # Unavailable =>
                              env = work
    BY DEF QuietScreensAreTrue
  <2>1. "card" \notin untold => ~Dirty("card")
    BY DEF Dirty
  <2>2. "rail" \notin untold => ~Dirty("rail")
    BY DEF Dirty
  <2>3. cardCall = NoCardCall => ~rerun /\ cardCall.scope = NoScope
    BY <1>3 DEF CardInv, NoCardCall
  <2>4. "card" \notin untold /\ cardCall = NoCardCall /\ phase = "ready" => card = CardClaim
    BY <1>3, <2>1, <2>3 DEF CardInv, NoScope
  <2>5. "rail" \notin untold /\ envReads = {} /\ ~timer /\ env # Unavailable => env = work
    BY <1>3, <2>2 DEF RailInv
  <2>. QED  BY <2>4, <2>5
<1>. QED  BY <1>1, <1>2, <1>3, PTL DEF MCSpec

\* The panel shows the diff of the scope its toolbar names, unless what it loaded
\* last is the reload of an action during which its scope was changed; it says
\* unavailable only to who asked, and stays on the scope it heard the card claim
\* until the user picks another.
THEOREM ScopeIsKept == MCSpec => []PanelKeepsItsScope
<1>. DEFINE Inv == Sound /\ PanelInv
<1>1. MCInit => Inv
  BY PartsBegin, Begins
<1>2. Inv /\ [MCNext]_mcvars => Inv'
  <2>. SUFFICES ASSUME Inv, [ReviewNext]_reviewVars PROVE Inv'
    BY PartsMove
  <2>1. CASE UNCHANGED reviewVars
    BY <2>1, SoundStays DEF PanelInv, reviewVars, serverVars, panelVars
  <2>2. CASE ReviewNext
    BY <2>2, Covered, SoundStays, PanelStays DEF Sound
  <2>. QED  BY <2>1, <2>2
<1>3. Inv => PanelKeepsItsScope
  BY DEF PanelInv, PanelKeepsItsScope
<1>. QED  BY <1>1, <1>2, <1>3, PTL DEF MCSpec

\* Both.
THEOREM ScreensTrue == MCSpec => []ScreensAreTrue
<1>1. QuietScreensAreTrue /\ PanelKeepsItsScope => ScreensAreTrue
  BY DEF ScreensAreTrue
<1>. QED  BY <1>1, QuietIsTrue, ScopeIsKept, PTL

\* A step that leaves the viewport alone moves nobody.
LEMMA StillKept ==
  ASSUME ReaderInv, UNCHANGED scrollVars
  PROVE  RenderKeepsReader /\ PlaceIsFound
<1>1. ~RenderFeed
  <2>1. scrollSteps \in Int /\ owed' = owed
    BY ScrollBounds DEF ReaderInv, ScrollTypes, Stages, scrollVars
  <2>2. scrollSteps' # scrollSteps + 1
    BY <2>1 DEF scrollVars
  <2>. QED  BY <2>2 DEF RenderFeed, RenderRows, RenderSend, ScrollSpend
<1>2. view' = view
  BY DEF scrollVars
<1>. QED  BY <1>1, <1>2 DEF RenderKeepsReader, PlaceIsFound

\* A reader of older rows is not moved by what is rendered and finds his place
\* again, one who follows is at the tail after every render, and the jump is
\* offered just to the former, where gestures, movements and their events take
\* turns with renders (useTimelineScrollController).
THEOREM PlaceKept == Calm => (MCSpec => ReaderKeepsPlace)
<1>. SUFFICES ASSUME Calm PROVE MCSpec => ReaderKeepsPlace
  OBVIOUS
<1>. DEFINE Inv == ReaderInv /\ JumpIsOffered
            Kept == RenderKeepsReader /\ PlaceIsFound /\ JumpIsOffered'
<1>1. MCInit => Inv
  BY PartsBegin, ScrollBegins
<1>2. Inv /\ [MCNext]_mcvars => Inv'
  <2>. SUFFICES ASSUME Inv, [MCNext]_mcvars PROVE Inv'
    OBVIOUS
  <2>1. CASE ScrollNext
    BY <2>1, ScrollTypesStay, ReaderStays DEF ReaderInv
  <2>2. CASE UNCHANGED scrollVars
    BY <2>2 DEF scrollVars, ReaderInv, ScrollTypes, Heights, Flags, Stages, JumpIsOffered,
                Told, Unopened, Follows, NearBottom, Reads, Returns, Remembers, Arriving
  <2>. QED  BY <2>1, <2>2, PartsMove
<1>3. Inv /\ [MCNext]_mcvars => [Kept]_mcvars
  <2>. SUFFICES ASSUME Inv, [MCNext]_mcvars PROVE Kept
    OBVIOUS
  <2>1. JumpIsOffered'
    BY PartsMove, ScrollTypesStay DEF ReaderInv
  <2>2. CASE ScrollNext
    BY <2>1, <2>2, ReaderKept
  <2>3. CASE UNCHANGED scrollVars
    BY <2>1, <2>3, StillKept
  <2>. QED  BY <2>2, <2>3, PartsMove
<1>. QED  BY <1>1, <1>2, <1>3, PTL DEF MCSpec, ReaderKeepsPlace
=============================================================================
