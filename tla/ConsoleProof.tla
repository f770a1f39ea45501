----------------------------- MODULE ConsoleProof -----------------------------
(***************************************************************************)
(* Proofs about the parts of the console. A step of the console is a step  *)
(* of one part, so each part has an inductive invariant of its own: first  *)
(* the list, the address and the title and marks of a row, then the types  *)
(* of the schedule panel, the composer, the draft, the posture and the     *)
(* rail. To its types each part adds what its calls in flight carry, which *)
(* gives what the user is promised (UserIsHeeded).                         *)
(***************************************************************************)
EXTENDS MCConsole, SequenceTheorems, FiniteSetTheorems, TLAPS

(***************************************************************************)
(* The store's list of sessions.                                           *)
(***************************************************************************)
ListRows == [id : Sessions, turns : Nat]
IsOrder(o) ==
    /\ o \in Seq(Sessions) /\ Len(o) = Cardinality(Sessions) /\ ToSet(o) = Sessions
    /\ \A i, j \in 1..Len(o) : o[i] = o[j] => i = j
OnePerId(rs) == \A r, other \in rs : r.id = other.id => r = other
IsFetch(f) ==
    /\ f = [at |-> f.at, hydrating |-> f.hydrating, offset |-> f.offset, reply |-> f.reply]
    /\ f.offset \in Nat
    /\ f.reply = <<>> \/ \E p \in Seq(ListRows) : f.reply = <<p>>
Given == IF fetch.reply = <<>> THEN {} ELSE ToSet(fetch.reply[1])
ListTypes ==
    /\ IsOrder(order) /\ IsFetch(fetch)
    /\ turns \in [Sessions -> Nat] /\ looked \in [Sessions -> Nat] /\ seen \in [Sessions -> Int]
    /\ rows \subseteq ListRows /\ OnePerId(rows)
    /\ unread \subseteq Sessions /\ current \in Sessions \union {Nobody}
    /\ listSteps \in 0..ListSteps

\* What was seen of a session is between what is listed and what there is; only
\* what was not looked at was seen and is marked.
TurnsSafe == \A s \in Sessions : seen[s] <= turns[s] /\ looked[s] <= turns[s]
OpenSafe == current # Nobody => looked[current] = turns[current]
MarkSafe == \A s \in Sessions : seen[s] > looked[s] /\ s # current => s \in unread
RowsSafe == \A r \in rows : r.turns <= seen[r.id]
GivenSafe == OnePerId(Given) /\ \A p \in Given : seen[p.id] <= p.turns /\ p.turns <= turns[p.id]
ListSound == ListTypes /\ TurnsSafe /\ OpenSafe /\ MarkSafe /\ RowsSafe /\ GivenSafe

LEMMA SessionsCount == Cardinality(Sessions) \in Nat /\ ListSteps \in Nat
  BY SessionListAssumption, FS_CardinalityType
LEMMA PageSizes == FirstPage \in Nat \ {0} /\ OlderPage \in Nat \ {0} /\ Burst \in Nat
<1>1. {FirstPage, OlderPage} \subseteq Nat \ {0} /\ {Burst, ListSteps} \subseteq Nat
  BY SessionListAssumption
<1> QED  BY <1>1

\* The sessions in any order.
LEMMA SetToSeqOrders == IsOrder(SetToSeq(Sessions))
<1> DEFINE n == Cardinality(Sessions)
           f == SetToSeq(Sessions)
<1>1. n \in Nat /\ IsFiniteSet(Sessions)
  BY SessionsCount, SessionListAssumption
<1>2. \E g \in [1..n -> Sessions] : IsInjective(g)
  <2>1. ExistsBijection(1..n, Sessions)
    BY <1>1, FS_CardinalityType
  <2> QED  BY <2>1 DEF ExistsBijection, Bijection, Injection
<1>3. f \in [1..n -> Sessions] /\ IsInjective(f)
  BY <1>2 DEF SetToSeq
<1> HIDE DEF f
<1>4. f \in Injection(1..n, Sessions)
  BY <1>3 DEF Injection
<1>5. Cardinality(1..n) = n
  BY <1>1, FS_Interval
<1>6. f \in Surjection(1..n, Sessions)
  BY <1>1, <1>4, <1>5, FS_Injection
<1>7. f \in Seq(Sessions) /\ Len(f) = n /\ DOMAIN f = 1..n
  BY <1>1, <1>3
<1>8. \A s \in Sessions : \E i \in 1..n : f[i] = s
  BY <1>6 DEF Surjection
<1>9. ToSet(f) = Sessions
  BY <1>3, <1>7, <1>8 DEF ToSet
<1> QED  BY <1>3, <1>7, <1>9 DEF IsOrder, IsInjective, f

\* A session that moves to the front leaves the others in their order.
LEMMA ToFront ==
    ASSUME NEW o, IsOrder(o), NEW s \in Sessions
    PROVE  IsOrder(<<s>> \o RemoveAt(o, CHOOSE i \in DOMAIN o : o[i] = s))
<1> DEFINE n == Len(o)
           k == CHOOSE i \in DOMAIN o : o[i] = s
           q == <<s>> \o RemoveAt(o, k)
<1>1. /\ o \in Seq(Sessions) /\ n = Cardinality(Sessions) /\ n \in Nat /\ DOMAIN o = 1..n
      /\ ToSet(o) = Sessions /\ \A i, j \in 1..n : o[i] = o[j] => i = j
  BY DEF IsOrder
<1>2. k \in 1..n /\ o[k] = s
  BY <1>1 DEF ToSet
<1> HIDE DEF k
<1>3. /\ SubSeq(o, 1, k - 1) \in Seq(Sessions) /\ Len(SubSeq(o, 1, k - 1)) = k - 1
      /\ \A i \in 1..k - 1 : SubSeq(o, 1, k - 1)[i] = o[i]
  BY <1>1, <1>2
<1>4. /\ SubSeq(o, k + 1, n) \in Seq(Sessions) /\ Len(SubSeq(o, k + 1, n)) = n - k
      /\ \A i \in 1..n - k : SubSeq(o, k + 1, n)[i] = o[k + i]
  BY <1>1, <1>2
<1>5. /\ RemoveAt(o, k) \in Seq(Sessions) /\ Len(RemoveAt(o, k)) = n - 1
      /\ \A i \in 1..n - 1 : RemoveAt(o, k)[i] = IF i < k THEN o[i] ELSE o[i + 1]
  <2> DEFINE a == SubSeq(o, 1, k - 1)
             b == SubSeq(o, k + 1, n)
  <2>1. /\ a \in Seq(Sessions) /\ Len(a) = k - 1 /\ \A i \in 1..k - 1 : a[i] = o[i]
        /\ b \in Seq(Sessions) /\ Len(b) = n - k /\ \A i \in 1..n - k : b[i] = o[k + i]
        /\ RemoveAt(o, k) = a \o b
    BY <1>3, <1>4 DEF RemoveAt
  <2> HIDE DEF a, b
  <2>2. /\ a \o b \in Seq(Sessions) /\ Len(a \o b) = n - 1
        /\ \A i \in 1..n - 1 : (a \o b)[i] = IF i < k THEN a[i] ELSE b[i - k + 1]
    <3>1. a \o b \in Seq(Sessions) /\ Len(a \o b) = n - 1
      <4>1. a \o b \in Seq(Sessions) /\ Len(a \o b) = Len(a) + Len(b)
        <5>1. a \in Seq(Sessions) /\ b \in Seq(Sessions)
          BY <2>1
        <5> QED  BY <5>1, ConcatProperties
      <4>2. Len(a) + Len(b) = n - 1
        BY <1>1, <1>2, <2>1
      <4> QED  BY <4>1, <4>2
    <3>2. ASSUME NEW i \in 1..n - 1, i < k PROVE (a \o b)[i] = a[i]
      BY <1>1, <1>2, <2>1, <3>2
    <3>3. ASSUME NEW i \in 1..n - 1, ~(i < k) PROVE (a \o b)[i] = b[i - k + 1]
      <4>1. i > Len(a) /\ i <= Len(a) + Len(b) /\ i - Len(a) = i - k + 1
        BY <1>1, <1>2, <2>1, <3>3
      <4>2. (a \o b)[i] = b[i - Len(a)]
        BY <2>1, <4>1
      <4> QED  BY <4>1, <4>2
    <3> QED  BY <3>1, <3>2, <3>3
  <2>3. \A i \in 1..n - 1 : ~(i < k) => b[i - k + 1] = o[i + 1]
    <3> SUFFICES ASSUME NEW i \in 1..n - 1, ~(i < k) PROVE b[i - k + 1] = o[i + 1]
      OBVIOUS
    <3>1. i - k + 1 \in 1..n - k /\ k + (i - k + 1) = i + 1
      BY <1>1, <1>2
    <3> QED  BY <2>1, <3>1
  <2> QED  BY <1>1, <1>2, <2>1, <2>2, <2>3
<1>6. /\ q \in Seq(Sessions) /\ Len(q) = n /\ q[1] = s
      /\ \A i \in 2..n : q[i] = RemoveAt(o, k)[i - 1]
  BY <1>1, <1>2, <1>5
<1>7. \A i \in 2..n : q[i] = IF i - 1 < k THEN o[i - 1] ELSE o[i]
  BY <1>1, <1>2, <1>5, <1>6
<1> HIDE DEF q
<1>8. \A i, j \in 1..n : q[i] = q[j] => i = j
  BY <1>1, <1>2, <1>6, <1>7
<1>9. \A x \in Sessions : \E i \in 1..n : q[i] = x
  <2> SUFFICES ASSUME NEW x \in Sessions PROVE \E i \in 1..n : q[i] = x
    OBVIOUS
  <2>1. PICK i \in 1..n : o[i] = x
    BY <1>1 DEF ToSet
  <2>2. CASE i < k
    <3>1. i + 1 \in 2..n /\ (i + 1) - 1 = i
      BY <1>1, <1>2, <2>2
    <3>2. q[i + 1] = o[i]
      BY <1>7, <2>2, <3>1
    <3> QED  BY <1>1, <2>1, <3>1, <3>2
  <2>3. CASE i = k
    BY <1>1, <1>2, <1>6, <2>1, <2>3
  <2>4. CASE i > k
    BY <1>1, <1>2, <1>7, <2>1, <2>4
  <2> QED  BY <1>2, <2>1, <2>2, <2>3, <2>4
<1>10. DOMAIN q = 1..n
  BY <1>6
<1>11. ToSet(q) = Sessions
  <2>1. \A i \in 1..n : q[i] \in Sessions
    BY <1>1, <1>6
  <2> QED  BY <1>9, <1>10, <2>1 DEF ToSet
<1>12. IsOrder(q)
  BY <1>1, <1>6, <1>8, <1>11 DEF IsOrder
<1> QED  BY <1>12 DEF q, k

\* A page is the server's rows, each once.
LEMMA PageIs ==
    ASSUME ListTypes, NEW offset \in Nat, NEW size \in Nat
    PROVE  /\ Page(offset, size) \in Seq(ListRows)
           /\ \A p \in ToSet(Page(offset, size)) : p \in ListRows /\ p = Row(p.id)
<1> DEFINE last == IF offset + size < Len(order) THEN offset + size ELSE Len(order)
           m == last - offset
<1>1. order \in Seq(Sessions) /\ Len(order) \in Nat
  BY DEF ListTypes, IsOrder
<1>2. m \in Int /\ m + offset <= Len(order)
  BY <1>1
<1>3. Page(offset, size) = [i \in 1..m |-> Row(order[offset + i])]
  BY DEF Page
<1> HIDE DEF m
<1>4. \A i \in 1..m : order[offset + i] \in Sessions
  BY <1>1, <1>2
<1>5. \A s \in Sessions : Row(s) \in ListRows /\ Row(s) = Row(Row(s).id)
  BY DEF Row, ListRows, ListTypes
<1>6. \A i \in 1..m : Page(offset, size)[i] \in ListRows
                      /\ Page(offset, size)[i] = Row(Page(offset, size)[i].id)
  BY <1>3, <1>4, <1>5
<1>7. Page(offset, size) \in Seq(ListRows)
  <2>0. Page(offset, size) \in [1..m -> ListRows]
    BY <1>3, <1>6
  <2>1. CASE m \in Nat
    BY <2>0, <2>1
  <2>2. CASE m \notin Nat
    <3>1. 1..m = 1..0
      BY <1>2, <2>2
    <3>2. Page(offset, size) \in [1..0 -> ListRows] /\ 0 \in Nat
      BY <2>0, <3>1
    <3> QED  BY <3>2, SeqDef
  <2> QED  BY <2>1, <2>2
<1>8. DOMAIN Page(offset, size) = 1..m
  BY <1>3
<1> QED  BY <1>6, <1>7, <1>8 DEF ToSet

LEMMA ListedIs ==
    ASSUME NEW rs, NEW s \in Ids(rs)
    PROVE  Listed(rs, s) \in rs /\ Listed(rs, s).id = s
  BY DEF Ids, Listed

LEMMA Merged ==
    ASSUME NEW front \in SUBSET ListRows, NEW back \in SUBSET ListRows, OnePerId(front), OnePerId(back)
    PROVE  /\ mergeSessionRows(front, back) \subseteq ListRows /\ OnePerId(mergeSessionRows(front, back))
           /\ \A r \in mergeSessionRows(front, back) :
                r \in front \/ (r \in back /\ r.id \notin Ids(front))
  BY DEF mergeSessionRows, OnePerId, Ids

LEMMA ListStart == ListInit => ListSound
<1> SUFFICES ASSUME ListInit PROVE ListSound
  OBVIOUS
<1>1. IsOrder(order) /\ turns \in [Sessions -> Nat] /\ looked \in [Sessions -> Nat]
      /\ seen \in [Sessions -> Int] /\ rows = {} /\ unread = {} /\ current = Nobody
      /\ listSteps \in 0..ListSteps /\ \A s \in Sessions : turns[s] = 1 /\ seen[s] = -1 /\ looked[s] = 0
  BY SetToSeqOrders, SessionsCount DEF ListInit
<1>2. IsFetch(fetch) /\ Given = {}
  BY DEF ListInit, NoFetch, IsFetch, Given
<1> QED  BY <1>1, <1>2 DEF ListSound, ListTypes, TurnsSafe, OpenSafe, MarkSafe, RowsSafe, GivenSafe, OnePerId

LEMMA ListHolds == ListSound => ListTypeOK /\ NoTurnMissed
<1> SUFFICES ASSUME ListSound PROVE ListTypeOK /\ NoTurnMissed
  OBVIOUS
<1>1. ListTypeOK
  BY DEF ListSound, ListTypes, IsOrder, OnePerId, ListTypeOK
<1>2. NoTurnMissed
  <2> SUFFICES ASSUME NEW r \in rows, r.turns > looked[r.id], r.id # current PROVE r.id \in unread
    BY DEF NoTurnMissed
  <2>1. r.id \in Sessions /\ r.turns \in Nat /\ seen[r.id] \in Int /\ looked[r.id] \in Nat
    BY DEF ListSound, ListTypes, ListRows
  <2>2. r.turns <= seen[r.id]
    BY DEF ListSound, RowsSafe
  <2> QED  BY <2>1, <2>2 DEF ListSound, MarkSafe
<1> QED  BY <1>1, <1>2

\* The steps that only the types and the safe parts of the same name concern.
LEMMA ListActs ==
    ASSUME ListSound, UNCHANGED <<turns, looked, seen, rows, unread, current>>,
           IsOrder(order)', IsFetch(fetch)', Given' \subseteq Given, listSteps' \in 0..ListSteps
    PROVE  ListSound'
<1>1. ListTypes'
  BY DEF ListSound, ListTypes
<1>2. TurnsSafe' /\ OpenSafe' /\ MarkSafe' /\ RowsSafe'
  BY DEF ListSound, TurnsSafe, OpenSafe, MarkSafe, RowsSafe
<1>3. GivenSafe'
  BY DEF ListSound, GivenSafe, OnePerId
<1> QED  BY <1>1, <1>2, <1>3 DEF ListSound

LEMMA ListSpends ==
    ASSUME listSteps \in 0..ListSteps, ListSpend
    PROVE  listSteps' \in 0..ListSteps
  BY SessionsCount DEF ListSpend

LEMMA ListAsks ==
    ASSUME ListSound, Refresh \/ ServerLists \/ PageFails \/ UNCHANGED listVars
    PROVE  ListSound'
<1>0. ListTypes /\ IsOrder(order) /\ listSteps \in 0..ListSteps
  BY DEF ListSound, ListTypes
<1>1. CASE Refresh
  <2>1. /\ fetch' = [at |-> "first", hydrating |-> ~ready, offset |-> 0, reply |-> <<>>]
        /\ UNCHANGED <<order, turns, rows, unread, seen, current, looked, listSteps>>
    BY <1>1 DEF Refresh, NoFetch, listServer
  <2>2. IsFetch(fetch)' /\ Given' = {}
    BY <2>1 DEF IsFetch, Given
  <2> QED  BY <1>0, <2>1, <2>2, ListActs
<1>2. CASE PageFails
  <2>1. /\ fetch' = NoFetch /\ ListSpend
        /\ UNCHANGED <<order, turns, rows, unread, seen, current, looked>>
    BY <1>2 DEF PageFails, listServer
  <2>2. IsFetch(fetch)' /\ Given' = {}
    BY <2>1 DEF IsFetch, Given, NoFetch
  <2> QED  BY <1>0, <2>1, <2>2, ListActs, ListSpends
<1>3. CASE UNCHANGED listVars
  <2>1. UNCHANGED <<order, turns, rows, fetch, unread, seen, current, looked, listSteps>>
    BY <1>3 DEF listVars, listServer
  <2>2. Given' = Given
    BY <2>1 DEF Given
  <2> QED  BY <1>0, <2>1, <2>2, ListActs DEF ListSound, ListTypes
<1>4. CASE ServerLists
  <2> DEFINE page == Page(fetch.offset, PageSize)
  <2>1. /\ fetch' = [fetch EXCEPT !.reply = <<page>>]
        /\ UNCHANGED <<order, turns, rows, unread, seen, current, looked, listSteps>>
    BY <1>4 DEF ServerLists, listServer
  <2>2. IsFetch(fetch) /\ fetch.offset \in Nat
    BY DEF ListSound, ListTypes, IsFetch
  <2>3. PageSize \in Nat
    BY PageSizes DEF PageSize
  <2>4. page \in Seq(ListRows) /\ \A p \in ToSet(page) : p \in ListRows /\ p = Row(p.id)
    BY <1>0, <2>2, <2>3, PageIs
  <2> HIDE DEF page
  <2>5. fetch' = [at |-> fetch.at, hydrating |-> fetch.hydrating, offset |-> fetch.offset,
                  reply |-> <<page>>]
    BY <2>1, <2>2 DEF IsFetch
  <2>6. fetch'.reply = <<page>> /\ <<page>> # <<>>
    BY <2>5
  <2>7. IsFetch(fetch)'
    BY <2>2, <2>4, <2>5 DEF IsFetch
  <2>8. Given' = ToSet(page)
    BY <2>6 DEF Given
  <2>9. GivenSafe'
    <3>1. \A p \in ToSet(page) : p.id \in Sessions /\ p.turns = turns[p.id]
      BY <2>4 DEF ListRows, Row
    <3>2. OnePerId(ToSet(page))
      BY <2>4 DEF OnePerId
    <3>3. \A p \in ToSet(page) : seen[p.id] <= p.turns /\ p.turns <= turns[p.id]
      BY <3>1 DEF ListSound, ListTypes, TurnsSafe
    <3> QED  BY <2>1, <2>8, <3>2, <3>3 DEF GivenSafe
  <2>10. ListTypes'
    BY <2>1, <2>7 DEF ListSound, ListTypes
  <2>11. TurnsSafe' /\ OpenSafe' /\ MarkSafe' /\ RowsSafe'
    BY <2>1 DEF ListSound, TurnsSafe, OpenSafe, MarkSafe, RowsSafe
  <2> QED  BY <2>9, <2>10, <2>11 DEF ListSound
<1> QED  BY <1>1, <1>2, <1>3, <1>4

LEMMA GivenIs ==
    ASSUME ListSound
    PROVE  \A p \in Given : p \in ListRows /\ p.id \in Sessions /\ p.turns \in Nat
<1>1. Given \subseteq ListRows
  BY DEF Given, ListSound, ListTypes, IsFetch, ToSet
<1> QED  BY <1>1 DEF ListRows

\* A page that lands.
LEMMA Applied ==
    ASSUME ListSound, NEW page, page = Given, NEW append, applyPage(page, append)
    PROVE  /\ rows' \subseteq ListRows /\ OnePerId(rows')
           /\ unread' \subseteq Sessions
           /\ looked' \in [Sessions -> Nat] /\ seen' \in [Sessions -> Int]
           /\ \A s \in Sessions : seen'[s] <= turns[s] /\ looked'[s] <= turns[s] /\ looked[s] <= looked'[s]
           /\ \A s \in Sessions : seen'[s] > looked'[s] /\ s # current => s \in unread'
           /\ \A r \in rows' : r.turns <= seen'[r.id]
<1>0. /\ page \subseteq ListRows /\ OnePerId(page) /\ rows \subseteq ListRows /\ OnePerId(rows)
      /\ turns \in [Sessions -> Nat] /\ looked \in [Sessions -> Nat] /\ seen \in [Sessions -> Int]
      /\ \A p \in page : seen[p.id] <= p.turns /\ p.turns <= turns[p.id]
  <2>1. page \subseteq ListRows
    BY GivenIs
  <2> QED  BY <2>1 DEF ListSound, ListTypes, GivenSafe
<1>1. \A p \in page : p.id \in Sessions /\ p.turns \in Nat /\ p.id \in Ids(page)
  BY <1>0 DEF ListRows, Ids
<1>2. \A s \in Ids(page) : s \in Sessions /\ Listed(page, s) \in page /\ Listed(page, s).id = s
  BY <1>1, ListedIs DEF Ids
<1> DEFINE t(s) == Listed(page, s).turns
<1>3. \A s \in Ids(page) : t(s) \in Nat /\ seen[s] <= t(s) /\ t(s) <= turns[s]
  BY <1>0, <1>1, <1>2
<1>4. \A p \in page : t(p.id) = p.turns
  BY <1>0, <1>1, <1>2 DEF OnePerId
<1> HIDE DEF t
<1>5. /\ seen' = [s \in Sessions |-> IF s \in Ids(page) THEN t(s) ELSE seen[s]]
      /\ looked' = [s \in Sessions |-> IF s \in Ids(page) /\ seen[s] < 0 /\ looked[s] < t(s)
                                       THEN t(s) ELSE looked[s]]
  BY DEF applyPage, t
<1>6. looked' \in [Sessions -> Nat] /\ seen' \in [Sessions -> Int]
  BY <1>0, <1>3, <1>5
<1>7. \A s \in Sessions : seen'[s] <= turns[s] /\ looked'[s] <= turns[s] /\ looked[s] <= looked'[s]
  BY <1>0, <1>3, <1>5 DEF ListSound, TurnsSafe
<1>8. rows' \subseteq ListRows /\ OnePerId(rows')
      /\ \A r \in rows' : r \in page \/ (r \in rows /\ r.turns <= seen'[r.id])
  <2>1. CASE append
    <3>1. rows' = mergeSessionRows(rows, page)
      BY <2>1 DEF applyPage
    <3>2. \A r \in rows : r.id \in Sessions /\ r.turns \in Nat /\ r.turns <= seen[r.id]
      BY <1>0 DEF ListSound, RowsSafe, ListRows
    <3>3. \A r \in rows : r.turns <= seen'[r.id]
      BY <1>0, <1>3, <1>5, <3>2
    <3> QED  BY <1>0, <3>1, <3>3, Merged
  <2>2. CASE ~append
    <3>1. rows' = mergeSessionRows(page, rows)
      BY <2>2 DEF applyPage
    <3>2. \A r \in rows : r.id \in Sessions /\ r.turns \in Nat /\ r.turns <= seen[r.id]
      BY <1>0 DEF ListSound, RowsSafe, ListRows
    <3>3. \A r \in rows : r.turns <= seen'[r.id]
      BY <1>0, <1>3, <1>5, <3>2
    <3> QED  BY <1>0, <3>1, <3>3, Merged
  <2> QED  BY <2>1, <2>2
<1>9. \A r \in rows' : r.turns <= seen'[r.id]
  BY <1>1, <1>4, <1>5, <1>8
<1>10. unread' = (unread \union Ids({p \in page : Gained(p)})) \ ({current} \intersect Ids(page))
  BY DEF applyPage
<1>11. Ids({p \in page : Gained(p)}) \subseteq Sessions
  BY <1>1 DEF Ids
<1>12. unread' \subseteq Sessions
  BY <1>10, <1>11 DEF ListSound, ListTypes
<1>13. ASSUME NEW s \in Sessions, seen'[s] > looked'[s], s # current PROVE s \in unread'
  <2>1. CASE s \notin Ids(page)
    BY <1>5, <1>10, <1>13, <2>1 DEF ListSound, MarkSafe
  <2>2. CASE s \in Ids(page)
    <3>1. seen'[s] = t(s) /\ t(s) \in Nat /\ seen[s] <= t(s) /\ seen[s] \in Int /\ looked[s] \in Nat
      BY <1>0, <1>3, <1>5, <2>2
    <3>2. seen[s] >= 0
      BY <1>5, <1>13, <2>2, <3>1
    <3>3. looked'[s] = looked[s]
      BY <1>5, <3>1, <3>2
    <3>4. CASE t(s) > seen[s]
      <4>1. Listed(page, s) \in page /\ Listed(page, s).id = s /\ Gained(Listed(page, s))
        BY <1>2, <2>2, <3>2, <3>4 DEF Gained, t
      <4>2. s \in Ids({p \in page : Gained(p)})
        BY <4>1 DEF Ids
      <4> QED  BY <1>10, <1>13, <4>2
    <3>5. CASE t(s) = seen[s]
      BY <1>10, <1>13, <3>1, <3>3, <3>5 DEF ListSound, MarkSafe
    <3> QED  BY <3>1, <3>4, <3>5
  <2> QED  BY <2>1, <2>2
<1> QED  BY <1>6, <1>7, <1>8, <1>9, <1>12, <1>13

LEMMA ListLands == ASSUME ListSound, PageLands PROVE ListSound'
<1> DEFINE page == fetch.reply[1]
<1>1. /\ fetch.reply # <<>> /\ UNCHANGED <<order, turns, current, listSteps>>
      /\ \/ UNCHANGED <<rows, unread, seen, looked>>
         \/ applyPage(ToSet(page), fetch.at = "older")
      /\ fetch' \in {NoFetch, [NoFetch EXCEPT !.at = "older", !.hydrating = TRUE,
                                              !.offset = fetch.offset + Len(page)]}
  BY DEF PageLands, listServer
<1>2. page \in Seq(ListRows) /\ fetch.offset \in Nat /\ Given = ToSet(page)
  BY <1>1 DEF ListSound, ListTypes, IsFetch, Given
<1>3. fetch.offset + Len(page) \in Nat
  BY <1>2
<1> HIDE DEF page
<1>4. IsFetch(fetch)' /\ Given' = {}
  <2>1. CASE fetch' = NoFetch
    BY <2>1 DEF NoFetch, IsFetch, Given
  <2>2. CASE fetch' = [NoFetch EXCEPT !.at = "older", !.hydrating = TRUE,
                                      !.offset = fetch.offset + Len(page)]
    <3>1. fetch' = [at |-> "older", hydrating |-> TRUE, offset |-> fetch.offset + Len(page),
                    reply |-> <<>>]
      BY <2>2 DEF NoFetch
    <3> QED  BY <1>3, <3>1 DEF IsFetch, Given
  <2> QED  BY <1>1, <2>1, <2>2
<1>5. IsOrder(order)' /\ listSteps' \in 0..ListSteps
  BY <1>1 DEF ListSound, ListTypes
<1>6. CASE UNCHANGED <<rows, unread, seen, looked>>
  BY <1>1, <1>4, <1>5, <1>6, ListActs
<1>7. CASE applyPage(ToSet(page), fetch.at = "older")
  <2>1. /\ rows' \subseteq ListRows /\ OnePerId(rows') /\ unread' \subseteq Sessions
        /\ looked' \in [Sessions -> Nat] /\ seen' \in [Sessions -> Int]
        /\ \A s \in Sessions : seen'[s] <= turns[s] /\ looked'[s] <= turns[s] /\ looked[s] <= looked'[s]
        /\ \A s \in Sessions : seen'[s] > looked'[s] /\ s # current => s \in unread'
        /\ \A r \in rows' : r.turns <= seen'[r.id]
    BY <1>2, <1>7, Applied
  <2>2. ListTypes'
    BY <1>1, <1>4, <1>5, <2>1 DEF ListSound, ListTypes
  <2>3. TurnsSafe' /\ MarkSafe' /\ RowsSafe'
    BY <1>1, <2>1 DEF TurnsSafe, MarkSafe, RowsSafe
  <2>4. OpenSafe'
    <3>1. current # Nobody => current \in Sessions /\ looked[current] = turns[current]
                              /\ looked'[current] \in Nat /\ turns[current] \in Nat
      BY <2>1 DEF ListSound, ListTypes, OpenSafe
    <3> QED  BY <1>1, <2>1, <3>1 DEF OpenSafe
  <2>5. GivenSafe'
    BY <1>4 DEF GivenSafe, OnePerId
  <2> QED  BY <2>2, <2>3, <2>4, <2>5 DEF ListSound
<1> QED  BY <1>1, <1>6, <1>7

\* What the user does, and the sessions.
LEMMA ListOpens == ASSUME ListSound, NEW s \in Sessions, Open(s) PROVE ListSound'
<1>1. /\ UNCHANGED <<order, turns, rows, fetch>> /\ current' = s /\ ListSpend
      /\ seen' = IF s \in Ids(rows) THEN [seen EXCEPT ![s] = Listed(rows, s).turns] ELSE seen
      /\ unread' = unread \ {s} /\ looked' = [looked EXCEPT ![s] = turns[s]]
  BY DEF Open, markRead, listServer
<1>2. /\ turns \in [Sessions -> Nat] /\ looked \in [Sessions -> Nat] /\ seen \in [Sessions -> Int]
      /\ rows \subseteq ListRows /\ OnePerId(rows) /\ listSteps \in 0..ListSteps
      /\ \A q \in Sessions : seen[q] <= turns[q] /\ looked[q] <= turns[q]
      /\ \A r \in rows : r.id \in Sessions /\ r.turns \in Nat /\ r.turns <= seen[r.id]
  BY DEF ListSound, ListTypes, ListRows, TurnsSafe, RowsSafe
<1>3. s \in Ids(rows) => /\ Listed(rows, s) \in rows /\ Listed(rows, s).id = s
                         /\ Listed(rows, s).turns \in Nat /\ Listed(rows, s).turns <= seen[s]
                         /\ \A r \in rows : r.id = s => r = Listed(rows, s)
  BY <1>2, ListedIs DEF OnePerId
<1>4. /\ seen' \in [Sessions -> Int] /\ looked' \in [Sessions -> Nat] /\ looked'[s] = turns[s]
      /\ \A q \in Sessions : /\ seen'[q] <= seen[q] /\ looked'[q] <= turns[q]
                             /\ q # s => seen'[q] = seen[q] /\ looked'[q] = looked[q]
      /\ s \in Ids(rows) => seen'[s] = Listed(rows, s).turns
  BY <1>1, <1>2, <1>3
<1>5. ListTypes'
  BY <1>1, <1>4, ListSpends DEF ListSound, ListTypes
<1>6. TurnsSafe' /\ OpenSafe'
  BY <1>1, <1>2, <1>4 DEF TurnsSafe, OpenSafe
<1>7. MarkSafe'
  <2> SUFFICES ASSUME NEW q \in Sessions, seen'[q] > looked'[q], q # s PROVE q \in unread'
    BY <1>1 DEF MarkSafe
  <2>1. seen[q] > looked[q]
    BY <1>4
  <2>2. q # current
    <3>1. q = current => looked[q] = turns[q]
      BY SessionListAssumption DEF ListSound, OpenSafe
    <3> QED  BY <1>2, <2>1, <3>1
  <2> QED  BY <1>1, <2>1, <2>2 DEF ListSound, MarkSafe
<1>8. RowsSafe'
  <2> SUFFICES ASSUME NEW r \in rows PROVE r.turns <= seen'[r.id]
    BY <1>1 DEF RowsSafe
  <2>1. r.id \in Sessions /\ r.turns \in Nat /\ r.turns <= seen[r.id] /\ r.id \in Ids(rows)
    BY <1>2 DEF Ids
  <2>2. CASE r.id = s
    BY <1>3, <1>4, <2>1, <2>2
  <2> QED  BY <1>4, <2>1, <2>2
<1>9. GivenSafe'
  <2>1. Given' = Given
    BY <1>1 DEF Given
  <2>2. \A p \in Given : p.id \in Sessions /\ p.turns \in Nat /\ seen[p.id] <= p.turns
                         /\ p.turns <= turns[p.id]
    BY GivenIs DEF ListSound, GivenSafe
  <2>3. \A p \in Given : seen'[p.id] <= p.turns
    <3> SUFFICES ASSUME NEW p \in Given PROVE seen'[p.id] <= p.turns
      OBVIOUS
    <3>1. p.id \in Sessions /\ p.turns \in Nat /\ seen[p.id] <= p.turns
      BY <2>2
    <3>2. seen'[p.id] <= seen[p.id] /\ seen'[p.id] \in Int /\ seen[p.id] \in Int
      BY <1>2, <1>4, <3>1
    <3> QED  BY <3>1, <3>2
  <2> QED  BY <1>1, <2>1, <2>2, <2>3 DEF ListSound, GivenSafe
<1> QED  BY <1>5, <1>6, <1>7, <1>8, <1>9 DEF ListSound

LEMMA ListLeaves == ASSUME ListSound, Leave PROVE ListSound'
<1>1. current # Nobody /\ current' = Nobody
      /\ UNCHANGED <<order, turns, rows, fetch, unread, seen, looked, listSteps>>
  BY DEF Leave, listServer
<1>2. ListTypes'
  BY <1>1 DEF ListSound, ListTypes
<1>3. TurnsSafe' /\ OpenSafe' /\ RowsSafe'
  BY <1>1 DEF ListSound, TurnsSafe, OpenSafe, RowsSafe
<1>4. MarkSafe'
  <2>1. current \in Sessions /\ looked[current] = turns[current] /\ seen[current] <= turns[current]
        /\ seen[current] \in Int /\ turns[current] \in Nat
    BY <1>1 DEF ListSound, ListTypes, OpenSafe, TurnsSafe
  <2> QED  BY <1>1, <2>1 DEF ListSound, MarkSafe
<1>5. GivenSafe'
  BY <1>1 DEF ListSound, GivenSafe, Given
<1> QED  BY <1>2, <1>3, <1>4, <1>5 DEF ListSound

LEMMA ListReloads == ASSUME ListSound, ReloadPage PROVE ListSound'
<1>1. /\ ListSpend /\ rows' = {} /\ fetch' = NoFetch /\ seen' = [s \in Sessions |-> -1]
      /\ unread' = unread \ {current} /\ UNCHANGED <<order, turns, current, looked>>
  BY DEF ReloadPage, listServer
<1>2. IsFetch(fetch)' /\ Given' = {}
  BY <1>1 DEF IsFetch, Given, NoFetch
<1>3. seen' \in [Sessions -> Int] /\ \A s \in Sessions : seen'[s] = -1
  BY <1>1
<1>4. /\ turns \in [Sessions -> Nat] /\ looked \in [Sessions -> Nat]
      /\ \A s \in Sessions : looked[s] <= turns[s]
  BY DEF ListSound, ListTypes, TurnsSafe
<1>5. ListTypes'
  BY <1>1, <1>2, <1>3, ListSpends DEF ListSound, ListTypes, OnePerId
<1>6. TurnsSafe' /\ MarkSafe'
  BY <1>1, <1>3, <1>4 DEF TurnsSafe, MarkSafe
<1>7. OpenSafe' /\ RowsSafe' /\ GivenSafe'
  BY <1>1, <1>2 DEF ListSound, OpenSafe, RowsSafe, GivenSafe, OnePerId
<1> QED  BY <1>5, <1>6, <1>7 DEF ListSound

LEMMA ListWorks == ASSUME ListSound, NEW s \in Sessions, Activity(s) PROVE ListSound'
<1>1. /\ ListSpend /\ turns' = [turns EXCEPT ![s] = @ + 1]
      /\ order' = <<s>> \o RemoveAt(order, CHOOSE i \in DOMAIN order : order[i] = s)
      /\ looked' = IF s = current THEN [looked EXCEPT ![s] = turns'[s]] ELSE looked
      /\ UNCHANGED <<rows, fetch, unread, seen, current>>
  BY DEF Activity
<1>2. IsOrder(order')
  BY <1>1, ToFront DEF ListSound, ListTypes
<1>3. /\ turns \in [Sessions -> Nat] /\ looked \in [Sessions -> Nat] /\ seen \in [Sessions -> Int]
      /\ \A q \in Sessions : seen[q] <= turns[q] /\ looked[q] <= turns[q]
  BY DEF ListSound, ListTypes, TurnsSafe
<1>4. /\ turns' \in [Sessions -> Nat] /\ turns'[s] = turns[s] + 1
      /\ \A q \in Sessions : turns[q] <= turns'[q] /\ (q # s => turns'[q] = turns[q])
  BY <1>1, <1>3
<1>5. /\ looked' \in [Sessions -> Nat] /\ (s = current => looked'[s] = turns'[s])
      /\ (s # current => looked' = looked)
      /\ \A q \in Sessions : looked[q] <= looked'[q] /\ (q # s => looked'[q] = looked[q])
  BY <1>1, <1>3, <1>4
<1>6. ListTypes'
  BY <1>1, <1>2, <1>4, <1>5, ListSpends DEF ListSound, ListTypes, IsOrder
<1>7. TurnsSafe'
  <2> SUFFICES ASSUME NEW q \in Sessions PROVE seen[q] <= turns'[q] /\ looked'[q] <= turns'[q]
    BY <1>1 DEF TurnsSafe
  <2>1. seen[q] <= turns[q] /\ looked[q] <= turns[q] /\ turns[q] <= turns'[q] /\ seen[q] \in Int
        /\ looked[q] \in Nat /\ turns[q] \in Nat /\ turns'[q] \in Nat /\ looked'[q] \in Nat
    BY <1>3, <1>4, <1>5
  <2>2. looked'[q] = looked[q] \/ looked'[q] = turns'[q]
    BY <1>5
  <2> QED  BY <2>1, <2>2
<1>8. OpenSafe'
  <2>1. current # Nobody => current \in Sessions /\ looked[current] = turns[current]
    BY DEF ListSound, ListTypes, OpenSafe
  <2> QED  BY <1>1, <1>4, <1>5, <2>1 DEF OpenSafe
<1>9. MarkSafe'
  <2> SUFFICES ASSUME NEW q \in Sessions, seen[q] > looked'[q], q # current PROVE q \in unread
    BY <1>1 DEF MarkSafe
  <2>1. seen[q] > looked[q]
    BY <1>3, <1>5
  <2> QED  BY <2>1 DEF ListSound, MarkSafe
<1>10. RowsSafe'
  BY <1>1 DEF ListSound, RowsSafe
<1>11. GivenSafe'
  <2>1. Given' = Given
    BY <1>1 DEF Given
  <2>2. \A p \in Given : p.id \in Sessions /\ p.turns \in Nat /\ seen[p.id] <= p.turns
                         /\ p.turns <= turns[p.id]
    BY GivenIs DEF ListSound, GivenSafe
  <2>3. \A p \in Given : p.turns <= turns'[p.id]
    BY <1>3, <1>4, <2>2
  <2> QED  BY <1>1, <2>1, <2>2, <2>3 DEF ListSound, GivenSafe
<1> QED  BY <1>6, <1>7, <1>8, <1>9, <1>10, <1>11 DEF ListSound

LEMMA ListSafeStep == ListSound /\ [ListNext]_listVars => ListSound'
  BY ListAsks, ListLands, ListOpens, ListLeaves, ListReloads, ListWorks DEF ListNext, ListStep

(***************************************************************************)
(* Titles and marks.                                                       *)
(***************************************************************************)
Maps == [Projects -> BOOLEAN]
Toggles == [p : Projects, to : BOOLEAN, pin : BOOLEAN, done : BOOLEAN, map : Maps]
\* A title is no larger than the steps made.
OptSound ==
    /\ optSteps \in 0..OptSteps
    /\ title \in 0..optSteps /\ overlay \in 0..optSteps
    /\ listTitle \in 0..optSteps /\ call \in 0..optSteps
    /\ call # 0 => overlay = call
    /\ marks \in Maps /\ projects \in Maps /\ toggles \in Seq(Toggles)
    /\ poll \in [at : {"none", "asked", "read"}, map : Maps]

LEMMA RemovedToggle ==
    ASSUME NEW S, NEW q \in Seq(S), NEW i \in DOMAIN q
    PROVE  RemoveAt(q, i) \in Seq(S)
<1>1. i \in 1..Len(q)
  OBVIOUS
<1>2. SubSeq(q, 1, i - 1) \in Seq(S) /\ SubSeq(q, i + 1, Len(q)) \in Seq(S)
  BY <1>1
<1> QED  BY <1>2 DEF RemoveAt

LEMMA PollTypes == NoPoll \in [at : {"none", "asked", "read"}, map : Maps]
                   /\ AskedPoll \in [at : {"none", "asked", "read"}, map : Maps]
  BY DEF NoPoll, AskedPoll, Maps

LEMMA OptStart == OptInit => OptSound
<1> SUFFICES ASSUME OptInit PROVE OptSound
  OBVIOUS
<1>1. marks \in Maps /\ projects \in Maps /\ toggles \in Seq(Toggles)
  BY DEF OptInit, Maps
<1> QED  BY <1>1, PollTypes, OptimisticAssumption DEF OptInit, OptSound

TitlesSound ==
    /\ title \in 0..optSteps /\ overlay \in 0..optSteps
    /\ listTitle \in 0..optSteps /\ call \in 0..optSteps
    /\ call # 0 => overlay = call
MarksSound ==
    /\ marks \in Maps /\ projects \in Maps /\ toggles \in Seq(Toggles)
    /\ poll \in [at : {"none", "asked", "read"}, map : Maps]

LEMMA TitleStep ==
    ASSUME OptSound, Rename \/ RenameAnswer \/ RenameFails \/ OtherRename
    PROVE  OptSound'
<1>1. optSteps \in Nat /\ OptSteps \in Nat /\ optSteps' \in 0..OptSteps /\ optSteps <= optSteps'
  BY OptimisticAssumption DEF OptSound, Rename, RenameAnswer, RenameFails, OtherRename, RenameDone,
     PollTitle, OptSpend, OptFree
<1>2. TitlesSound'
  <2>1. CASE Rename \/ OtherRename
    BY <2>1, <1>1 DEF OptSound, TitlesSound, Rename, OtherRename, NewTitle, OptSpend
  <2>2. CASE RenameDone
    BY <2>2, <1>1 DEF OptSound, TitlesSound, RenameDone, OptFree
  <2>3. CASE PollTitle
    BY <2>3, <1>1 DEF OptSound, TitlesSound, PollTitle, OptFree
  <2>4. CASE RenameFails
    BY <2>4, <1>1 DEF OptSound, TitlesSound, RenameFails, OptSpend, OverlayAfterFailure
  <2> QED  BY <2>1, <2>2, <2>3, <2>4 DEF RenameAnswer
<1>3. UNCHANGED markVars
  BY DEF Rename, RenameAnswer, RenameFails, OtherRename, RenameDone, PollTitle
<1> QED  BY <1>1, <1>2, <1>3 DEF OptSound, TitlesSound, markVars

LEMMA MarkStep ==
    ASSUME OptSound,
           \/ PollAnswer \/ ToggleAnswer
           \/ \E p \in Projects, pin \in BOOLEAN : Toggle(p, pin)
           \/ \E i \in DOMAIN toggles : ToggleFails(i)
    PROVE  OptSound'
<1>0. (OptSpend \/ OptFree) /\ UNCHANGED titleVars
  <2>1. CASE PollAnswer
    BY <2>1 DEF PollAnswer, PollProjects, PollReads, PollLands
  <2>2. CASE ToggleAnswer
    BY <2>2 DEF ToggleAnswer, ToggleCall, ToggleLands
  <2>3. ASSUME NEW p, NEW pin, Toggle(p, pin) PROVE (OptSpend \/ OptFree) /\ UNCHANGED titleVars
    BY <2>3 DEF Toggle
  <2>4. ASSUME NEW i, ToggleFails(i) PROVE (OptSpend \/ OptFree) /\ UNCHANGED titleVars
    BY <2>4 DEF ToggleFails
  <2> QED  BY <2>1, <2>2, <2>3, <2>4
<1>1. /\ optSteps' \in 0..OptSteps /\ optSteps <= optSteps' /\ optSteps \in Nat
      /\ UNCHANGED titleVars
  BY <1>0, OptimisticAssumption DEF OptSound, OptSpend, OptFree
<1>2. TitlesSound'
  BY <1>1 DEF OptSound, TitlesSound, titleVars
<1>3. MarksSound'
  <2>1. CASE PollAnswer
    BY <2>1, PollTypes DEF OptSound, MarksSound, PollAnswer, PollProjects, PollReads, PollLands
  <2>2. ASSUME NEW p \in Projects, NEW pin \in BOOLEAN, Toggle(p, pin) PROVE MarksSound'
    <3>1. projects' \in Maps
      BY <2>2 DEF OptSound, Toggle, Maps
    <3> DEFINE new == [p |-> p, to |-> ~projects[p], pin |-> pin, done |-> FALSE, map |-> projects]
    <3>2. new \in Toggles
      BY DEF OptSound, Toggles, Maps
    <3>3. toggles' = Append(toggles, new)
      BY <2>2, Zenon DEF Toggle
    <3> HIDE DEF new
    <3>4. toggles' \in Seq(Toggles)
      BY <3>2, <3>3 DEF OptSound
    <3> QED  BY <2>2, <3>1, <3>4 DEF OptSound, MarksSound, Toggle
  <2>3. ASSUME NEW i \in DOMAIN toggles, ToggleCall(i) PROVE MarksSound'
    <3>1. toggles[i] \in Toggles
      BY DEF OptSound
    <3>2. marks' \in Maps
      BY <2>3, <3>1 DEF OptSound, ToggleCall, Maps, Toggles
    <3>3. [toggles[i] EXCEPT !.done = TRUE, !.map = marks'] \in Toggles
      BY <3>1, <3>2 DEF Toggles
    <3>4. toggles' = [toggles EXCEPT ![i] = [toggles[i] EXCEPT !.done = TRUE, !.map = marks']]
      BY <2>3, <3>1 DEF ToggleCall, Toggles
    <3>5. toggles' \in Seq(Toggles)
      BY <3>3, <3>4 DEF OptSound
    <3> QED  BY <2>3, <3>2, <3>5 DEF OptSound, MarksSound, ToggleCall
  <2>4. ASSUME NEW i \in DOMAIN toggles, ToggleLands(i) PROVE MarksSound'
    <3>1. toggles[i] \in Toggles
      BY DEF OptSound
    <3>2. toggles' \in Seq(Toggles)
      BY <2>4, RemovedToggle DEF OptSound, ToggleLands
    <3> QED  BY <2>4, <3>1, <3>2 DEF OptSound, MarksSound, ToggleLands, Toggles
  <2>5. ASSUME NEW i \in DOMAIN toggles, ToggleFails(i) PROVE MarksSound'
    <3>1. toggles[i] \in Toggles
      BY DEF OptSound
    <3>2. toggles' \in Seq(Toggles)
      BY <2>5, RemovedToggle DEF OptSound, ToggleFails
    <3>3. marks' \in Maps
      BY <2>5, <3>1 DEF OptSound, ToggleFails, Maps, Toggles
    <3> QED  BY <2>5, <3>1, <3>2, <3>3, PollTypes DEF OptSound, MarksSound, ToggleFails, Toggles
  <2> QED  BY <2>1, <2>2, <2>3, <2>4, <2>5 DEF ToggleAnswer
<1> QED  BY <1>1, <1>2, <1>3 DEF OptSound, TitlesSound, MarksSound

LEMMA OptStep == OptSound /\ [OptNext]_optVars => OptSound'
<1> SUFFICES ASSUME OptSound, [OptNext]_optVars PROVE OptSound'
  OBVIOUS
<1>1. CASE OptNext
  BY <1>1, TitleStep, MarkStep DEF OptNext
<1>2. CASE UNCHANGED optVars
  BY <1>2 DEF OptSound, optVars, titleVars, markVars
<1> QED  BY <1>1, <1>2

LEMMA OptHolds == OptSound => OptTypeOK
<1> SUFFICES ASSUME OptSound PROVE OptTypeOK
  OBVIOUS
<1>1. 0..optSteps \subseteq 0..(OptSteps + 1)
  BY OptimisticAssumption DEF OptSound
<1> QED  BY <1>1 DEF OptSound, OptTypeOK, Maps

(***************************************************************************)
(* The route.                                                              *)
(***************************************************************************)
NavSound ==
    /\ history \in Seq(Hashes) /\ at \in DOMAIN history /\ pending \in BOOLEAN
    /\ archived \subseteq Chats
    /\ currentRunId \in {Nowhere, Run1} /\ currentSid \in Chats \union {Nowhere}
    /\ scheduledDetailSid \in Chats \union {Nowhere} /\ currentPage \in {"home", "scheduled"}
    /\ currentRunId # Nowhere => currentSid = Nowhere
    /\ scheduledDetailSid # Nowhere =>
          currentRunId = Nowhere /\ currentSid = Nowhere /\ currentPage = "scheduled"
    /\ ~pending => Shown = here

\* The fields name one page.
FieldsSound ==
    /\ currentRunId \in {Nowhere, Run1} /\ currentSid \in Chats \union {Nowhere}
    /\ scheduledDetailSid \in Chats \union {Nowhere} /\ currentPage \in {"home", "scheduled"}
    /\ currentRunId # Nowhere => currentSid = Nowhere
    /\ scheduledDetailSid # Nowhere =>
          currentRunId = Nowhere /\ currentSid = Nowhere /\ currentPage = "scheduled"

LEMMA ShowShows ==
    ASSUME NEW h \in Hashes, Show(h)
    PROVE  FieldsSound' /\ Shown' = h
<1>1. h.kind \in {"home", "scheduled", "run", "session", "detail"}
  BY DEF Hashes, Hash
<1>2. CASE h.kind = "session"
  <2>1. h.id \in Chats /\ h = Hash("session", h.id)
    BY <1>2 DEF Hashes, Hash
  <2>2. h.id # Nowhere
    BY <2>1, NavigationAssumption
  <2> QED  BY <1>2, <2>1, <2>2 DEF Show, select, Fields, FieldsSound, Shown
<1>3. CASE h.kind = "detail"
  <2>1. h.id \in Chats /\ h = Hash("detail", h.id)
    BY <1>3 DEF Hashes, Hash
  <2>2. h.id # Nowhere
    BY <2>1, NavigationAssumption
  <2> QED  BY <1>3, <2>1, <2>2 DEF Show, showScheduledDetail, Fields, FieldsSound, Shown
<1>4. CASE h.kind = "run"
  <2>1. h = Hash("run", Run1) /\ h.id = Run1 /\ Run1 # Nowhere
    BY <1>4 DEF Hashes, Hash, Run1, Nowhere
  <2> QED  BY <1>4, <2>1 DEF Show, selectRun, Fields, FieldsSound, Shown
<1>5. CASE h.kind \in {"home", "scheduled"}
  <2>1. h = Hash(h.kind, Nowhere)
    BY <1>5 DEF Hashes, Hash
  <2>2. showPage(h.kind)
    BY <1>5 DEF Show
  <2> QED  BY <1>5, <2>1, <2>2 DEF showPage, Fields, FieldsSound, Shown
<1> QED  BY <1>1, <1>2, <1>3, <1>4, <1>5

\* A hash that is set is the one here; without a new event it was here before.
LEMMA SetHashHere ==
    ASSUME NEW h \in Hashes, history \in Seq(Hashes), at \in DOMAIN history, pending \in BOOLEAN,
           setHash(h)
    PROVE  /\ history' \in Seq(Hashes) /\ at' \in DOMAIN history' /\ pending' \in BOOLEAN
           /\ here' = h /\ (~pending' => ~pending /\ here = h)
<1>1. CASE h = here
  BY <1>1 DEF setHash, here
<1>2. CASE h # here
  <2>1. /\ history' = Append(SubSeq(history, 1, at), h) /\ at' = at + 1 /\ pending' = TRUE
    BY <1>2 DEF setHash
  <2>2. at \in 1..Len(history)
    OBVIOUS
  <2>3. SubSeq(history, 1, at) \in Seq(Hashes) /\ Len(SubSeq(history, 1, at)) = at
    BY <2>2
  <2>4. history' \in Seq(Hashes) /\ Len(history') = at + 1 /\ history'[at + 1] = h
    BY <2>1, <2>3
  <2> QED  BY <2>1, <2>2, <2>4 DEF here
<1> QED  BY <1>1, <1>2

LEMMA NavStep == NavSound /\ [NavNext]_navVars => NavSound'
<1> SUFFICES ASSUME NavSound, [NavNext]_navVars PROVE NavSound'
  OBVIOUS
<1> USE DEF NavSound
<1>1. ASSUME NEW h \in Hashes, Click(h) PROVE NavSound'
  <2>1. FieldsSound' /\ Shown' = h
    BY <1>1, ShowShows DEF Click
  <2>2. /\ history' \in Seq(Hashes) /\ at' \in DOMAIN history' /\ pending' \in BOOLEAN /\ here' = h
    BY <1>1, SetHashHere DEF Click
  <2> QED  BY <1>1, <2>1, <2>2 DEF Click, FieldsSound
<1>2. ASSUME NEW h \in Hashes, TypeHash(h) PROVE NavSound'
  <2>1. /\ history' \in Seq(Hashes) /\ at' \in DOMAIN history' /\ pending' \in BOOLEAN
        /\ ~pending' => here = h
    BY <1>2, SetHashHere DEF TypeHash
  <2> QED  BY <1>2, <2>1 DEF TypeHash, fields
<1>3. ASSUME NEW to, Traverse(to) PROVE NavSound'
  BY <1>3 DEF Traverse, fields, Shown, here
<1>4. ASSUME HashChange PROVE NavSound'
  <2>1. here \in Hashes
    BY DEF here
  <2>2. UNCHANGED <<archived, history, at>> /\ pending' = FALSE /\ here' = here
    BY <1>4 DEF HashChange, here
  <2>3. CASE UNCHANGED fields /\ here.kind = "run" /\ here.id = currentRunId
    <3>1. here = Hash("run", Run1) /\ currentRunId # Nowhere /\ Shown = here
      BY <2>1, <2>3 DEF Hashes, Hash, Shown, Run1, Nowhere
    <3> QED  BY <2>2, <2>3, <3>1 DEF fields, Shown
  <2>4. CASE UNCHANGED fields /\ here.kind = "session" /\ here.id = currentSid
    <3>1. here = Hash("session", currentSid) /\ currentSid \in Chats
      BY <2>1, <2>4 DEF Hashes, Hash
    <3>2. currentSid # Nowhere /\ Shown = here
      BY <3>1, NavigationAssumption DEF Shown
    <3> QED  BY <2>2, <2>4, <3>2 DEF fields, Shown
  <2>5. CASE UNCHANGED fields /\ here.kind = "home"
             /\ <<currentSid, currentRunId, currentPage>> = <<Nowhere, Nowhere, "home">>
    <3>1. here = Hash("home", Nowhere) /\ Shown = here
      BY <2>1, <2>5 DEF Hashes, Hash, Shown
    <3> QED  BY <2>2, <2>5, <3>1 DEF fields, Shown
  <2>6. CASE Show(here)
    <3>1. FieldsSound' /\ Shown' = here
      BY <2>1, <2>6, ShowShows
    <3> QED  BY <2>2, <3>1 DEF FieldsSound
  <2> QED  BY <1>4, <2>3, <2>4, <2>5, <2>6 DEF HashChange
<1>5. ASSUME NEW s \in Chats, toggleArchive(s) PROVE NavSound'
  <2>1. archived' \subseteq Chats /\ s # Nowhere
    BY <1>5, NavigationAssumption DEF toggleArchive
  <2>2. ASSUME NEW page \in {"home", "scheduled"}, replaceHash(Hash(page, Nowhere))
        PROVE  /\ history' \in Seq(Hashes) /\ at' \in DOMAIN history' /\ pending' \in BOOLEAN
               /\ here' = Hash(page, Nowhere)
    <3>1. Hash(page, Nowhere) \in Hashes
      BY DEF Hashes
    <3> QED  BY <2>2, <3>1 DEF replaceHash, here
  <2>3. CASE UNCHANGED <<fields, history, at, pending>>
    BY <2>1, <2>3 DEF fields, Shown, here
  <2>4. CASE CloseRoute("scheduled")
    BY <2>1, <2>2, <2>4 DEF CloseRoute, showPage, Fields, Shown
  <2>5. CASE /\ currentSid = s /\ currentSid' = Nowhere /\ currentRunId' = Nowhere
             /\ currentPage' = "home" /\ UNCHANGED scheduledDetailSid
             /\ replaceHash(Hash("home", Nowhere))
    <3>1. scheduledDetailSid = Nowhere
      BY <2>1, <2>5
    <3> QED  BY <2>1, <2>2, <2>5, <3>1 DEF Shown
  <2> QED  BY <1>5, <2>3, <2>4, <2>5 DEF toggleArchive
<1>6. ASSUME UNCHANGED navVars PROVE NavSound'
  BY <1>6 DEF navVars, fields, Shown, here
<1> QED  BY <1>1, <1>2, <1>3, <1>4, <1>5, <1>6 DEF NavNext

LEMMA NavStart == NavInit => NavSound
<1> SUFFICES ASSUME NavInit PROVE NavSound
  OBVIOUS
<1>1. PICK h \in Hashes : history = <<h>>
  BY DEF NavInit
<1>2. here = h /\ history \in Seq(Hashes) /\ at \in DOMAIN history
  BY <1>1 DEF NavInit, here
<1>3. Shown = Hash("home", Nowhere)
  BY DEF NavInit, Shown
<1> QED  BY <1>2, <1>3 DEF NavInit, NavSound

LEMMA NavHolds == NavSound => NavTypeOK /\ RouteFollowsHash
<1> SUFFICES ASSUME NavSound PROVE NavTypeOK /\ RouteFollowsHash
  OBVIOUS
<1>1. NavTypeOK
  BY DEF NavSound, NavTypeOK
<1>2. scheduledDetailSid # Nowhere => Shown.kind = "detail"
  BY DEF NavSound, Shown, Hash
<1> QED  BY <1>1, <1>2 DEF NavSound, RouteFollowsHash

(***************************************************************************)
(* The page of schedules.                                                  *)
(***************************************************************************)
IsLoad(l) == l = [of |-> l.of, reply |-> l.reply, awaited |-> l.awaited]
IsForm(f) == f = [of |-> f.of, base |-> f.base, known |-> f.known, turned |-> f.turned]
IsSave(s) == s = [at |-> s.at, to |-> s.to, draft |-> s.draft, back |-> s.back, orphan |-> s.orphan,
                  stray |-> s.stray]
ServerTypes ==
    /\ rev \in [Series -> Nat] /\ paused \in [Series -> BOOLEAN] /\ updated \in [Series -> Nat]
    /\ listed \in [Series -> [paused : BOOLEAN, updated : Nat]]
Ops == [at : {"none", "call", "refresh", "load"}, pause : BOOLEAN, mine : BOOLEAN,
        mixed : BOOLEAN]
OpsTypes == ops \in [Series -> Ops]
PanelTypes ==
    /\ sid \in Series \union {None} /\ detail \in Views \union {None}
    /\ IsLoad(load) /\ load.of \in Series \union {None} /\ load.reply \in Views \union {None}
    /\ strayed \in BOOLEAN
FlagTypes ==
    /\ acting \in BOOLEAN /\ editing \in BOOLEAN /\ error \in BOOLEAN
    /\ schedSteps \in 0..SchedSteps
FormTypes ==
    /\ IsForm(form) /\ form.of \in Series \union {None}
    /\ form # NoDraft => editing /\ sid # None /\ detail # None
SaveTypes ==
    /\ IsSave(save) /\ save.to \in Series \union {None}
    /\ save.at # "none" => save.to \in Series /\ save.back \in Series
    /\ save.at \in {"call", "refetch"} /\ ~save.orphan => form # NoDraft
SchedTypes == ServerTypes /\ OpsTypes /\ PanelTypes /\ FlagTypes /\ FormTypes /\ SaveTypes

LEMMA SchedNothing ==
    /\ IsLoad(NoLoad) /\ NoLoad.of = None /\ NoLoad.reply = None /\ ~NoLoad.awaited
    /\ IsForm(NoDraft) /\ NoDraft.of = None
    /\ IsSave(NoSave) /\ NoSave.at = "none" /\ NoSave.to = None
    /\ \A s, b : IsLoad(Load(s, b)) /\ Load(s, b).of = s /\ Load(s, b).reply = None
                 /\ Load(s, b).awaited = b
    /\ \A d \in Views : \A t : /\ IsForm(Fresh(d, t)) /\ Fresh(d, t).of = d.of /\ d.of \in Series
                                /\ Fresh(d, t).base \in Fresh(d, t).known /\ Fresh(d, t).turned = t
  BY DEF IsLoad, IsForm, IsSave, NoLoad, NoDraft, NoSave, Load, Fresh, Views

\* The server's schedules, and the rows of the list.
LEMMA ServerStep == SchedTypes /\ [SchedNext]_schedVars => ServerTypes'
<1> SUFFICES ASSUME ServerTypes, OpsTypes, SaveTypes, [SchedNext]_schedVars PROVE ServerTypes'
  BY DEF SchedTypes
<1>1. Rows \in [Series -> [paused : BOOLEAN, updated : Nat]]
  BY DEF Rows, ServerTypes
<1>2. ASSUME NEW s \in Series, NEW b \in BOOLEAN, Apply(s, b), UNCHANGED listed PROVE ServerTypes'
  BY <1>2 DEF Apply, Touch, ServerTypes
<1>3. ASSUME UNCHANGED schedServer, listed' \in {listed, Rows} PROVE ServerTypes'
  BY <1>1, <1>3 DEF schedServer, ServerTypes
<1>4. ASSUME NEW s \in Series, rev' = [rev EXCEPT ![s] = @ + 1], Touch(s), UNCHANGED <<paused, listed>>
      PROVE  ServerTypes'
  BY <1>4 DEF Touch, ServerTypes
<1>5. ASSUME Accepted, UNCHANGED listed PROVE ServerTypes'
  <2>1. save.to \in Series
    BY <1>5 DEF Accepted, SaveTypes
  <2> QED  BY <1>4, <1>5, <2>1 DEF Accepted
<1>6. ASSUME NEW s \in Series, Answers(s) \/ ControlFails(s) \/ Elsewhere(s) PROVE ServerTypes'
  <2>0. ops[s].pause \in BOOLEAN
    BY DEF OpsTypes, Ops
  <2>1. CASE ControlCall(s)
    BY <1>2, <2>0, <2>1 DEF ControlCall
  <2>2. CASE ControlRefreshes(s) \/ ControlEnds(s)
    BY <1>3, <2>2 DEF ControlRefreshes, ControlEnds
  <2>3. CASE ControlFails(s)
    BY <1>2, <1>3, <2>0, <2>3 DEF ControlFails
  <2>4. CASE Elsewhere(s)
    BY <1>2, <1>4, <2>4 DEF Elsewhere, ServerTypes
  <2> QED  BY <1>6, <2>1, <2>2, <2>3, <2>4 DEF Answers
<1>7. ASSUME \/ \E s, c : ShowDetail(s, c)
             \/ Retry \/ LoadStep \/ LoadFails \/ PollList \/ (\E s, b : Control(s, b))
             \/ BeginEdit \/ CloseEdit \/ Save
      PROVE  ServerTypes'
  BY <1>3, <1>7 DEF ShowDetail, Retry, LoadStep, ServerReads, LoadLands, LoadFails, PollList, Refreshed,
     Control, BeginEdit, CloseEdit, Save
<1>8. ASSUME SaveAnswers \/ Refetch(FALSE) \/ SaveFails PROVE ServerTypes'
  <2>1. CASE SaveCall
    BY <1>5, <2>1 DEF SaveCall
  <2>2. CASE SaveFails
    BY <1>3, <1>5, <2>2 DEF SaveFails
  <2>3. CASE SaveRefreshes \/ SaveConflicts \/ \E ok : Refetch(ok)
    BY <1>3, <2>3 DEF SaveRefreshes, SaveConflicts, Refetch
  <2> QED  BY <1>8, <2>1, <2>2, <2>3 DEF SaveAnswers
<1>9. CASE UNCHANGED schedVars
  BY <1>3, <1>9 DEF schedVars
<1> QED  BY <1>6, <1>7, <1>8, <1>9 DEF SchedNext

\* The controls on their way.
LEMMA OpsStep == SchedTypes /\ [SchedNext]_schedVars => OpsTypes'
<1> SUFFICES ASSUME OpsTypes, [SchedNext]_schedVars PROVE OpsTypes'
  BY DEF SchedTypes
<1>1. NoOp \in Ops
  BY DEF NoOp, Ops
<1>2. \A s : Done(s) \in [Series -> Ops]
  BY <1>1 DEF Done, OpsTypes
<1>3. ASSUME UNCHANGED ops \/ \E s : ops' = Done(s) PROVE OpsTypes'
  BY <1>2, <1>3 DEF OpsTypes
<1>4. ASSUME NEW s, NEW x \in {"refresh", "load"}, ops' = [ops EXCEPT ![s].at = x] PROVE OpsTypes'
  BY <1>4 DEF OpsTypes, Ops
<1>5. ASSUME NEW s, NEW b \in BOOLEAN, Control(s, b) PROVE OpsTypes'
  <2>1. [at |-> "call", pause |-> b, mine |-> s = sid,
         mixed |-> s = sid /\ \E o \in Series : ops[o].mine] \in Ops
    BY DEF Ops
  <2>2. \A t \in Series : [ops[t] EXCEPT !.mixed = @ \/ (s = sid /\ ops[t].mine)] \in Ops
    BY DEF OpsTypes, Ops
  <2> QED  BY <1>5, <2>1, <2>2 DEF Control, OpsTypes
<1>6. ASSUME NEW s, Answers(s) \/ ControlFails(s) \/ Elsewhere(s) PROVE OpsTypes'
  BY <1>3, <1>4, <1>6 DEF Answers, ControlCall, ControlRefreshes, ControlEnds, ControlFails, Elsewhere
<1>7. ASSUME LoadLands \/ LoadFails PROVE OpsTypes'
  BY <1>3, <1>7 DEF LoadLands, LoadFails, Landed
<1>8. ASSUME \/ \E s, c : ShowDetail(s, c)
             \/ Retry \/ ServerReads \/ PollList \/ BeginEdit \/ CloseEdit \/ Save
             \/ SaveAnswers \/ Refetch(FALSE) \/ SaveFails \/ UNCHANGED schedVars
      PROVE  OpsTypes'
  <2>1. CASE \/ \E s, c : ShowDetail(s, c)
             \/ Retry \/ ServerReads \/ PollList \/ BeginEdit \/ CloseEdit \/ Save
    BY <1>3, <2>1 DEF ShowDetail, Retry, ServerReads, PollList, BeginEdit, CloseEdit, Save
  <2>2. CASE SaveAnswers \/ Refetch(FALSE) \/ SaveFails \/ UNCHANGED schedVars
    BY <1>3, <2>2 DEF SaveAnswers, SaveCall, SaveRefreshes, SaveConflicts, Refetch, SaveFails, schedVars
  <2> QED  BY <1>8, <2>1, <2>2
<1> QED  BY <1>5, <1>6, <1>7, <1>8 DEF SchedNext, LoadStep

\* The panel.
LEMMA PanelStep == SchedTypes /\ [SchedNext]_schedVars => PanelTypes'
<1> SUFFICES ASSUME ServerTypes, PanelTypes, SaveTypes, [SchedNext]_schedVars PROVE PanelTypes'
  BY DEF SchedTypes
<1>0. ASSUME UNCHANGED panel PROVE PanelTypes'
  BY <1>0 DEF panel, PanelTypes
<1>1. ASSUME UNCHANGED <<sid, detail>>, NEW s \in Series \union {None}, NEW b,
             load' = load \/ load' = Load(s, b), strayed' = strayed \/ strayed' = (strayed \/ s # sid)
      PROVE  PanelTypes'
  <2>1. strayed' \in BOOLEAN
    BY <1>1 DEF PanelTypes
  <2>2. IsLoad(load') /\ load'.of \in Series \union {None} /\ load'.reply \in Views \union {None}
    BY <1>1, SchedNothing DEF PanelTypes
  <2> QED  BY <1>1, <2>1, <2>2 DEF PanelTypes
<1>2. \A rs : Reload(rs) = load \/ Reload(rs) = Load(sid, FALSE)
  BY DEF Reload
<1>3. ASSUME NEW s \in Series \union {None}, NEW c, ShowDetail(s, c) PROVE PanelTypes'
  <2>1. sid' = s /\ detail' \in {detail, None} /\ (load' = NoLoad \/ load' = Load(s, FALSE))
        /\ strayed' \in BOOLEAN
    BY <1>3 DEF ShowDetail, Asks
  <2>2. IsLoad(load') /\ load'.of \in {s, None} /\ load'.reply = None
    <3>1. CASE load' = NoLoad
      BY <3>1, SchedNothing
    <3>2. CASE load' = Load(s, FALSE)
      BY <3>2 DEF Load, IsLoad
    <3> QED  BY <2>1, <3>1, <3>2
  <2> QED  BY <2>1, <2>2 DEF PanelTypes
<1>4. ASSUME Retry PROVE PanelTypes'
  BY <1>1, <1>4 DEF Retry, Asks, PanelTypes
<1>5. ASSUME ServerReads PROVE PanelTypes'
  <2>1. load.of \in Series /\ View(load.of) \in Views
    BY <1>5 DEF ServerReads, PanelTypes, View, Views, ServerTypes
  <2>2. load' = [of |-> load.of, reply |-> View(load.of), awaited |-> load.awaited]
    BY <1>5 DEF ServerReads, PanelTypes, IsLoad
  <2>3. UNCHANGED <<sid, detail, strayed>>
    BY <1>5 DEF ServerReads
  <2> QED  BY <2>1, <2>2, <2>3 DEF PanelTypes, IsLoad
<1>6. ASSUME LoadLands \/ LoadFails PROVE PanelTypes'
  BY <1>6, SchedNothing DEF LoadLands, LoadFails, PanelTypes
<1>7. ASSUME PollList PROVE PanelTypes'
  BY <1>1, <1>2, <1>7 DEF PollList, Refreshed, PanelTypes
<1>8. ASSUME NEW s \in Series, ControlRefreshes(s) PROVE PanelTypes'
  BY <1>1, <1>2, <1>8 DEF ControlRefreshes, Asks, Refreshed, PanelTypes
<1>9. ASSUME SaveRefreshes PROVE PanelTypes'
  BY <1>1, <1>9 DEF SaveRefreshes, Asks, SaveTypes
<1>10. ASSUME \/ \E s, b : Control(s, b)
              \/ \E s : ControlCall(s) \/ ControlEnds(s) \/ ControlFails(s) \/ Elsewhere(s)
              \/ BeginEdit \/ CloseEdit \/ Save \/ SaveCall \/ SaveConflicts \/ (\E ok : Refetch(ok))
              \/ SaveFails \/ UNCHANGED schedVars
       PROVE  PanelTypes'
  BY <1>0, <1>10 DEF Control, ControlCall, ControlEnds, ControlFails, Elsewhere, BeginEdit, CloseEdit,
     Save, SaveCall, SaveConflicts, Refetch, SaveFails, schedVars
<1> QED  BY <1>3, <1>4, <1>5, <1>6, <1>7, <1>8, <1>9, <1>10 DEF SchedNext, LoadStep, Answers, SaveAnswers

\* The dialog's draft and its save.
DialogTypes == FormTypes /\ SaveTypes
LEMMA Rendered ==
    ASSUME PanelTypes', FormTypes, Render PROVE FormTypes'
<1>1. CASE ~editing' \/ sid' = None \/ detail' = None
  BY <1>1, SchedNothing DEF Render, FormTypes
<1>2. CASE editing' /\ sid' # None /\ detail' # None /\ form = NoDraft
  <2>1. form' = Fresh(detail', strayed') /\ detail' \in Views
    BY <1>2 DEF Render, PanelTypes
  <2> QED  BY <1>2, <2>1, SchedNothing DEF FormTypes
<1>3. CASE editing' /\ sid' # None /\ detail' # None /\ form # NoDraft
  <2>1. form' = [form EXCEPT !.turned = @ \/ sid' # sid]
    BY <1>3 DEF Render
  <2> QED  BY <1>3, <2>1 DEF FormTypes, IsForm
<1> QED  BY <1>1, <1>2, <1>3

LEMMA OrphanedSave ==
    ASSUME SaveTypes, save' = Orphaned PROVE SaveTypes'
<1> DEFINE o == save.at # "none" /\ (save.orphan \/ form' = NoDraft)
<1>1. save' = [at |-> save.at, to |-> save.to, draft |-> save.draft, back |-> save.back, orphan |-> o,
               stray |-> save.stray]
  BY DEF Orphaned, SaveTypes, IsSave
<1>2. ~o => save.at = "none" \/ (~save.orphan /\ form' # NoDraft)
  OBVIOUS
<1> HIDE DEF o
<1>3. save'.at = save.at /\ save'.to = save.to /\ save'.back = save.back /\ (save'.orphan <=> o)
      /\ IsSave(save')
  BY <1>1 DEF IsSave
<1> QED  BY <1>2, <1>3 DEF SaveTypes

LEMMA SaveIs ==
    ASSUME SaveTypes, NEW x, save' = [save EXCEPT !.at = x]
    PROVE  save' = [at |-> x, to |-> save.to, draft |-> save.draft, back |-> save.back,
                    orphan |-> save.orphan, stray |-> save.stray]
  BY DEF SaveTypes, IsSave

LEMMA DialogStep == SchedTypes /\ [SchedNext]_schedVars => DialogTypes'
<1> SUFFICES ASSUME PanelTypes, PanelTypes', FlagTypes, FormTypes, SaveTypes, [SchedNext]_schedVars
             PROVE  FormTypes' /\ SaveTypes'
  BY PanelStep DEF SchedTypes, DialogTypes
<1>1. ASSUME Render, save' = Orphaned PROVE FormTypes' /\ SaveTypes'
  BY <1>1, Rendered, OrphanedSave
<1>2. ASSUME UNCHANGED <<sid, detail, dialog>> PROVE FormTypes'
  BY <1>2 DEF FormTypes, dialog
<1>3. ASSUME UNCHANGED <<sid, detail, dialog, save>> PROVE FormTypes' /\ SaveTypes'
  BY <1>2, <1>3 DEF SaveTypes, dialog
<1>4. ASSUME save' = NoSave PROVE SaveTypes'
  BY <1>4, SchedNothing DEF SaveTypes
<1>5. ASSUME (\E s, c : ShowDetail(s, c)) \/ LoadLands \/ LoadFails \/ CloseEdit
      PROVE  FormTypes' /\ SaveTypes'
  BY <1>1, <1>5 DEF ShowDetail, LoadLands, LoadFails, CloseEdit
<1>6. ASSUME BeginEdit PROVE FormTypes' /\ SaveTypes'
  <2>1. FormTypes' /\ save' = save /\ form = NoDraft
    BY <1>6, Rendered DEF BeginEdit, FormTypes
  <2> QED  BY <2>1 DEF SaveTypes
<1>7. ASSUME Save PROVE FormTypes' /\ SaveTypes'
  <2>1. detail \in Views /\ sid \in Series /\ form # NoDraft
    BY <1>7 DEF Save, FormTypes, PanelTypes
  <2>2. detail.of \in Series
    BY <2>1 DEF Views
  <2>3. save' = [at |-> "call", to |-> detail.of, draft |-> form, back |-> sid, orphan |-> FALSE,
                 stray |-> strayed \/ form.turned]
        /\ UNCHANGED <<sid, detail, dialog>>
    BY <1>7 DEF Save, panel
  <2> QED  BY <1>2, <2>1, <2>2, <2>3 DEF SaveTypes, IsSave, dialog
<1>8. ASSUME SaveCall PROVE FormTypes' /\ SaveTypes'
  <2>1. save' = [save EXCEPT !.at = "refresh"] /\ Render
    BY <1>8 DEF SaveCall
  <2>2. save.at # "none"
    BY <1>8 DEF SaveCall, Accepted
  <2> QED  BY <2>1, <2>2, SaveIs, Rendered DEF SaveTypes, IsSave
<1>9. ASSUME SaveConflicts PROVE FormTypes' /\ SaveTypes'
  <2>1. save' = [save EXCEPT !.at = "refetch"] /\ UNCHANGED <<sid, detail, dialog>> /\ save.at = "call"
    BY <1>9 DEF SaveConflicts, panel
  <2> QED  BY <1>2, <2>1, SaveIs DEF SaveTypes, IsSave, dialog
<1>10. ASSUME NEW ok, Refetch(ok) PROVE FormTypes' /\ SaveTypes'
  <2>1. save.at = "refetch" /\ save' = NoSave /\ UNCHANGED <<sid, detail, editing>>
    BY <1>10 DEF Refetch, panel
  <2>2. CASE form' = form
    BY <1>4, <2>1, <2>2 DEF FormTypes
  <2>3. CASE form' # form
    <3>1. /\ ~save.orphan
          /\ form' = [form EXCEPT !.base = rev[save.to], !.known = @ \union {rev[save.to]}]
      BY <1>10, <2>3 DEF Refetch
    <3>2. form' = [of |-> form.of, base |-> rev[save.to], known |-> form.known \union {rev[save.to]},
                   turned |-> form.turned]
      BY <3>1 DEF FormTypes, IsForm
    <3>3. form # NoDraft
      BY <2>1, <3>1 DEF SaveTypes
    <3> QED  BY <1>4, <2>1, <3>2, <3>3 DEF FormTypes, IsForm
  <2> QED  BY <2>2, <2>3
<1>11. ASSUME SaveRefreshes \/ SaveFails PROVE FormTypes' /\ SaveTypes'
  BY <1>2, <1>4, <1>11 DEF SaveRefreshes, SaveFails, panel
<1>12. ASSUME \/ Retry \/ ServerReads \/ PollList \/ (\E s, b : Control(s, b))
              \/ \E s : Answers(s) \/ ControlFails(s) \/ Elsewhere(s)
              \/ UNCHANGED schedVars
       PROVE  FormTypes' /\ SaveTypes'
  BY <1>3, <1>12 DEF Retry, ServerReads, PollList, Control, Answers, ControlCall, ControlRefreshes,
     ControlEnds, ControlFails, Elsewhere, schedVars, panel
<1> QED  BY <1>5, <1>6, <1>7, <1>8, <1>9, <1>10, <1>11, <1>12 DEF SchedNext, LoadStep, SaveAnswers

LEMMA FlagStep == SchedTypes /\ [SchedNext]_schedVars => FlagTypes'
<1> SUFFICES ASSUME FlagTypes, [SchedNext]_schedVars PROVE FlagTypes'
  BY DEF SchedTypes
<1>1. schedSteps' \in 0..SchedSteps
  <2>1. SchedSpend \/ SchedFree
    BY DEF SchedNext, LoadStep, Answers, SaveAnswers, ShowDetail, Retry, ServerReads, LoadLands, LoadFails,
       PollList, Control, ControlCall, ControlRefreshes, ControlEnds, ControlFails, BeginEdit, CloseEdit,
       Save, SaveCall, SaveRefreshes, SaveConflicts, Refetch, SaveFails, Elsewhere, schedVars, SchedFree
  <2> QED  BY <2>1, ScheduledAssumption DEF FlagTypes, SchedSpend, SchedFree
<1>2. acting' \in BOOLEAN
  BY Zenon DEF FlagTypes, SchedNext, LoadStep, Answers, SaveAnswers, ShowDetail, Retry, ServerReads,
     LoadLands, LoadFails, Landed, PollList, Control, ControlCall, ControlRefreshes, ControlEnds,
     ControlFails, BeginEdit, CloseEdit, Save, SaveCall, SaveRefreshes, SaveConflicts, Refetch, SaveFails,
     Elsewhere, schedVars
<1>3. editing' \in BOOLEAN
  BY Zenon DEF FlagTypes, SchedNext, LoadStep, Answers, SaveAnswers, ShowDetail, Retry, ServerReads,
     LoadLands, LoadFails, PollList, Control, ControlCall, ControlRefreshes, ControlEnds,
     ControlFails, BeginEdit, CloseEdit, Save, SaveCall, SaveRefreshes, SaveConflicts, Refetch, SaveFails,
     Elsewhere, schedVars, dialog
<1>4. error' \in BOOLEAN
  BY Zenon DEF FlagTypes, SchedNext, LoadStep, Answers, SaveAnswers, ShowDetail, Asks, Retry, ServerReads,
     LoadLands, LoadFails, PollList, Refreshed, Control, ControlCall, ControlRefreshes, ControlEnds,
     ControlFails, BeginEdit, CloseEdit, Save, SaveCall, SaveRefreshes, SaveConflicts, Refetch, SaveFails,
     Elsewhere, schedVars, panel
<1> QED  BY <1>1, <1>2, <1>3, <1>4 DEF FlagTypes

LEMMA SchedTypeStep == SchedTypes /\ [SchedNext]_schedVars => SchedTypes'
  BY ServerStep, OpsStep, PanelStep, DialogStep, FlagStep DEF SchedTypes, DialogTypes

LEMMA SchedTypeStart == SchedInit => SchedTypes
<1> SUFFICES ASSUME SchedInit PROVE SchedTypes
  OBVIOUS
<1>1. ServerTypes
  BY DEF SchedInit, ServerTypes, Rows
<1>2. OpsTypes
  BY DEF SchedInit, OpsTypes, Ops, NoOp
<1>3. PanelTypes
  BY SchedNothing DEF SchedInit, PanelTypes
<1>4. FlagTypes
  <2>1. schedSteps \in 0..SchedSteps
    BY ScheduledAssumption DEF SchedInit
  <2> QED  BY <2>1, Zenon DEF SchedInit, FlagTypes
<1>5. FormTypes /\ SaveTypes
  BY SchedNothing DEF SchedInit, FormTypes, SaveTypes
<1> QED  BY <1>1, <1>2, <1>3, <1>4, <1>5 DEF SchedTypes

LEMMA SchedHolds == SchedTypes => SchedTypeOK
<1> SUFFICES ASSUME ServerTypes, PanelTypes, FlagTypes, FormTypes, SaveTypes PROVE SchedTypeOK
  BY DEF SchedTypes
<1>1. {sid, form.of, save.to} \subseteq Series \union {None}
  BY DEF PanelTypes, FormTypes, SaveTypes
<1>2. /\ listed \in [Series -> [paused : BOOLEAN, updated : Nat]]
      /\ detail \in Views \union {None} /\ load.reply \in Views \union {None}
  BY DEF ServerTypes, PanelTypes
<1>3. {acting, editing, error} \subseteq BOOLEAN /\ schedSteps \in 0..SchedSteps
  BY Zenon DEF FlagTypes
<1>4. form # NoDraft => editing
  BY DEF FormTypes
<1> QED  BY <1>1, <1>2, <1>3, <1>4, Zenon DEF SchedTypeOK

(***************************************************************************)
(* Loads, drafts, saves and controls of a schedule the user has turned     *)
(* from stay on their way. What has not strayed is of the route's schedule *)
(* and a dialog that has not been turned is of the schedule it shows; of   *)
(* controls clicked on two schedules of the panel every one is mixed.      *)
(***************************************************************************)
LoadSafe ==
    /\ load.awaited => load.of # None
    /\ load.reply # None => load.of # None /\ load.reply.of = load.of
    /\ ~strayed => load.of \in {None, sid}
DetailSafe == detail # None /\ ~strayed => sid # None /\ sid \in {detail.of, load.of}
Mounted == editing /\ sid # None /\ detail # None => form # NoDraft
FormSafe ==
    form # NoDraft => /\ form.base \in form.known
                      /\ ~form.turned => form.of = sid /\ (~strayed => detail.of = sid)
SaveSafe ==
    save.at # "none" => /\ save.draft.base \in save.draft.known
                        /\ ~save.stray => save.to = save.draft.of
PanelSafe == LoadSafe /\ DetailSafe
SchedSafe == PanelSafe /\ Mounted /\ FormSafe /\ SaveSafe
OpsSafe ==
    /\ \A s \in Series : ops[s].mixed => ops[s].mine
    /\ \A s \in Series : ops[s].at = "none" => ~ops[s].mine
    /\ \A s, q \in Series : ops[s].mine /\ ops[q].mine /\ s # q => ops[s].mixed
SchedSound == SchedTypes /\ SchedSafe /\ OpsSafe /\ SpinnerIsHonest

\* A control that is over takes the spinner with it only if it was the only one.
LEMMA DoneSafe ==
    ASSUME OpsTypes, OpsSafe, SpinnerIsHonest, NEW s \in Series, ops' = Done(s),
           acting' = (acting /\ ~ops[s].mine)
    PROVE  OpsSafe' /\ SpinnerIsHonest'
<1>1. \A t \in Series : ops'[t] = IF t = s THEN NoOp ELSE ops[t]
  BY DEF Done, OpsTypes
<1>2. ~NoOp.mine /\ ~NoOp.mixed
  BY DEF NoOp
<1>3. \A t \in Series : (ops'[t].mine <=> t # s /\ ops[t].mine) /\ (ops'[t].mixed <=> t # s /\ ops[t].mixed)
  BY <1>1, <1>2
<1>4. \A t \in Series : t # s => ops'[t].at = ops[t].at
  BY <1>1
<1>5. OpsSafe'
  BY <1>3, <1>4 DEF OpsSafe
<1>6. ASSUME \A t \in Series : ~ops'[t].mixed PROVE acting' <=> \E t \in Series : ops'[t].mine
  <2>1. \A t \in Series : t # s => ~ops[t].mixed
    BY <1>3, <1>6
  <2>2. acting' <=> acting /\ ~ops[s].mine
    OBVIOUS
  <2>3. CASE ops[s].mine
    <3>1. \A t \in Series : t # s => ~ops[t].mine
      BY <2>1, <2>3 DEF OpsSafe
    <3> QED  BY <1>3, <2>2, <2>3, <3>1
  <2>4. CASE ~ops[s].mine
    <3>1. acting <=> \E t \in Series : ops[t].mine
      BY <2>1, <2>4 DEF OpsSafe, SpinnerIsHonest
    <3> QED  BY <1>3, <2>2, <2>4, <3>1
  <2> QED  BY <2>3, <2>4
<1> QED  BY <1>5, <1>6 DEF SpinnerIsHonest

LEMMA ActingStep == SchedSound /\ [SchedNext]_schedVars => OpsSafe' /\ SpinnerIsHonest'
<1> SUFFICES ASSUME OpsTypes, PanelTypes, LoadSafe, OpsSafe, SpinnerIsHonest, [SchedNext]_schedVars
             PROVE  OpsSafe' /\ SpinnerIsHonest'
  BY DEF SchedSound, SchedTypes, SchedSafe, PanelSafe
<1>0. ASSUME UNCHANGED <<ops, acting>> PROVE OpsSafe' /\ SpinnerIsHonest'
  BY <1>0 DEF OpsSafe, SpinnerIsHonest
<1>1. ASSUME LoadLands \/ LoadFails PROVE OpsSafe' /\ SpinnerIsHonest'
  <2>1. Landed
    BY <1>1 DEF LoadLands, LoadFails
  <2>2. CASE load.awaited
    <3>1. load.of \in Series
      BY <2>2 DEF LoadSafe, PanelTypes
    <3> QED  BY <2>1, <2>2, <3>1, DoneSafe DEF Landed
  <2> QED  BY <1>0, <2>1, <2>2 DEF Landed
<1>2. ASSUME NEW s \in Series, NEW b, Control(s, b) PROVE OpsSafe' /\ SpinnerIsHonest'
  <2>1. /\ ops[s].at = "none" /\ acting' = (acting \/ s = sid)
        /\ ops' = [t \in Series |->
                     IF t # s THEN [ops[t] EXCEPT !.mixed = @ \/ (s = sid /\ ops[t].mine)]
                     ELSE [at |-> "call", pause |-> b, mine |-> s = sid,
                           mixed |-> s = sid /\ \E o \in Series : ops[o].mine]]
    BY <1>2 DEF Control
  <2>2. ASSUME NEW t \in Series, t # s
        PROVE  /\ ops'[t].at = ops[t].at /\ (ops'[t].mine <=> ops[t].mine)
               /\ ops'[t].mixed <=> ops[t].mixed \/ (s = sid /\ ops[t].mine)
    <3>1. ops'[t] = [ops[t] EXCEPT !.mixed = @ \/ (s = sid /\ ops[t].mine)] /\ ops[t] \in Ops
      BY <2>1, <2>2 DEF OpsTypes
    <3> QED  BY <3>1 DEF Ops
  <2>3. /\ ops'[s].at = "call" /\ (ops'[s].mine <=> s = sid)
        /\ ops'[s].mixed <=> s = sid /\ \E o \in Series : ops[o].mine
    BY <2>1
  <2>4. ~ops[s].mine
    BY <2>1 DEF OpsSafe
  <2>5. OpsSafe'
    BY <2>2, <2>3, <2>4 DEF OpsSafe
  <2>6. ASSUME \A t \in Series : ~ops'[t].mixed PROVE acting' <=> \E t \in Series : ops'[t].mine
    <3>1. \A t \in Series : ~ops[t].mixed
      BY <2>2, <2>4, <2>6 DEF OpsSafe
    <3>2. acting <=> \E t \in Series : ops[t].mine
      BY <3>1 DEF SpinnerIsHonest
    <3>3. acting' <=> acting \/ s = sid
      BY <2>1
    <3> QED  BY <2>2, <2>3, <2>4, <3>2, <3>3
  <2> QED  BY <2>5, <2>6 DEF SpinnerIsHonest
<1>3. ASSUME NEW s \in Series, NEW x \in {"refresh", "load"}, ops' = [ops EXCEPT ![s].at = x],
             ops[s].at # "none", UNCHANGED acting
      PROVE OpsSafe' /\ SpinnerIsHonest'
  <2>1. \A t \in Series : /\ ops'[t].mine = ops[t].mine /\ ops'[t].mixed = ops[t].mixed
                          /\ ops'[t].at = "none" <=> ops[t].at = "none"
    BY <1>3 DEF OpsTypes, Ops
  <2> QED  BY <1>3, <2>1 DEF OpsSafe, SpinnerIsHonest
<1>4. ASSUME NEW s \in Series, ControlCall(s) PROVE OpsSafe' /\ SpinnerIsHonest'
  BY <1>3, <1>4 DEF ControlCall
<1>5. ASSUME NEW s \in Series, ControlRefreshes(s) PROVE OpsSafe' /\ SpinnerIsHonest'
  <2>1. UNCHANGED acting /\ ops[s].at = "refresh"
    BY <1>5 DEF ControlRefreshes
  <2>2. CASE ops[s].mine
    BY <1>3, <1>5, <2>1, <2>2 DEF ControlRefreshes
  <2>3. CASE ~ops[s].mine
    <3>1. ops' = Done(s)
      BY <1>5, <2>3 DEF ControlRefreshes
    <3>2. ~ops[s].mixed /\ ~NoOp.mine /\ ~NoOp.mixed
      BY <2>3 DEF OpsSafe, NoOp
    <3>3. \A t \in Series : (ops'[t].mine <=> ops[t].mine) /\ (ops'[t].mixed <=> ops[t].mixed)
      BY <2>3, <3>1, <3>2 DEF Done, OpsTypes
    <3>4. \A t \in Series : t # s => ops'[t].at = ops[t].at
      BY <3>1 DEF Done, OpsTypes
    <3> QED  BY <2>1, <2>3, <3>3, <3>4 DEF OpsSafe, SpinnerIsHonest
  <2> QED  BY <2>2, <2>3
<1>6. ASSUME NEW s \in Series, ControlFails(s) \/ ControlEnds(s) PROVE OpsSafe' /\ SpinnerIsHonest'
  BY <1>6, DoneSafe DEF ControlFails, ControlEnds
<1>7. ASSUME \/ (\E s, c : ShowDetail(s, c)) \/ Retry \/ ServerReads \/ PollList \/ BeginEdit
             \/ CloseEdit \/ Save \/ \E s : Elsewhere(s)
      PROVE OpsSafe' /\ SpinnerIsHonest'
  BY <1>0, <1>7 DEF ShowDetail, Retry, ServerReads, PollList, BeginEdit, CloseEdit, Save, Elsewhere
<1>8. ASSUME SaveAnswers \/ Refetch(FALSE) \/ SaveFails \/ UNCHANGED schedVars
      PROVE OpsSafe' /\ SpinnerIsHonest'
  BY <1>0, <1>8 DEF SaveAnswers, SaveCall, SaveRefreshes, SaveConflicts, Refetch, SaveFails, schedVars
<1> QED  BY <1>1, <1>2, <1>4, <1>5, <1>6, <1>7, <1>8 DEF SchedNext, LoadStep, Answers

\* The loads and the detail.
LEMMA PanelStepSafe == SchedSound /\ [SchedNext]_schedVars => PanelSafe'
<1> SUFFICES ASSUME PanelTypes, SaveTypes, LoadSafe, DetailSafe, [SchedNext]_schedVars
             PROVE  LoadSafe' /\ DetailSafe'
  BY DEF SchedSound, SchedTypes, SchedSafe, PanelSafe
<1>0. ASSUME UNCHANGED panel PROVE LoadSafe' /\ DetailSafe'
  BY <1>0 DEF panel, LoadSafe, DetailSafe
<1>1. ASSUME UNCHANGED <<sid, detail>>, NEW s \in Series, NEW b, Asks(s, b)
      PROVE  LoadSafe' /\ DetailSafe'
  <2>1. load' = Load(s, b) /\ strayed' = (strayed \/ s # sid) /\ s # None
    BY <1>1, ScheduledAssumption DEF Asks
  <2>2. load'.of = s /\ load'.reply = None
    BY <2>1, SchedNothing
  <2> QED  BY <1>1, <2>1, <2>2 DEF LoadSafe, DetailSafe
<1>2. ASSUME UNCHANGED <<sid, detail>>, Refreshed PROVE LoadSafe' /\ DetailSafe'
  <2>1. UNCHANGED strayed /\ (load' = load \/ (load' = Load(sid, FALSE) /\ sid # None))
    BY <1>2 DEF Refreshed, Reload
  <2>2. CASE load' = Load(sid, FALSE) /\ sid # None
    <3>1. load'.of = sid /\ load'.reply = None /\ sid # None
      BY <2>2 DEF Load
    <3>2. UNCHANGED <<sid, detail, strayed>>
      BY <1>2, <2>1
    <3>3. LoadSafe'
      BY <3>1, <3>2 DEF LoadSafe
    <3>4. DetailSafe'
      BY <3>1, <3>2 DEF DetailSafe
    <3> QED  BY <3>3, <3>4
  <2> QED  BY <1>2, <2>1, <2>2 DEF LoadSafe, DetailSafe
<1>3. ASSUME NEW s \in Series \union {None}, NEW c, ShowDetail(s, c) PROVE LoadSafe' /\ DetailSafe'
  <2>1. sid' = s
    BY <1>3 DEF ShowDetail
  <2>2. CASE s = None
    <3>1. load' = NoLoad /\ detail' = None
      BY <1>3, <2>2 DEF ShowDetail
    <3> QED  BY <3>1, SchedNothing DEF LoadSafe, DetailSafe
  <2>3. CASE s # None
    <3>1. load' = Load(s, FALSE)
      BY <1>3, <2>3 DEF ShowDetail, Asks
    <3>2. load'.of = s /\ load'.reply = None
      BY <3>1 DEF Load
    <3>3. LoadSafe'
      BY <2>1, <2>3, <3>2 DEF LoadSafe
    <3>4. DetailSafe'
      BY <2>1, <2>3, <3>2 DEF DetailSafe
    <3> QED  BY <3>3, <3>4
  <2> QED  BY <2>2, <2>3
<1>4. ASSUME Retry PROVE LoadSafe' /\ DetailSafe'
  BY <1>1, <1>4 DEF Retry, PanelTypes
<1>5. ASSUME ServerReads PROVE LoadSafe' /\ DetailSafe'
  <2>1. load' = [of |-> load.of, reply |-> View(load.of), awaited |-> load.awaited]
    BY <1>5 DEF ServerReads, PanelTypes, IsLoad
  <2>2. UNCHANGED <<sid, detail, strayed>> /\ load.of # None
    BY <1>5 DEF ServerReads
  <2> QED  BY <2>1, <2>2 DEF LoadSafe, DetailSafe, View
<1>6. ASSUME LoadLands PROVE LoadSafe' /\ DetailSafe'
  <2>1. load' = NoLoad /\ detail' = load.reply /\ UNCHANGED sid /\ load.reply # None
        /\ strayed' = (load.of # sid)
    BY <1>6 DEF LoadLands
  <2>2. detail'.of = load.of /\ load.of # None
    BY <2>1 DEF LoadSafe
  <2> QED  BY <2>1, <2>2, SchedNothing DEF LoadSafe, DetailSafe
<1>7. ASSUME LoadFails PROVE LoadSafe' /\ DetailSafe'
  BY <1>7, SchedNothing DEF LoadFails, LoadSafe, DetailSafe
<1>8. ASSUME PollList PROVE LoadSafe' /\ DetailSafe'
  BY <1>2, <1>8 DEF PollList
<1>9. ASSUME NEW s \in Series, ControlRefreshes(s) PROVE LoadSafe' /\ DetailSafe'
  BY <1>1, <1>2, <1>9 DEF ControlRefreshes
<1>10. ASSUME SaveRefreshes PROVE LoadSafe' /\ DetailSafe'
  <2>1. UNCHANGED <<sid, detail>> /\ Asks(save.back, FALSE) /\ save.at # "none"
    BY <1>10 DEF SaveRefreshes
  <2> QED  BY <1>1, <2>1 DEF SaveTypes
<1>11. ASSUME \/ \E s, b : Control(s, b)
              \/ \E s : ControlCall(s) \/ ControlEnds(s) \/ ControlFails(s) \/ Elsewhere(s)
              \/ BeginEdit \/ CloseEdit \/ Save
       PROVE  LoadSafe' /\ DetailSafe'
  BY <1>0, <1>11 DEF Control, ControlCall, ControlEnds, ControlFails, Elsewhere, BeginEdit, CloseEdit, Save
<1>12. ASSUME SaveCall \/ SaveConflicts \/ (\E ok : Refetch(ok)) \/ SaveFails \/ UNCHANGED schedVars
       PROVE  LoadSafe' /\ DetailSafe'
  BY <1>0, <1>12 DEF SaveCall, SaveConflicts, Refetch, SaveFails, schedVars
<1> QED  BY <1>3, <1>4, <1>5, <1>6, <1>7, <1>8, <1>9, <1>10, <1>11, <1>12 DEF SchedNext, LoadStep,
         Answers, SaveAnswers

\* The dialog after a render: its draft is the detail's, or the one it was.
LEMMA RenderedSafe ==
    ASSUME PanelTypes', FormTypes, FormSafe, Render,
           form = NoDraft /\ editing' /\ sid' # None /\ detail' # None /\ ~strayed' => detail'.of = sid',
           form # NoDraft /\ sid' = sid /\ ~form.turned /\ detail' # None /\ ~strayed' => detail'.of = sid'
    PROVE  Mounted' /\ FormSafe'
<1>1. CASE ~editing' \/ sid' = None \/ detail' = None
  <2>1. form' = NoDraft
    BY <1>1 DEF Render
  <2> QED  BY <1>1, <2>1 DEF FormSafe, Mounted
<1>2. CASE editing' /\ sid' # None /\ detail' # None /\ form = NoDraft
  <2>1. form' = Fresh(detail', strayed') /\ detail' \in Views
    BY <1>2 DEF Render, PanelTypes
  <2>2. /\ form'.of = detail'.of /\ form'.base \in form'.known /\ form'.turned = strayed'
        /\ form'.of \in Series
    BY <2>1, SchedNothing
  <2>3. form' # NoDraft
    BY <2>2, SchedNothing, ScheduledAssumption
  <2> QED  BY <1>2, <2>2, <2>3 DEF FormSafe, Mounted
<1>3. CASE editing' /\ sid' # None /\ detail' # None /\ form # NoDraft
  <2>1. form' = [form EXCEPT !.turned = @ \/ sid' # sid]
    BY <1>3 DEF Render
  <2>2. form' = [of |-> form.of, base |-> form.base, known |-> form.known,
                 turned |-> form.turned \/ sid' # sid]
    BY <2>1 DEF FormTypes, IsForm
  <2>3. /\ form'.of = form.of /\ form'.base = form.base /\ form'.known = form.known
        /\ form'.turned <=> form.turned \/ sid' # sid
    BY <2>2
  <2>4. form' # NoDraft
    <3>1. CASE form'.turned
      BY <3>1 DEF NoDraft
    <3>2. CASE ~form'.turned
      <4>1. form.of = sid /\ sid' = sid
        BY <1>3, <2>3, <3>2 DEF FormSafe
      <4> QED  BY <1>3, <2>3, <4>1 DEF NoDraft
    <3> QED  BY <3>1, <3>2
  <2> QED  BY <1>3, <2>3, <2>4 DEF FormSafe, Mounted
<1> QED  BY <1>1, <1>2, <1>3

LEMMA DialogStepSafe ==
    SchedSound /\ [SchedNext]_schedVars => Mounted' /\ FormSafe' /\ SaveSafe'
<1> SUFFICES ASSUME PanelTypes, PanelTypes', FormTypes, FormTypes', SaveTypes, LoadSafe,
                    DetailSafe, DetailSafe', Mounted, FormSafe, SaveSafe, [SchedNext]_schedVars
             PROVE  Mounted' /\ FormSafe' /\ SaveSafe'
  BY PanelStepSafe, PanelStep, DialogStep DEF SchedSound, SchedTypes, SchedSafe, PanelSafe, DialogTypes
<1>0. ASSUME UNCHANGED <<sid, detail, strayed, editing, form>> PROVE Mounted' /\ FormSafe'
  BY <1>0 DEF FormSafe, Mounted
<1>1. ASSUME save' = Orphaned PROVE SaveSafe'
  <2>1. save' = [at |-> save.at, to |-> save.to, draft |-> save.draft, back |-> save.back,
                 orphan |-> save'.orphan, stray |-> save.stray]
    BY <1>1 DEF Orphaned, SaveTypes, IsSave
  <2> QED  BY <1>1, <2>1 DEF SaveSafe
<1>2. ASSUME save' = NoSave PROVE SaveSafe'
  BY <1>2, SchedNothing DEF SaveSafe
<1>3. ASSUME UNCHANGED save PROVE SaveSafe'
  BY <1>3 DEF SaveSafe
<1>4. ASSUME UNCHANGED <<sid, editing, form, detail>>, strayed => strayed' PROVE Mounted' /\ FormSafe'
  BY <1>4 DEF FormSafe, Mounted
<1>5. ASSUME NEW s, NEW c, ShowDetail(s, c) PROVE Mounted' /\ FormSafe' /\ SaveSafe'
  <2>1. sid' = s /\ s # sid /\ Render /\ save' = Orphaned /\ (editing' => editing)
    BY <1>5 DEF ShowDetail
  <2>2. ASSUME form = NoDraft, editing', sid' # None, detail' # None PROVE strayed'
    <3>1. detail' = detail /\ strayed' = (strayed \/ s # sid')
      BY <1>5, <2>1, <2>2 DEF ShowDetail, Asks
    <3>2. sid = None
      BY <2>1, <2>2, <3>1 DEF Mounted
    <3>3. strayed
      BY <2>2, <3>1, <3>2 DEF DetailSafe
    <3> QED  BY <3>1, <3>3
  <2> QED  BY <1>1, <2>1, <2>2, RenderedSafe
<1>6. ASSUME LoadLands PROVE Mounted' /\ FormSafe' /\ SaveSafe'
  <2>1. detail' = load.reply /\ load.reply # None /\ strayed' = (load.of # sid) /\ UNCHANGED sid
        /\ Render /\ save' = Orphaned
    BY <1>6 DEF LoadLands
  <2>2. detail'.of = load.of
    BY <2>1 DEF LoadSafe
  <2> QED  BY <1>1, <2>1, <2>2, RenderedSafe
<1>7. ASSUME LoadFails PROVE Mounted' /\ FormSafe' /\ SaveSafe'
  <2>1. detail' = None /\ Render /\ save' = Orphaned
    BY <1>7 DEF LoadFails
  <2> QED  BY <1>1, <2>1, RenderedSafe
<1>8. ASSUME UNCHANGED panel, editing' => (editing \/ load = NoLoad), Render PROVE Mounted' /\ FormSafe'
  <2>1. UNCHANGED <<sid, detail, strayed, load>>
    BY <1>8 DEF panel
  <2>2. ASSUME form = NoDraft, editing', sid' # None, detail' # None, ~strayed' PROVE detail'.of = sid'
    <3>1. load = NoLoad
      BY <1>8, <2>1, <2>2 DEF Mounted
    <3>2. load.of = None
      BY <3>1, SchedNothing
    <3> QED  BY <2>1, <2>2, <3>2 DEF DetailSafe
  <2>3. ASSUME form # NoDraft, ~form.turned, ~strayed' PROVE detail'.of = sid'
    BY <2>1, <2>3 DEF FormSafe
  <2> QED  BY <1>8, <2>1, <2>2, <2>3, RenderedSafe
<1>9. ASSUME BeginEdit \/ CloseEdit PROVE Mounted' /\ FormSafe' /\ SaveSafe'
  BY <1>1, <1>3, <1>8, <1>9 DEF BeginEdit, CloseEdit
<1>10. ASSUME Save PROVE Mounted' /\ FormSafe' /\ SaveSafe'
  <2>1. save' = [at |-> "call", to |-> detail.of, draft |-> form, back |-> sid, orphan |-> FALSE,
                 stray |-> strayed \/ form.turned]
        /\ UNCHANGED <<sid, detail, strayed, editing, form>> /\ form # NoDraft
    BY <1>10 DEF Save, panel, dialog
  <2>2. save'.draft = form /\ save'.to = detail.of /\ (save'.stray <=> strayed \/ form.turned)
    BY <2>1
  <2> QED  BY <1>0, <2>1, <2>2 DEF FormSafe, SaveSafe
<1>11. ASSUME NEW x, save' = [save EXCEPT !.at = x], save.at # "none" PROVE SaveSafe'
  BY <1>11, SaveIs DEF SaveSafe
<1>12. ASSUME SaveCall PROVE Mounted' /\ FormSafe' /\ SaveSafe'
  BY <1>8, <1>11, <1>12 DEF SaveCall, Accepted
<1>13. ASSUME SaveConflicts PROVE Mounted' /\ FormSafe' /\ SaveSafe'
  BY <1>0, <1>11, <1>13 DEF SaveConflicts, panel, dialog
<1>14. ASSUME NEW ok, Refetch(ok) PROVE Mounted' /\ FormSafe' /\ SaveSafe'
  <2>1. save' = NoSave /\ UNCHANGED <<sid, detail, strayed, editing>>
    BY <1>14 DEF Refetch, panel
  <2>2. CASE form' = form
    BY <1>0, <1>2, <2>1, <2>2
  <2>3. CASE form' # form
    <3>1. save.at = "refetch" /\ ~save.orphan
          /\ form' = [form EXCEPT !.base = rev[save.to], !.known = @ \union {rev[save.to]}]
      BY <1>14, <2>3 DEF Refetch
    <3>2. form' = [of |-> form.of, base |-> rev[save.to], known |-> form.known \union {rev[save.to]},
                   turned |-> form.turned]
      BY <3>1 DEF FormTypes, IsForm
    <3>3. form # NoDraft
      BY <3>1 DEF SaveTypes
    <3>4. form' # NoDraft
      BY <3>2 DEF NoDraft
    <3> QED  BY <1>2, <2>1, <3>2, <3>3, <3>4 DEF FormSafe, Mounted
  <2> QED  BY <2>2, <2>3
<1>15. ASSUME SaveRefreshes PROVE Mounted' /\ FormSafe' /\ SaveSafe'
  BY <1>2, <1>4, <1>15 DEF SaveRefreshes, Asks, dialog
<1>16. ASSUME SaveFails PROVE Mounted' /\ FormSafe' /\ SaveSafe'
  BY <1>0, <1>2, <1>16 DEF SaveFails, panel, dialog
<1>17. ASSUME Retry \/ PollList \/ \E s : ControlRefreshes(s) PROVE Mounted' /\ FormSafe' /\ SaveSafe'
  <2>1. UNCHANGED <<sid, editing, form, detail, save>>
    BY <1>17 DEF Retry, PollList, ControlRefreshes, dialog
  <2>2. strayed => strayed'
    BY <1>17 DEF Retry, PollList, ControlRefreshes, Refreshed, Asks
  <2> QED  BY <1>3, <1>4, <2>1, <2>2
<1>18. ASSUME \/ ServerReads \/ (\E s, b : Control(s, b)) \/ UNCHANGED schedVars
              \/ \E s : ControlCall(s) \/ ControlEnds(s) \/ ControlFails(s) \/ Elsewhere(s)
       PROVE  Mounted' /\ FormSafe' /\ SaveSafe'
  BY <1>0, <1>3, <1>18 DEF ServerReads, Control, ControlCall, ControlEnds, ControlFails, Elsewhere,
     schedVars, panel, dialog
<1> QED  BY <1>5, <1>6, <1>7, <1>9, <1>10, <1>12, <1>13, <1>14, <1>15, <1>16, <1>17, <1>18 DEF SchedNext,
         LoadStep, Answers, SaveAnswers

LEMMA SchedSafeStep == SchedSound /\ [SchedNext]_schedVars => SchedSound'
  BY SchedTypeStep, PanelStepSafe, DialogStepSafe, ActingStep DEF SchedSound, SchedSafe

LEMMA SchedStart == SchedInit => SchedSound
<1> SUFFICES ASSUME SchedInit PROVE SchedSound
  OBVIOUS
<1>1. SchedSafe
  <2>1. load = NoLoad /\ detail = None /\ form = NoDraft /\ save = NoSave /\ sid = None
    BY Zenon DEF SchedInit
  <2> QED  BY <2>1, SchedNothing DEF SchedSafe, PanelSafe, LoadSafe, DetailSafe, Mounted, FormSafe, SaveSafe
<1>2. \A s \in Series : ~ops[s].mine /\ ~ops[s].mixed
  BY DEF SchedInit, NoOp
<1>3. ~acting
  BY Zenon DEF SchedInit
<1> QED  BY <1>1, <1>2, <1>3, SchedTypeStart DEF SchedSound, OpsSafe, SpinnerIsHonest

\* A save that is accepted is of the schedule and the revision of its draft.
LEMMA SaveHolds == SchedSound => SaveIsInformed
<1> SUFFICES ASSUME SchedSound, Accepted, ~save.stray
             PROVE  save.to = save.draft.of /\ rev[save.to] \in save.draft.known
  BY DEF SaveIsInformed
<1> QED  BY DEF Accepted, Current, SchedSound, SchedSafe, SaveSafe

(***************************************************************************)
(* The composer of a new session.                                          *)
(***************************************************************************)
IsInfo(i) == i = [of |-> i.of, isRepo |-> i.isRepo, current |-> i.current]
HomeTypes ==
    /\ ws \in Dirs \union {NoProject} /\ lastProject \in Dirs \union {NoProject}
    /\ runLocation \in {"worktree", "local"}
    /\ IsInfo(branchInfo) /\ branchInfo.of \in {ws, NoProject}
    /\ \A l \in lookups : l.by = "project" => l.dir = ws

LEMMA Infos ==
    /\ NoInfo.of = NoProject /\ IsInfo(NoInfo) /\ ~NoInfo.isRepo
    /\ \A d : gitBranches(d).of = d /\ IsInfo(gitBranches(d))
    /\ \A d : gitBranches(d).isRepo <=> d \in Repos
<1>1. NoProject \notin Repos
  BY HomeAssumption DEF Dirs
<1> QED  BY <1>1 DEF NoInfo, gitBranches, Info, IsInfo

LEMMA Looks == \A d, b : Look(d, b).dir = d /\ Look(d, b).by = b
  BY DEF Look

LEMMA SetWsTypes ==
    ASSUME HomeTypes, NEW d \in Dirs \union {NoProject}, SetWs(d)
    PROVE  /\ ws' = d /\ IsInfo(branchInfo') /\ branchInfo'.of \in {ws', NoProject}
           /\ \A l \in lookups' : l.by = "project" => l.dir = ws'
<1>1. CASE d = ws
  BY <1>1 DEF SetWs, HomeTypes
<1>2. CASE d # ws
  <2>1. ws' = d /\ branchInfo' = NoInfo
    BY <1>2 DEF SetWs
  <2>2. \A l \in lookups' : l.by # "project" \/ l = Look(d, "project")
    BY <1>2 DEF SetWs, Cancelled
  <2> QED  BY <2>1, <2>2, Infos, Looks
<1> QED  BY <1>1, <1>2

LEMMA HomeTypeStep == HomeTypes /\ [HomeNext]_homeVars => HomeTypes'
<1> SUFFICES ASSUME HomeTypes, [HomeNext]_homeVars PROVE HomeTypes'
  OBVIOUS
<1>1. ASSUME NEW d \in Repos \union Folders, chooseProject(d) PROVE HomeTypes'
  <2>1. d \in Dirs \union {NoProject}
    BY DEF Dirs
  <2> QED  BY <1>1, <2>1, SetWsTypes DEF chooseProject, HomeTypes
<1>2. ASSUME ClearProject PROVE HomeTypes'
  BY <1>2, SetWsTypes DEF ClearProject, HomeTypes
<1>3. ASSUME OpenBranches PROVE HomeTypes'
  <2>1. \A l \in lookups' : l \in lookups \/ l.by = "picker"
    BY <1>3, Looks DEF OpenBranches
  <2> QED  BY <1>3, <2>1 DEF OpenBranches, HomeTypes, branchVars
<1>4. ASSUME NEW b, SelectBranch(b) PROVE HomeTypes'
  BY <1>4 DEF SelectBranch, HomeTypes
<1>5. ASSUME NEW place \in {"worktree", "local"}, SelectLocation(place) PROVE HomeTypes'
  BY <1>5 DEF SelectLocation, HomeTypes
<1>6. ASSUME UNCHANGED <<ws, branchVars, lastProject, lookups>> PROVE HomeTypes'
  BY <1>6 DEF HomeTypes, branchVars
<1>7. ASSUME NEW l \in lookups, LookupLands(l) PROVE HomeTypes'
  <2>1. UNCHANGED <<ws, lastProject>> /\ \A k \in lookups' : k \in lookups
    BY <1>7 DEF LookupLands
  <2>2. runLocation' \in {"worktree", "local"}
    BY <1>7 DEF LookupLands, ProjectLookup, PickerLookup, HomeTypes
  <2>3. branchInfo' = branchInfo \/ (branchInfo' = gitBranches(l.dir) /\ l.dir = ws)
    BY <1>7 DEF LookupLands, ProjectLookup, PickerLookup, HomeTypes
  <2> QED  BY <2>1, <2>2, <2>3, Infos DEF HomeTypes
<1>8. ASSUME NEW l \in lookups, LookupFails(l) PROVE HomeTypes'
  BY <1>8, Infos DEF LookupFails, HomeTypes
<1>9. ASSUME CheckedOut PROVE HomeTypes'
  <2>1. UNCHANGED <<ws, lastProject, lookups, runLocation>>
    BY <1>9 DEF CheckedOut
  <2>2. branchInfo' = NoInfo \/ branchInfo' = [branchInfo EXCEPT !.current = checkout[1].branch]
    BY <1>9, Zenon DEF CheckedOut
  <2>3. ASSUME NEW b, branchInfo' = [branchInfo EXCEPT !.current = b]
        PROVE  branchInfo' = [of |-> branchInfo.of, isRepo |-> branchInfo.isRepo, current |-> b]
    BY <2>3 DEF HomeTypes, IsInfo
  <2>4. IsInfo(branchInfo') /\ branchInfo'.of \in {branchInfo.of, NoProject}
    BY <2>2, <2>3, Infos DEF IsInfo
  <2> QED  BY <2>1, <2>4 DEF HomeTypes
<1>10. ASSUME EnsureWs PROVE HomeTypes'
  <2>1. Scratch \in Dirs
    BY DEF Dirs
  <2>2. UNCHANGED <<runLocation, lastProject>>
    BY <1>10 DEF EnsureWs
  <2>3. CASE SetWs(Scratch)
    BY <2>1, <2>2, <2>3, SetWsTypes DEF HomeTypes
  <2>4. CASE UNCHANGED <<ws, branchInfo, lookups>>
    BY <2>2, <2>4 DEF HomeTypes
  <2> QED  BY <1>10, <2>3, <2>4 DEF EnsureWs
<1>11. ASSUME Created PROVE HomeTypes'
  <2>1. \A l \in lookups' : l = Look(lastProject, "project")
    BY <1>11 DEF Created
  <2>2. ws' = lastProject /\ branchInfo' = NoInfo /\ runLocation' = "worktree"
        /\ lastProject' = lastProject
    BY <1>11 DEF Created
  <2>3. \A l \in lookups' : l.dir = ws'
    BY <2>1, <2>2, Looks
  <2> QED  BY <2>2, <2>3, Infos DEF HomeTypes
<1>12. CASE HomeUser
  <2>1. ASSUME Submit \/ \E t \in {"one", "two"} : TypeHome(t) PROVE HomeTypes'
    BY <2>1, <1>6 DEF Submit, TypeHome
  <2> QED  BY <1>12, <2>1, <1>1, <1>2, <1>3, <1>4, <1>5 DEF HomeUser
<1>13. CASE HomeAnswer
  <2>1. ASSUME CheckoutFails \/ makeWorktree \/ SendFails \/ \E found \in BOOLEAN : LookForSend(found)
        PROVE  HomeTypes'
    BY <2>1, <1>6 DEF CheckoutFails, makeWorktree, SendFails, LookForSend
  <2> QED  BY <1>13, <2>1, <1>7, <1>8, <1>9, <1>10, <1>11 DEF HomeAnswer
<1>14. CASE UNCHANGED homeVars
  BY <1>14, <1>6 DEF homeVars
<1> QED  BY <1>12, <1>13, <1>14 DEF HomeNext

LEMMA HomeTypeStart == HomeInit => HomeTypes
<1> SUFFICES ASSUME HomeInit PROVE HomeTypes
  OBVIOUS
<1>1. \A l \in lookups : l.dir = ws
  <2>1. \A l \in lookups : l = Look(ws, "project")
    BY DEF HomeInit
  <2> QED  BY <2>1, Looks
<1>2. lastProject \in Dirs \union {NoProject} /\ ws = lastProject /\ branchInfo = NoInfo
      /\ runLocation = "worktree"
  BY DEF HomeInit, Dirs
<1> QED  BY <1>1, <1>2, Infos DEF HomeTypes

LEMMA HomeHolds == HomeTypes => HomeTypeOK
  BY DEF HomeTypes, HomeTypeOK

(***************************************************************************)
(* What is shown and what is sent are of their project but for the branch  *)
(* a late checkout leaves, and the text of a send is in the input until    *)
(* something is typed. A checkout changes what is shown as checked out for *)
(* whatever project, but leaves a branch chosen, which goes before it.     *)
(***************************************************************************)
InfoIsOf(i, own, start) ==
    /\ IsInfo(i) /\ i.of \in {own, NoProject}
    /\ i.of = NoProject => i = NoInfo
    /\ i.isRepo => i.of \in Repos /\ (start # NoBranch \/ i.current \in Branch(i.of))
HeadsAreBranches == head = [r \in Repos |-> head[r]] /\ \A r \in Repos : head[r] \in Branch(r)
StartIsOf(b, own) == b # NoBranch => b \in Branch(own)
CheckoutIsOfRepo ==
    checkout # <<>> => checkout[1].dir \in Repos /\ checkout[1].branch \in Branch(checkout[1].dir)
ShownSafe ==
    InfoIsOf(branchInfo, ws, startingBranch) /\ (~stray => StartIsOf(startingBranch, ws))
BranchSafe == ShownSafe /\ CheckoutIsOfRepo /\ HeadsAreBranches
IsSend(s) == s = [at |-> s.at, ws |-> s.ws, info |-> s.info, start |-> s.start, loc |-> s.loc,
                  text |-> s.text, stray |-> s.stray, typed |-> s.typed]
SendSafe ==
    /\ IsSend(send) /\ InfoIsOf(send.info, send.ws, send.start)
    /\ ~send.stray => StartIsOf(send.start, send.ws)
    /\ send.at = "worktree" => send.info.isRepo
    /\ send # Idle => draft = send.text \/ send.typed
HomeSound == HomeTypes /\ BranchSafe /\ SendSafe

LEMMA BranchFacts ==
    /\ NoProject \notin Repos /\ Branch(NoProject) = {}
    /\ \A d : Branch(d) # {} => d \in Repos
    /\ \A d : d \in Repos => Branch(d) = {<<d, "main">>, <<d, "side">>}
<1>1. NoProject \notin Repos
  BY HomeAssumption DEF Dirs
<1> QED  BY <1>1 DEF Branch

LEMMA InfoFacts ==
    /\ \A d, b : InfoIsOf(NoInfo, d, b)
    /\ HeadsAreBranches => \A d, b : InfoIsOf(gitBranches(d), d, b)
    /\ HeadsAreBranches => \A d : StartIsOf(gitBranches(d).current, d)
<1>1. \A d, b : InfoIsOf(NoInfo, d, b)
  BY Infos DEF InfoIsOf
<1>2. gitBranches(NoProject) = NoInfo
  BY BranchFacts DEF gitBranches, NoInfo
<1>3. ASSUME HeadsAreBranches, NEW d, NEW b
      PROVE  InfoIsOf(gitBranches(d), d, b) /\ StartIsOf(gitBranches(d).current, d)
  <2>1. gitBranches(d).current = IF d \in Repos THEN head[d] ELSE NoBranch
    BY DEF gitBranches, Info
  <2> QED  BY <1>2, <1>3, <2>1, Infos DEF InfoIsOf, HeadsAreBranches, StartIsOf
<1> QED  BY <1>1, <1>3

\* The project's effect forgets the branch with the project.
LEMMA SetWsSafe ==
    ASSUME ShownSafe, NEW d, SetWs(d) PROVE ShownSafe'
<1>1. ws' = d
  BY DEF SetWs
<1>2. CASE d = ws
  BY <1>1, <1>2 DEF SetWs, ShownSafe
<1>3. CASE d # ws
  BY <1>1, <1>3, InfoFacts DEF SetWs, StartIsOf, ShownSafe
<1> QED  BY <1>1, <1>2, <1>3

LEMMA HeadsStep ==
    ASSUME HeadsAreBranches, CheckoutIsOfRepo, head' \in {head, HeadAfterCheckout}
    PROVE  HeadsAreBranches'
<1>1. CASE head' = head
  BY <1>1 DEF HeadsAreBranches
<1>2. CASE head' = HeadAfterCheckout /\ checkout # <<>>
  <2> DEFINE c == checkout[1]
  <2>1. head' = [head EXCEPT ![c.dir] = c.branch] /\ c.dir \in Repos /\ c.branch \in Branch(c.dir)
    BY <1>2 DEF HeadAfterCheckout, CheckoutIsOfRepo
  <2> HIDE DEF c
  <2> QED  BY <2>1 DEF HeadsAreBranches
<1> QED  BY <1>1, <1>2 DEF HeadAfterCheckout

LEMMA BranchStep == HomeSound /\ [HomeNext]_homeVars => BranchSafe'
<1> SUFFICES ASSUME HomeTypes, ShownSafe, CheckoutIsOfRepo, HeadsAreBranches, SendSafe,
                    [HomeNext]_homeVars
             PROVE  BranchSafe'
  BY DEF HomeSound, BranchSafe
<1>0. ASSUME UNCHANGED <<ws, branchInfo, startingBranch, stray, checkout, head>> PROVE BranchSafe'
  BY <1>0 DEF BranchSafe, ShownSafe, CheckoutIsOfRepo, HeadsAreBranches
<1>1. ASSUME ShownSafe', UNCHANGED <<checkout, head>> PROVE BranchSafe'
  BY <1>1 DEF BranchSafe, CheckoutIsOfRepo, HeadsAreBranches
<1>2. ASSUME NEW b, SelectBranch(b) PROVE BranchSafe'
  <2>1. branchInfo.of \in Repos /\ branchInfo.of = ws /\ b \in Branch(ws) /\ ws \in Repos
    BY <1>2, BranchFacts DEF SelectBranch, ShownSafe, InfoIsOf
  <2>2. UNCHANGED <<ws, branchInfo, head>>
    BY <1>2 DEF SelectBranch
  <2>3. CASE startingBranch' = b /\ stray' = FALSE /\ UNCHANGED checkout
    <3>1. b # NoBranch
      BY <2>1, BranchFacts DEF NoBranch
    <3>2. ShownSafe'
      BY <2>1, <2>2, <2>3, <3>1 DEF ShownSafe, InfoIsOf, StartIsOf
    <3> QED  BY <1>1, <2>2, <2>3, <3>2
  <2>4. CASE checkout' = <<[dir |-> ws, branch |-> b]>> /\ UNCHANGED <<startingBranch, stray>>
    <3>1. checkout'[1].dir = ws /\ checkout'[1].branch = b
      BY <2>4
    <3> QED  BY <2>1, <2>2, <2>4, <3>1 DEF BranchSafe, ShownSafe, CheckoutIsOfRepo, HeadsAreBranches
  <2> QED  BY <1>2, <2>3, <2>4 DEF SelectBranch
<1>3. ASSUME NEW l \in lookups, LookupLands(l) PROVE BranchSafe'
  <2>1. UNCHANGED <<ws, checkout, head>>
    BY <1>3 DEF LookupLands
  <2>2. CASE ProjectLookup(l)
    <3>1. l.dir = ws
      BY <2>2 DEF ProjectLookup, HomeTypes
    <3> QED  BY <1>1, <2>1, <2>2, <3>1, InfoFacts DEF ShownSafe, ProjectLookup
  <2>3. CASE PickerLookup(l)
    <3>1. CASE l.dir # ws
      BY <1>0, <2>1, <2>3, <3>1 DEF PickerLookup
    <3>2. CASE l.dir = ws
      <4>1. /\ UNCHANGED stray /\ branchInfo' = gitBranches(ws)
            /\ startingBranch' = IF startingBranch # NoBranch THEN startingBranch
                                 ELSE gitBranches(ws).current
        BY <2>3, <3>2 DEF PickerLookup
      <4> QED  BY <1>1, <2>1, <4>1, InfoFacts DEF ShownSafe
    <3> QED  BY <3>1, <3>2
  <2> QED  BY <1>3, <2>2, <2>3 DEF LookupLands
<1>4. ASSUME NEW l \in lookups, LookupFails(l) PROVE BranchSafe'
  BY <1>1, <1>4, InfoFacts DEF LookupFails, ShownSafe
<1>5. ASSUME CheckedOut PROVE BranchSafe'
  <2> DEFINE c == checkout[1]
  <2>1. c.dir \in Repos /\ c.branch \in Branch(c.dir)
    BY <1>5 DEF CheckedOut, CheckoutIsOfRepo
  <2>2. /\ checkout' = <<>> /\ UNCHANGED ws /\ startingBranch' = c.branch /\ stray' = (c.dir # ws)
        /\ branchInfo' = IF branchInfo = NoInfo THEN NoInfo
                         ELSE [branchInfo EXCEPT !.current = c.branch]
    BY <1>5 DEF CheckedOut
  <2>3. HeadsAreBranches'
    BY <1>5, HeadsStep DEF CheckedOut
  <2> HIDE DEF c
  <2>4. startingBranch' # NoBranch
    BY <2>1, <2>2, BranchFacts DEF NoBranch
  <2>5. InfoIsOf(branchInfo', ws', startingBranch')
    <3>1. CASE branchInfo = NoInfo
      BY <2>2, <3>1, InfoFacts
    <3>2. CASE branchInfo # NoInfo
      <4>1. /\ branchInfo.of = ws /\ IsInfo(branchInfo) /\ ws # NoProject
            /\ branchInfo.isRepo => branchInfo.of \in Repos
        BY <3>2 DEF ShownSafe, InfoIsOf
      <4>2. branchInfo' = [of |-> ws, isRepo |-> branchInfo.isRepo, current |-> c.branch]
        BY <2>2, <3>2, <4>1 DEF IsInfo
      <4> QED  BY <2>2, <2>4, <4>1, <4>2 DEF InfoIsOf, IsInfo
    <3> QED  BY <3>1, <3>2
  <2>6. ~stray' => StartIsOf(startingBranch', ws')
    BY <2>1, <2>2 DEF StartIsOf
  <2> QED  BY <2>2, <2>3, <2>5, <2>6 DEF BranchSafe, ShownSafe, CheckoutIsOfRepo
<1>6. ASSUME CheckoutFails PROVE BranchSafe'
  BY <1>6, HeadsStep DEF CheckoutFails, BranchSafe, ShownSafe, branchVars, CheckoutIsOfRepo
<1>7. ASSUME EnsureWs PROVE BranchSafe'
  <2>1. UNCHANGED <<checkout, head>>
    BY <1>7 DEF EnsureWs
  <2>2. CASE SetWs(Scratch)
    BY <1>1, <2>1, <2>2, SetWsSafe
  <2>3. CASE UNCHANGED <<ws, branchInfo, startingBranch, stray>>
    BY <1>0, <2>1, <2>3
  <2> QED  BY <1>7, <2>2, <2>3 DEF EnsureWs
<1>8. ASSUME Created PROVE BranchSafe'
  <2>1. branchInfo' = NoInfo /\ startingBranch' = NoBranch /\ checkout' = <<>>
    BY <1>8 DEF Created
  <2>2. HeadsAreBranches'
    BY <1>8, HeadsStep DEF Created
  <2> QED  BY <2>1, <2>2, InfoFacts DEF BranchSafe, ShownSafe, StartIsOf, CheckoutIsOfRepo
<1>9. CASE HomeUser
  <2>1. ASSUME (\E d : chooseProject(d)) \/ ClearProject PROVE BranchSafe'
    BY <1>1, <2>1, SetWsSafe DEF chooseProject, ClearProject
  <2>2. ASSUME \/ OpenBranches \/ Submit \/ \E t \in {"one", "two"} : TypeHome(t)
               \/ \E place \in {"worktree", "local"} : SelectLocation(place)
        PROVE  BranchSafe'
    BY <2>2, <1>0 DEF OpenBranches, Submit, TypeHome, SelectLocation, branchVars
  <2> QED  BY <1>9, <2>1, <2>2, <1>2 DEF HomeUser
<1>10. CASE HomeAnswer
  <2>1. ASSUME makeWorktree \/ SendFails \/ \E found \in BOOLEAN : LookForSend(found)
        PROVE  BranchSafe'
    BY <2>1, <1>0 DEF makeWorktree, SendFails, LookForSend, branchVars
  <2> QED  BY <1>10, <2>1, <1>3, <1>4, <1>5, <1>6, <1>7, <1>8 DEF HomeAnswer
<1>11. CASE UNCHANGED homeVars
  BY <1>11, <1>0 DEF homeVars, branchVars
<1> QED  BY <1>9, <1>10, <1>11 DEF HomeNext

LEMMA SendFacts ==
    IsSend(Idle) /\ Idle.at = "idle" /\ Idle.info = NoInfo /\ Idle.start = NoBranch
  BY DEF Idle, IsSend

LEMMA SendStep == HomeSound /\ [HomeNext]_homeVars => SendSafe'
<1> SUFFICES ASSUME HomeTypes, BranchSafe, SendSafe, [HomeNext]_homeVars PROVE SendSafe'
  BY DEF HomeSound
<1>0. ASSUME UNCHANGED <<send, draft>> PROVE SendSafe'
  BY <1>0 DEF SendSafe
<1>1. ASSUME send' = Idle PROVE SendSafe'
  BY <1>1, SendFacts, InfoFacts DEF SendSafe, StartIsOf
<1>2. ASSUME Submit PROVE SendSafe'
  <2>1. /\ send' = [at |-> "agents", ws |-> ws, info |-> branchInfo, start |-> startingBranch,
                    loc |-> runLocation, text |-> draft, stray |-> stray, typed |-> FALSE]
        /\ draft' = draft
    BY <1>2 DEF Submit
  <2> QED  BY <2>1 DEF SendSafe, IsSend, BranchSafe, ShownSafe
<1>3. ASSUME EnsureWs PROVE SendSafe'
  <2> DEFINE w == IF send.ws = NoProject THEN Scratch ELSE send.ws
             x == IF send.loc # "worktree" THEN "create"
                  ELSE IF send.info = NoInfo THEN "branches"
                  ELSE IF send.info.isRepo THEN "worktree" ELSE "create"
  <2>1. send' = [send EXCEPT !.ws = w, !.at = x]
    BY <1>3 DEF EnsureWs
  <2>5. x = "worktree" => send.info.isRepo
    OBVIOUS
  <2>6. send.ws # NoProject => w = send.ws
    OBVIOUS
  <2> HIDE DEF w, x
  <2>2. send' = [at |-> x, ws |-> w, info |-> send.info, start |-> send.start, loc |-> send.loc,
                 text |-> send.text, stray |-> send.stray,
                   typed |-> send.typed]
    BY <2>1 DEF SendSafe, IsSend
  <2>3. InfoIsOf(send.info, w, send.start) /\ (~send.stray => StartIsOf(send.start, w))
    <3>1. CASE send.ws # NoProject
      BY <2>6, <3>1 DEF SendSafe
    <3>2. CASE send.ws = NoProject
      BY <3>2, BranchFacts DEF SendSafe, InfoIsOf, StartIsOf
    <3> QED  BY <3>1, <3>2
  <2>4. send # Idle /\ draft' = draft
    BY <1>3, SendFacts DEF EnsureWs
  <2> QED  BY <2>5, <2>2, <2>3, <2>4 DEF SendSafe, IsSend
<1>4. ASSUME NEW found, LookForSend(found) PROVE SendSafe'
  <2>1. send # Idle /\ draft' = draft
    BY <1>4, SendFacts DEF LookForSend
  <2>2. CASE send.ws \in Repos /\ send' = [send EXCEPT !.info = gitBranches(send.ws), !.at = "worktree"]
    <3>1. send' = [at |-> "worktree", ws |-> send.ws, info |-> gitBranches(send.ws),
                   start |-> send.start, loc |-> send.loc, text |-> send.text, stray |-> send.stray,
                   typed |-> send.typed]
      BY <2>2 DEF SendSafe, IsSend
    <3>2. InfoIsOf(gitBranches(send.ws), send.ws, send.start) /\ gitBranches(send.ws).isRepo
      BY <2>2, InfoFacts, Infos DEF BranchSafe
    <3> QED  BY <2>1, <3>1, <3>2 DEF SendSafe, IsSend
  <2>3. CASE send' = [send EXCEPT !.at = "create"]
    <3>1. send' = [at |-> "create", ws |-> send.ws, info |-> send.info,
                   start |-> send.start, loc |-> send.loc, text |-> send.text, stray |-> send.stray,
                   typed |-> send.typed]
      BY <2>3 DEF SendSafe, IsSend
    <3> QED  BY <2>1, <3>1 DEF SendSafe, IsSend
  <2> QED  BY <1>4, <2>2, <2>3 DEF LookForSend
<1>5. ASSUME makeWorktree PROVE SendSafe'
  <2>1. send # Idle /\ draft' = draft /\ send' = [send EXCEPT !.at = "create"]
    BY <1>5, SendFacts DEF makeWorktree
  <2>2. send' = [at |-> "create", ws |-> send.ws, info |-> send.info,
                 start |-> send.start, loc |-> send.loc, text |-> send.text, stray |-> send.stray,
                   typed |-> send.typed]
    BY <2>1 DEF SendSafe, IsSend
  <2> QED  BY <2>1, <2>2 DEF SendSafe, IsSend
<1>6. ASSUME NEW t, TypeHome(t) PROVE SendSafe'
  <2>1. send' = [send EXCEPT !.typed = send # Idle]
    BY <1>6 DEF TypeHome
  <2>2. CASE send = Idle
    <3>1. send' = Idle
      BY <2>1, <2>2 DEF Idle
    <3> QED  BY <1>1, <3>1
  <2>3. CASE send # Idle
    <3>1. send' = [at |-> send.at, ws |-> send.ws, info |-> send.info, start |-> send.start,
                   loc |-> send.loc, text |-> send.text, stray |-> send.stray, typed |-> TRUE]
      BY <2>1, <2>3 DEF SendSafe, IsSend
    <3> QED  BY <3>1 DEF SendSafe, IsSend
  <2> QED  BY <2>2, <2>3
<1>7. CASE HomeUser
  <2>1. ASSUME \/ \E d \in Repos \union Folders : chooseProject(d)
               \/ ClearProject \/ OpenBranches
               \/ \E r \in Repos : \E b \in Branch(r) : SelectBranch(b)
               \/ \E place \in {"worktree", "local"} : SelectLocation(place)
        PROVE  SendSafe'
    BY <2>1, <1>0 DEF chooseProject, ClearProject, OpenBranches, SelectBranch, SelectLocation
  <2> QED  BY <1>7, <2>1, <1>2, <1>6 DEF HomeUser
<1>8. CASE HomeAnswer
  <2>1. ASSUME \/ \E l \in lookups : LookupLands(l) \/ LookupFails(l)
               \/ CheckedOut \/ CheckoutFails
        PROVE  SendSafe'
    BY <2>1, <1>0 DEF LookupLands, LookupFails, CheckedOut, CheckoutFails
  <2>2. ASSUME Created \/ SendFails PROVE SendSafe'
    BY <2>2, <1>1 DEF Created, SendFails
  <2> QED  BY <1>8, <2>1, <2>2, <1>3, <1>4, <1>5 DEF HomeAnswer
<1>9. CASE UNCHANGED homeVars
  BY <1>9, <1>0 DEF homeVars
<1> QED  BY <1>7, <1>8, <1>9 DEF HomeNext

LEMMA HomeSafeStep == HomeSound /\ [HomeNext]_homeVars => HomeSound'
  BY HomeTypeStep, BranchStep, SendStep, Zenon DEF HomeSound

LEMMA HomeStart == HomeInit => HomeSound
<1> SUFFICES ASSUME HomeInit PROVE HomeSound
  OBVIOUS
<1>1. HeadsAreBranches
  <2>1. head = [r \in Repos |-> <<r, "main">>]
    BY DEF HomeInit
  <2> QED  BY <2>1, BranchFacts DEF HeadsAreBranches
<1>2. BranchSafe
  BY <1>1, InfoFacts DEF HomeInit, BranchSafe, ShownSafe, StartIsOf, CheckoutIsOfRepo
<1>3. SendSafe
  BY SendFacts, InfoFacts DEF HomeInit, SendSafe, StartIsOf
<1> QED  BY <1>2, <1>3, HomeTypeStart DEF HomeSound

LEMMA HomeSendsItsProject == HomeSound => SendUsesItsProject
<1> SUFFICES ASSUME HomeSound PROVE SendUsesItsProject
  OBVIOUS
<1>1. startingBranch # NoBranch /\ ~stray => startingBranch \in Branch(ws)
  BY DEF HomeSound, BranchSafe, ShownSafe, StartIsOf
<1>2. send.at = "worktree" /\ ~send.stray => WorktreeBranch \in Branch(send.ws)
  BY BranchFacts DEF HomeSound, SendSafe, InfoIsOf, StartIsOf, WorktreeBranch
<1> QED  BY <1>1, <1>2 DEF SendUsesItsProject

\* Only the answer of the send empties the input.
LEMMA HomeErases == HomeSound /\ [HomeNext]_homeVars => HomeErasesSent
<1> SUFFICES ASSUME SendSafe, [HomeNext]_homeVars, draft # "", draft' = ""
             PROVE  send.at = "create" /\ (draft = send.text \/ send.typed)
  BY DEF HomeSound, HomeErasesSent
<1>1. ~UNCHANGED draft
  OBVIOUS
<1>2. ASSUME HomeUser PROVE FALSE
  BY <1>1, <1>2 DEF HomeUser, chooseProject, ClearProject, OpenBranches, SelectBranch,
     SelectLocation, Submit, TypeHome
<1>3. CASE HomeAnswer
  <2>1. Created
    BY <1>1, <1>3 DEF HomeAnswer, LookupLands, LookupFails, CheckedOut, CheckoutFails, EnsureWs,
       makeWorktree, SendFails, DraftAfterFailure, LookForSend
  <2> QED  BY <2>1, SendFacts DEF Created, SendSafe
<1> QED  BY <1>1, <1>2, <1>3 DEF HomeNext, homeVars

(***************************************************************************)
(* The draft of a fork.                                                    *)
(***************************************************************************)
IsCall(c) ==
    c = [at |-> c.at, id |-> c.id, text |-> c.text, typed |-> c.typed, seeded |-> c.seeded]
Texts == {"", "seed", "edit"}
SeedSeeded == forkSeed => forkSeeded
DraftTypes ==
    /\ SeedSeeded
    /\ text \in Texts
    /\ nextId \in Nat /\ requestId \in Nat /\ requestId < nextId
    /\ claim # 0 => \E r \in receipts : r.id = claim
    /\ IsCall(sending)
LEMMA TextFacts == "" \in Texts /\ \A t \in {"seed", "edit"} : t \in Texts
  BY DEF Texts
LEMMA NoCallFacts == IsCall(NoCall) /\ NoCall.at = "none"
  BY DEF NoCall, IsCall

LEMMA AppendFacts ==
    ASSUME NEW reaches, NEW returns, AppendSend(reaches, returns), IsCall(sending)
    PROVE  /\ sending.at = "out" /\ sending'.id = sending.id /\ sending'.text = sending.text
           /\ IsCall(sending') /\ sending'.at \in {"ok", "failed"}
           /\ sending'.typed = sending.typed /\ sending'.seeded = sending.seeded
           /\ sending'.at = "ok" => [id |-> sending.id, text |-> sending.text] \in receipts'
           /\ \/ UNCHANGED <<receipts, claim>>
              \/ /\ claim = 0 /\ claim' = sending.id
                 /\ \A r \in receipts : r.id # sending.id
                 /\ receipts' = receipts \union {[id |-> sending.id, text |-> sending.text]}
           /\ UNCHANGED <<composerVars, nextId, forkSeed, seedReleasedAt, consumed, releases, dropped>>
<1> DEFINE answer == IF reaches /\ returns /\ (Accepts \/ Recognised) THEN "ok" ELSE "failed"
<1>1. sending' = [sending EXCEPT !.at = answer]
  BY DEF AppendSend
<1>2. answer \in {"ok", "failed"} /\ (answer = "ok" => reaches /\ (Accepts \/ Recognised))
  OBVIOUS
<1> HIDE DEF answer
<1>3. sending' = [at |-> answer, id |-> sending.id, text |-> sending.text, typed |-> sending.typed,
                  seeded |-> sending.seeded]
  BY <1>1 DEF IsCall
<1>4. /\ sending'.id = sending.id /\ sending'.text = sending.text /\ sending'.at = answer
      /\ sending'.typed = sending.typed /\ sending'.seeded = sending.seeded /\ IsCall(sending')
  BY <1>3 DEF IsCall
<1>5. \/ UNCHANGED <<receipts, claim>> /\ ~(reaches /\ Accepts)
      \/ /\ claim = 0 /\ claim' = sending.id
         /\ \A r \in receipts : r.id # sending.id
         /\ receipts' = receipts \union {[id |-> sending.id, text |-> sending.text]}
  BY DEF AppendSend, Accepts, Known
<1>6. answer = "ok" => [id |-> sending.id, text |-> sending.text] \in receipts'
  BY <1>2, <1>5 DEF Recognised
<1> QED  BY <1>2, <1>4, <1>5, <1>6 DEF AppendSend

\* What the seed and the typing do to a send on its way.
LEMMA MarkFacts ==
    ASSUME IsCall(sending), NEW b,
           \/ sending' = [sending EXCEPT !.typed = sending # NoCall]
           \/ sending' = [sending EXCEPT !.seeded = sending # NoCall /\ (@ \/ b)]
    PROVE  /\ IsCall(sending') /\ sending'.at = sending.at /\ sending'.id = sending.id
           /\ sending'.text = sending.text /\ (sending = NoCall => sending' = NoCall)
<1>1. CASE sending' = [sending EXCEPT !.typed = sending # NoCall]
  <2> DEFINE t == sending # NoCall
  <2>1. sending' = [at |-> sending.at, id |-> sending.id, text |-> sending.text,
                    typed |-> t, seeded |-> sending.seeded]
    BY <1>1 DEF IsCall
  <2>2. ASSUME sending = NoCall PROVE sending' = NoCall
    <3>1. t = FALSE
      BY <2>2
    <3>2. sending' = [sending EXCEPT !.typed = FALSE]
      BY <1>1, <3>1
    <3> QED  BY <2>2, <3>2 DEF NoCall
  <2> HIDE DEF t
  <2>3. /\ sending'.at = sending.at /\ sending'.id = sending.id /\ sending'.text = sending.text
        /\ IsCall(sending')
    BY <2>1 DEF IsCall
  <2> QED  BY <2>2, <2>3
<1>2. CASE sending' = [sending EXCEPT !.seeded = sending # NoCall /\ (@ \/ b)]
  <2> DEFINE t == sending # NoCall /\ (sending.seeded \/ b)
  <2>1. sending' = [at |-> sending.at, id |-> sending.id, text |-> sending.text,
                    typed |-> sending.typed, seeded |-> t]
    BY <1>2 DEF IsCall
  <2>2. ASSUME sending = NoCall PROVE sending' = NoCall
    <3>1. t = FALSE
      BY <2>2
    <3>2. sending' = [sending EXCEPT !.seeded = FALSE]
      BY <1>2, <3>1
    <3> QED  BY <2>2, <3>2 DEF NoCall
  <2> HIDE DEF t
  <2>3. /\ sending'.at = sending.at /\ sending'.id = sending.id /\ sending'.text = sending.text
        /\ IsCall(sending')
    BY <2>1 DEF IsCall
  <2> QED  BY <2>2, <2>3
<1> QED  BY <1>1, <1>2

LEMMA SeedStep == DraftTypes /\ [DraftNext]_draftVars => SeedSeeded'
<1> SUFFICES ASSUME SeedSeeded, [DraftNext]_draftVars PROVE forkSeed' => forkSeeded'
  BY DEF DraftTypes, SeedSeeded
<1>1. CASE PollDraft
  BY <1>1, Zenon DEF PollDraft, SeedEffects
<1>2. CASE ReloadDraft
  BY <1>2, Zenon DEF ReloadDraft
<1>3. CASE UNCHANGED <<forkSeed, forkSeeded>>
  BY <1>3, Zenon DEF SeedSeeded
<1>4. CASE Edit \/ SendDraft \/ Answered \/ Release \/ DraftServer \/ UNCHANGED draftVars
  BY <1>3, <1>4 DEF Edit, SendDraft, Answered, Release, DraftServer, Consume, AppendSend, draftVars,
     composerVars
<1> QED  BY <1>1, <1>2, <1>4 DEF DraftNext

LEMMA DraftTypeStep == DraftTypes /\ [DraftNext]_draftVars => DraftTypes'
<1> SUFFICES ASSUME DraftTypes, [DraftNext]_draftVars PROVE DraftTypes'
  OBVIOUS
<1>0. SeedSeeded'
  BY SeedStep
<1>1. CASE PollDraft
  <2>1. UNCHANGED <<nextId, receipts, claim>>
        /\ text' \in {"seed", text} /\ requestId' \in {0, requestId}
    BY <1>1 DEF PollDraft, SeedEffects, serverVars
  <2>4. IsCall(sending')
    BY <1>1, MarkFacts DEF PollDraft, SeedEffects, DraftTypes
  <2>2. text' \in Texts
    BY <2>1, TextFacts DEF DraftTypes
  <2>3. requestId' \in Nat /\ requestId' < nextId
    BY <2>1 DEF DraftTypes
  <2> QED  BY <1>0, <2>1, <2>2, <2>3, <2>4 DEF DraftTypes
<1>2. CASE ReloadDraft
  BY <1>0, <1>2, NoCallFacts DEF ReloadDraft, DraftTypes, serverVars
<1>3. CASE Edit
  <2>1. IsCall(sending')
    BY <1>3, MarkFacts DEF Edit, DraftTypes
  <2> QED  BY <1>0, <1>3, <2>1, TextFacts DEF Edit, DraftTypes, serverVars
<1>4. CASE SendDraft
  <2>1. IsCall(sending')
    BY <1>4 DEF SendDraft, IsCall
  <2>2. nextId' \in Nat /\ requestId' \in Nat /\ requestId' < nextId'
    <3>1. /\ requestId' = IF requestId # 0 THEN requestId ELSE nextId
          /\ nextId' = IF requestId' = nextId THEN nextId + 1 ELSE nextId
      BY <1>0, <1>4, Zenon DEF SendDraft, forkSendRequestID
    <3> QED  BY <3>1 DEF DraftTypes
  <2> QED  BY <1>0, <1>4, <2>1, <2>2 DEF SendDraft, DraftTypes, serverVars
<1>5. CASE Answered
  <2>1. text' \in {text, ""} /\ sending' = NoCall
    BY <1>5, Zenon DEF Answered, TextAfter
  <2>2. text' \in Texts
    BY <2>1, TextFacts DEF DraftTypes
  <2> QED  BY <1>0, <1>5, <2>1, <2>2, NoCallFacts DEF Answered, DraftTypes, serverVars
<1>6. CASE Consume
  BY <1>0, <1>6 DEF Consume, DraftTypes, composerVars
<1>7. CASE Release
  BY <1>0, <1>7 DEF Release, DraftTypes, composerVars
<1>8. ASSUME NEW reaches, NEW returns, AppendSend(reaches, returns) PROVE DraftTypes'
  <2>1. claim' # 0 => \E r \in receipts' : r.id = claim'
    BY <1>8, AppendFacts DEF DraftTypes
  <2> QED  BY <1>0, <1>8, <2>1, AppendFacts DEF DraftTypes, composerVars
<1>9. CASE UNCHANGED draftVars
  BY <1>0, <1>9 DEF draftVars, composerVars, serverVars, DraftTypes
<1> QED  BY <1>0, <1>1, <1>2, <1>3, <1>4, <1>5, <1>6, <1>7, <1>8, <1>9 DEF DraftNext, DraftServer

LEMMA DraftTypeStart == DraftInit => DraftTypes
<1> SUFFICES ASSUME DraftInit PROVE DraftTypes
  OBVIOUS
<1>1. text \in Texts /\ IsCall(sending)
  BY NoCallFacts, TextFacts, Zenon DEF DraftInit
<1>2. nextId = 1 /\ requestId = 0 /\ claim = 0 /\ SeedSeeded
  BY Zenon DEF DraftInit, SeedSeeded
<1> QED  BY <1>1, <1>2 DEF DraftTypes

LEMMA DraftHolds == DraftTypes => DraftTypeOK
<1> SUFFICES ASSUME DraftTypes PROVE DraftTypeOK
  OBVIOUS
<1>1. requestId \in 0..nextId
  BY DEF DraftTypes
<1>2. (forkSeed => forkSeeded) /\ (claim # 0 => \E r \in receipts : r.id = claim)
  BY Zenon DEF DraftTypes, SeedSeeded
<1>3. text \in {"", "seed", "edit"}
  BY DEF DraftTypes, Texts
<1> QED  BY <1>1, <1>2, <1>3, Zenon DEF DraftTypeOK

(***************************************************************************)
(* While the draft is not consumed, a claim has the id the composer keeps  *)
(* or one it has dropped, and so has a send on its way: the ids part when  *)
(* a release is read, and no other is made before the send has ended.      *)
(***************************************************************************)
ReceiptsSafe == (\A r \in receipts : r = [id |-> r.id, text |-> r.text]) /\ consumed \in BOOLEAN
SendingSafe ==
    sending # NoCall => /\ text = sending.text \/ sending.typed \/ sending.seeded
                        /\ sending.at \in {"out", "ok", "failed"}
                        /\ sending.at = "ok" => Recognised
IdSafe ==
    ~consumed => /\ claim # 0 => claim = requestId \/ claim \in dropped
                 /\ sending.at = "out" =>
                       \/ sending.id = requestId
                       \/ requestId = 0 /\ (sending.id \in dropped \/ Known)
DraftSound == DraftTypes /\ ReceiptsSafe /\ SendingSafe /\ IdSafe

LEMMA DraftStep == DraftSound /\ [DraftNext]_draftVars => DraftSound'
<1> SUFFICES ASSUME DraftTypes, ReceiptsSafe, SendingSafe, IdSafe, [DraftNext]_draftVars
             PROVE  ReceiptsSafe' /\ SendingSafe' /\ IdSafe'
  BY DraftTypeStep DEF DraftSound
<1>0. IsCall(sending) /\ NoCall.at = "none"
  BY NoCallFacts DEF DraftTypes
<1>1. CASE PollDraft
  <2> DEFINE released == forkSeed' /\ seedReleasedAt' # 0 /\ handledSeedRelease # seedReleasedAt'
             seeds == forkSeed' /\ (released \/ ~forkSeeded)
  <2>1. UNCHANGED <<receipts, claim, consumed>> /\ forkSeed' = ~consumed
    BY <1>1 DEF PollDraft, serverVars
  <2>2. /\ text' = IF seeds THEN "seed" ELSE text
        /\ requestId' = IF released \/ (~forkSeed' /\ forkSeeded) THEN 0 ELSE requestId
        /\ sending' = [sending EXCEPT !.seeded = sending # NoCall /\ (@ \/ seeds)]
        /\ dropped' = IF released /\ (claim = requestId \/ \A r \in receipts : r.id # requestId)
                      THEN dropped \union {requestId} ELSE dropped
    BY <1>1 DEF PollDraft, SeedEffects
  <2>3. ~consumed' /\ ~released => UNCHANGED <<requestId, dropped>>
    BY <2>1, <2>2
  <2>4. ~consumed' /\ released =>
           /\ requestId' = 0
           /\ dropped' = IF claim = requestId \/ \A r \in receipts : r.id # requestId
                         THEN dropped \union {requestId} ELSE dropped
    BY <2>2
  <2> HIDE DEF released, seeds
  <2>5. /\ sending'.at = sending.at /\ sending'.id = sending.id /\ sending'.text = sending.text
        /\ sending = NoCall => sending' = NoCall
    BY <1>0, <2>2, MarkFacts
  <2>6. sending # NoCall => (sending'.typed = sending.typed) /\ (sending'.seeded <=> sending.seeded \/ seeds)
    BY <1>0, <2>2 DEF IsCall
  <2>7. SendingSafe'
    BY <2>1, <2>2, <2>5, <2>6 DEF SendingSafe, Recognised
  <2>8. ReceiptsSafe'
    BY <2>1 DEF ReceiptsSafe
  <2>9. IdSafe'
    BY <2>1, <2>3, <2>4, <2>5 DEF IdSafe, Known
  <2> QED  BY <2>7, <2>8, <2>9
<1>2. CASE ReloadDraft
  <2>1. UNCHANGED <<requestId, receipts, claim, consumed, dropped>> /\ sending' = NoCall
    BY <1>2 DEF ReloadDraft, serverVars
  <2> QED  BY <1>0, <2>1 DEF ReceiptsSafe, SendingSafe, IdSafe
<1>3. CASE Edit
  <2>1. UNCHANGED <<requestId, receipts, claim, consumed, dropped>>
        /\ sending' = [sending EXCEPT !.typed = sending # NoCall]
    BY <1>3 DEF Edit, serverVars
  <2>2. /\ sending'.at = sending.at /\ sending'.id = sending.id /\ sending'.text = sending.text
        /\ sending = NoCall => sending' = NoCall
    BY <1>0, <2>1, MarkFacts
  <2>3. sending # NoCall => sending'.typed
    BY <1>0, <2>1 DEF IsCall
  <2> QED  BY <2>1, <2>2, <2>3 DEF ReceiptsSafe, SendingSafe, Recognised, IdSafe, Known
<1>4. CASE SendDraft
  <2>1. /\ UNCHANGED <<text, receipts, claim, consumed, dropped>>
        /\ sending' = [at |-> "out", id |-> requestId', text |-> text, typed |-> FALSE, seeded |-> FALSE]
        /\ requestId' = IF requestId # 0 THEN requestId ELSE nextId
    BY <1>4 DEF SendDraft, serverVars, forkSendRequestID
  <2>2. sending'.at = "out" /\ sending'.id = requestId' /\ sending'.text = text
    BY <2>1
  <2> QED  BY <2>1, <2>2 DEF ReceiptsSafe, SendingSafe, IdSafe
<1>5. CASE Answered
  <2>1. UNCHANGED <<requestId, receipts, claim, consumed, dropped>> /\ sending' = NoCall
    BY <1>5 DEF Answered, serverVars
  <2> QED  BY <1>0, <2>1 DEF ReceiptsSafe, SendingSafe, IdSafe
<1>6. CASE Consume
  <2>1. UNCHANGED <<text, sending, receipts>> /\ consumed' = TRUE
    BY <1>6 DEF Consume, composerVars
  <2> QED  BY <2>1 DEF ReceiptsSafe, SendingSafe, IdSafe, Recognised
<1>7. CASE Release
  <2>1. UNCHANGED <<text, requestId, sending, receipts, consumed, dropped>> /\ claim' = 0
    BY <1>7 DEF Release, composerVars
  <2> QED  BY <2>1 DEF ReceiptsSafe, SendingSafe, IdSafe, Recognised, Known
<1>8. ASSUME NEW reaches, NEW returns, AppendSend(reaches, returns)
      PROVE  ReceiptsSafe' /\ SendingSafe' /\ IdSafe'
  <2>1. sending # NoCall /\ sending.at = "out"
    BY <1>0, <1>8 DEF AppendSend
  <2>2. /\ UNCHANGED <<text, requestId, consumed, dropped>>
        /\ sending'.id = sending.id /\ sending'.text = sending.text
        /\ sending'.typed = sending.typed /\ sending'.seeded = sending.seeded
        /\ sending'.at \in {"ok", "failed"}
        /\ sending'.at = "ok" => [id |-> sending.id, text |-> sending.text] \in receipts'
    BY <1>0, <1>8, AppendFacts DEF composerVars
  <2>3. SendingSafe'
    BY <2>1, <2>2 DEF SendingSafe, Recognised
  <2>4. CASE UNCHANGED <<receipts, claim>>
    BY <2>2, <2>3, <2>4 DEF ReceiptsSafe, IdSafe
  <2>5. CASE /\ claim = 0 /\ claim' = sending.id
             /\ \A r \in receipts : r.id # sending.id
             /\ receipts' = receipts \union {[id |-> sending.id, text |-> sending.text]}
    BY <2>1, <2>2, <2>3, <2>5 DEF ReceiptsSafe, IdSafe, Known
  <2> QED  BY <1>0, <1>8, <2>4, <2>5, AppendFacts
<1>9. CASE UNCHANGED draftVars
  BY <1>9 DEF draftVars, composerVars, serverVars, ReceiptsSafe, SendingSafe, IdSafe, Recognised, Known
<1> QED  BY <1>1, <1>2, <1>3, <1>4, <1>5, <1>6, <1>7, <1>8, <1>9 DEF DraftNext, DraftServer

LEMMA DraftStart == DraftInit => DraftSound
<1> SUFFICES ASSUME DraftInit PROVE ReceiptsSafe /\ SendingSafe /\ IdSafe
  BY DraftTypeStart DEF DraftSound
<1>1. receipts = {} /\ claim = 0 /\ sending = NoCall
  BY Zenon DEF DraftInit
<1>2. consumed \in BOOLEAN
  BY Zenon DEF DraftInit
<1> QED  BY <1>1, <1>2, NoCallFacts DEF ReceiptsSafe, SendingSafe, IdSafe

LEMMA DraftRetries == DraftSound => RetryIsRecognised
<1> SUFFICES ASSUME DraftSound, sending.at = "out", claim # 0, ~consumed, claim \notin dropped
             PROVE  Recognised \/ \E r \in receipts : r.id = claim /\ r.text # sending.text
  BY DEF RetryIsRecognised
<1>1. sending.id = claim
  BY DEF DraftSound, IdSafe
<1>2. PICK r \in receipts : r.id = claim
  BY DEF DraftSound, DraftTypes
<1>3. CASE r.text = sending.text
  <2>1. r = [id |-> sending.id, text |-> sending.text]
    BY <1>1, <1>2, <1>3 DEF DraftSound, ReceiptsSafe
  <2> QED  BY <2>1 DEF Recognised
<1> QED  BY <1>2, <1>3

LEMMA DraftErases == DraftSound /\ [DraftNext]_draftVars => DraftErasesSent
<1> SUFFICES ASSUME DraftSound, [DraftNext]_draftVars, text # "", text' = ""
             PROVE  /\ sending.at = "ok" /\ Recognised
                    /\ text = sending.text \/ sending.typed \/ sending.seeded
  BY DEF DraftErasesSent
<1>1. ASSUME NEW reaches, NEW returns, AppendSend(reaches, returns) PROVE UNCHANGED text
  BY <1>1 DEF AppendSend, composerVars
<1>2. Answered
  BY <1>1 DEF DraftNext, DraftServer, draftVars, composerVars, PollDraft, SeedEffects, ReloadDraft,
     Edit, SendDraft, Consume, Release
<1> QED  BY <1>2, NoCallFacts DEF Answered, TextAfter, DraftSound, SendingSafe

(***************************************************************************)
(* The approval posture.                                                   *)
(***************************************************************************)
Modes == {"default", "acceptEdits", "plan"}
Levels == AccessLevels \union {Unknown}
Blocks == {"ask", "allow", Unknown}
Switch(kind, where, level, perms, slot, sure) ==
    [kind |-> kind, at |-> where, level |-> level, permissions |-> perms, slot |-> slot, sure |-> sure]
IsSwitch(s) == s = Switch(s.kind, s.at, s.level, s.permissions, s.slot, s.sure)
SwitchTypes(s) ==
    /\ IsSwitch(s) /\ s.permissions \in Blocks /\ s.sure \in BOOLEAN
    /\ s.kind = "access" => s.level \in AccessLevels /\ s.permissions = permissionsBlock(s.level)
    /\ s.kind = "mode" => s.at = "mode" /\ s.level \in Modes
    /\ s.kind \in {"model", "persona"} => s.at # "mode"
    /\ s.kind \in {"access", "mode", "model", "persona"} /\ s.at \in {"spec", "answer", "mode"}
CountTypes ==
    /\ IsFiniteSet(switches) /\ requests \in Seq(Modes) /\ postureSteps \in 0..PostureSteps
    /\ Len(requests) + Cardinality(switches) <= postureSteps
PostureTypes ==
    /\ spec \in Blocks /\ permissions \in Blocks /\ access \in Levels /\ picked \in Levels
    /\ muddled \in BOOLEAN
    /\ \A s \in switches : SwitchTypes(s)
    /\ CountTypes

LEMMA PostureStrings ==
    /\ AccessLevels = {"full", "ask", "acceptEdits", "plan"} /\ Unknown = "-"
    /\ \A s : permissionsBlock(s) \in {"ask", "allow"} /\ runtimeModeTarget(s) \in Modes
  BY DEF AccessLevels, Unknown, permissionsBlock, runtimeModeTarget, Modes

\* The switches that are on their way are no more than the steps that are left
\* for their requests.
LEMMA CardAdd ==
    ASSUME NEW S, IsFiniteSet(S), NEW x
    PROVE  /\ IsFiniteSet(S \union {x})
           /\ Cardinality(S \union {x}) \in Nat /\ Cardinality(S) \in Nat
           /\ Cardinality(S \union {x}) <= Cardinality(S) + 1
<1>1. IsFiniteSet(S \union {x}) /\ Cardinality(S) \in Nat /\ Cardinality(S \union {x}) \in Nat
  BY FS_AddElement, FS_CardinalityType
<1>2. Cardinality(S \union {x}) <= Cardinality(S) + 1
  BY <1>1, FS_AddElement
<1> QED  BY <1>1, <1>2
LEMMA CardDrop ==
    ASSUME NEW S, IsFiniteSet(S), NEW x \in S
    PROVE  /\ IsFiniteSet(S \ {x}) /\ Cardinality(S \ {x}) \in Nat /\ Cardinality(S) \in Nat
           /\ Cardinality(S \ {x}) = Cardinality(S) - 1
  BY FS_RemoveElement, FS_CardinalityType

\* The ones a click finds on their way are no longer sure.
Unsure == {[s EXCEPT !.sure = FALSE] : s \in switches}
LEMMA UnsureCount ==
    ASSUME IsFiniteSet(switches)
    PROVE  IsFiniteSet(Unsure) /\ Cardinality(Unsure) <= Cardinality(switches)
<1> DEFINE f == [s \in switches |-> [s EXCEPT !.sure = FALSE]]
<1>1. \A u \in Unsure : \E s \in switches : f[s] = u
  BY DEF Unsure
<1>2. f \in [switches -> Unsure]
  BY DEF Unsure
<1>3. f \in Surjection(switches, Unsure)
  BY <1>1, <1>2 DEF Surjection
<1> QED  BY <1>3, FS_Surjection
LEMMA UnsureTypes ==
    ASSUME PostureTypes, NEW u \in Unsure
    PROVE  SwitchTypes(u) /\ ~u.sure
<1>1. PICK s \in switches : u = [s EXCEPT !.sure = FALSE]
  BY DEF Unsure
<1>2. SwitchTypes(s)
  BY DEF PostureTypes
<1>3. u = Switch(s.kind, s.at, s.level, s.permissions, s.slot, FALSE)
  BY <1>1, <1>2 DEF SwitchTypes, IsSwitch, Switch
<1>4. /\ u.kind = s.kind /\ u.at = s.at /\ u.level = s.level /\ u.permissions = s.permissions
      /\ u.slot = s.slot /\ u.sure = FALSE
  BY <1>3 DEF Switch
<1> QED  BY <1>2, <1>3, <1>4 DEF SwitchTypes, IsSwitch

LEMMA Starts ==
    ASSUME NEW kind, NEW where, NEW level, NEW perms, NEW recalls \in BOOLEAN,
           Start(kind, where, level, perms, recalls)
    PROVE  \E new :
             /\ switches' = Unsure \union {new} /\ new.kind = kind /\ new.at = where
             /\ new.level = level /\ new.permissions = perms /\ new.sure \in BOOLEAN
             /\ new.sure <=> recalls /\ switches = {}
             /\ IsSwitch(new)
<1> DEFINE sure == recalls /\ switches = {}
           new == Switch(kind, where, level, perms, Slot, sure)
<1>1. switches' = Unsure \union {new}
  BY DEF Start, Unsure, Switch
<1>2. sure \in BOOLEAN /\ (sure <=> recalls /\ switches = {})
  OBVIOUS
<1> HIDE DEF sure
<1>3. /\ new.kind = kind /\ new.at = where /\ new.level = level /\ new.permissions = perms
      /\ new.sure = sure /\ new.slot = Slot
  BY DEF Switch
<1>4. IsSwitch(new)
  BY <1>3 DEF IsSwitch
<1> HIDE DEF new
<1> QED  BY <1>1, <1>2, <1>3, <1>4

LEMMA StartTypes ==
    ASSUME PostureTypes, NEW new, switches' = Unsure \union {new}, requests' = requests, PostureSpend
    PROVE  CountTypes'
<1>1. postureSteps < PostureSteps /\ postureSteps' = postureSteps + 1
  BY DEF PostureSpend
<1>2. /\ IsFiniteSet(switches) /\ requests \in Seq(Modes) /\ postureSteps \in 0..PostureSteps
      /\ Len(requests) + Cardinality(switches) <= postureSteps
  BY DEF PostureTypes, CountTypes
<1>3. Len(requests) \in Nat /\ PostureSteps \in Nat /\ Cardinality(switches) \in Nat
  BY <1>2, PostureAssumption, FS_CardinalityType
<1>4. IsFiniteSet(Unsure) /\ Cardinality(Unsure) <= Cardinality(switches)
  BY <1>2, UnsureCount
<1>5. IsFiniteSet(switches') /\ Cardinality(switches') \in Nat /\ Cardinality(Unsure) \in Nat
      /\ Cardinality(switches') <= Cardinality(Unsure) + 1
  BY <1>4, CardAdd
<1> QED  BY <1>1, <1>2, <1>3, <1>4, <1>5 DEF CountTypes

\* A switch moves on, or ends; a request or a step takes its place.
LEMMA SwitchEnds ==
    ASSUME CountTypes, NEW s \in switches,
           \/ switches' = switches \ {s}
           \/ \E x : switches' = (switches \ {s}) \union {x} /\ requests' = requests,
           \/ requests' = requests \/ \E m \in Modes : requests' = Append(requests, m),
           PostureFree \/ PostureSpend
    PROVE  CountTypes'
<1>2. /\ IsFiniteSet(switches) /\ requests \in Seq(Modes) /\ postureSteps \in 0..PostureSteps
      /\ Len(requests) + Cardinality(switches) <= postureSteps
  BY DEF CountTypes
<1>3. Len(requests) \in Nat /\ PostureSteps \in Nat
  BY <1>2, PostureAssumption
<1>4. /\ IsFiniteSet(switches \ {s}) /\ Cardinality(switches) \in Nat
      /\ Cardinality(switches \ {s}) = Cardinality(switches) - 1
  BY <1>2, CardDrop
<1>5. postureSteps' \in 0..PostureSteps /\ postureSteps <= postureSteps'
  BY <1>2, <1>3 DEF PostureFree, PostureSpend
<1>6. requests' \in Seq(Modes) /\ Len(requests') <= Len(requests) + 1 /\ Len(requests') \in Nat
  BY <1>2
<1>7. CASE switches' = switches \ {s}
  BY <1>2, <1>3, <1>4, <1>5, <1>6, <1>7 DEF CountTypes
<1>8. ASSUME NEW x, switches' = (switches \ {s}) \union {x}, requests' = requests
      PROVE  CountTypes'
  <2> DEFINE rest == switches \ {s}
  <2>1. IsFiniteSet(rest) /\ switches' = rest \union {x} /\ Cardinality(rest) = Cardinality(switches) - 1
    BY <1>4, <1>8
  <2> HIDE DEF rest
  <2>2. /\ IsFiniteSet(switches') /\ Cardinality(switches') \in Nat /\ Cardinality(rest) \in Nat
        /\ Cardinality(switches') <= Cardinality(rest) + 1
    BY <2>1, CardAdd
  <2> QED  BY <1>2, <1>3, <1>4, <1>5, <1>8, <2>1, <2>2 DEF CountTypes
<1> QED  BY <1>7, <1>8

\* A switch that moves on.
Moved(s, x, where) ==
    /\ x.kind = s.kind /\ x.at = where /\ x.level = s.level /\ x.permissions = s.permissions
    /\ x.sure = s.sure /\ IsSwitch(x)
LEMMA MovesOn ==
    ASSUME NEW s, SwitchTypes(s), NEW where
    PROVE  Moved(s, [s EXCEPT !.at = where], where)
<1> DEFINE x == [s EXCEPT !.at = where]
<1>1. x = Switch(s.kind, where, s.level, s.permissions, s.slot, s.sure)
  BY DEF SwitchTypes, IsSwitch, Switch
<1>2. /\ x.kind = s.kind /\ x.at = where /\ x.level = s.level /\ x.permissions = s.permissions
      /\ x.slot = s.slot /\ x.sure = s.sure
  BY <1>1 DEF Switch
<1> QED  BY <1>1, <1>2 DEF Moved, IsSwitch

LEMMA PostureTypeStep == PostureTypes /\ [PostureNext]_postureVars => PostureTypes'
<1> SUFFICES ASSUME PostureTypes, [PostureNext]_postureVars PROVE PostureTypes'
  OBVIOUS
<1>0. ASSUME UNCHANGED <<spec, permissions, access, picked, switches, muddled>>, CountTypes'
      PROVE  PostureTypes'
  BY <1>0 DEF PostureTypes
<1>1. ASSUME NEW kind, NEW where, NEW level, NEW perms \in Blocks, NEW recalls \in BOOLEAN,
             Start(kind, where, level, perms, recalls), picked' \in Levels,
             kind \in {"access", "mode", "model", "persona"}, where \in {"spec", "mode"},
             kind = "access" => level \in AccessLevels /\ perms = permissionsBlock(level),
             kind = "mode" => where = "mode" /\ level \in Modes,
             kind \in {"model", "persona"} => where = "spec"
      PROVE  PostureTypes'
  <2>1. PICK new :
             /\ switches' = Unsure \union {new} /\ new.kind = kind /\ new.at = where
             /\ new.level = level /\ new.permissions = perms /\ new.sure \in BOOLEAN /\ IsSwitch(new)
    BY <1>1, Starts
  <2>2. SwitchTypes(new)
    BY <1>1, <2>1 DEF SwitchTypes
  <2>3. \A s \in switches' : SwitchTypes(s)
    BY <2>1, <2>2, UnsureTypes
  <2>4. CountTypes'
    BY <1>1, <2>1, StartTypes DEF Start, sessionVars
  <2>5. muddled' \in BOOLEAN
    BY <1>1 DEF Start, PostureTypes
  <2> QED  BY <1>1, <2>3, <2>4, <2>5 DEF Start, PostureTypes, sessionVars, rememberedVars
<1>3. ASSUME NEW id \in AccessLevels, chooseSessionAccess(id) PROVE PostureTypes'
  <2>1. permissionsBlock(id) \in Blocks /\ picked' \in Levels
    BY <1>3, PostureStrings DEF chooseSessionAccess, Blocks, Levels
  <2> QED  BY <1>1, <1>3, <2>1 DEF chooseSessionAccess
<1>5. CASE applyModelSpec
  <2>1. PICK perms \in Blocks, recalls \in BOOLEAN : Start("model", "spec", Unknown, perms, recalls)
    BY <1>5, PostureStrings DEF applyModelSpec, PostureTypes, Blocks
  <2> QED  BY <1>1, <1>5, <2>1 DEF applyModelSpec, PostureTypes
<1>6. CASE choosePersona
  <2>1. PICK perms \in Blocks, recalls \in BOOLEAN : Start("persona", "spec", Unknown, perms, recalls)
    BY <1>6, PostureStrings DEF choosePersona, PostureTypes, Blocks
  <2> QED  BY <1>1, <1>6, <2>1 DEF choosePersona, PostureTypes
<1>7. ASSUME NEW target \in {"default", "acceptEdits"}, switchMode(target) PROVE PostureTypes'
  <2>1. Unknown \in Blocks /\ Unknown \in Levels /\ target \in Modes
    BY DEF Blocks, Levels, Modes
  <2>2. Start("mode", "mode", target, Unknown, TRUE) /\ picked' = Unknown
    BY <1>7 DEF switchMode
  <2> QED  BY <1>1, <2>1, <2>2
<1>8. CASE ModeChanges
  <2>1. CountTypes'
    <3>1. /\ requests # <<>> /\ requests' = Tail(requests) /\ UNCHANGED <<switches, postureSteps>>
      BY <1>8 DEF ModeChanges, PostureFree
    <3>2. /\ requests \in Seq(Modes) /\ Cardinality(switches) \in Nat /\ postureSteps \in Nat
          /\ Len(requests) + Cardinality(switches) <= postureSteps
      BY FS_CardinalityType DEF PostureTypes, CountTypes
    <3>3. requests' \in Seq(Modes) /\ Len(requests') = Len(requests) - 1 /\ Len(requests) \in Nat
      BY <3>1, <3>2
    <3>4. Len(requests') + Cardinality(switches) <= postureSteps
      BY <3>2, <3>3
    <3> QED  BY <3>1, <3>3, <3>4 DEF PostureTypes, CountTypes
  <2> QED  BY <1>0, <1>8, <2>1 DEF ModeChanges, rememberedVars
<1>9. CASE FoldMode \/ UNCHANGED postureVars
  BY <1>0, <1>9 DEF FoldMode, PostureFree, PostureTypes, CountTypes, sessionVars, rememberedVars, postureVars
<1>10. ASSUME NEW s \in switches, SpecLands(s) PROVE PostureTypes'
  <2> DEFINE on == [s EXCEPT !.at = "answer"]
  <2>1. SwitchTypes(s) /\ s.at = "spec"
    BY <1>10 DEF PostureTypes, SpecLands
  <2>2. Moved(s, on, "answer")
    BY <2>1, MovesOn
  <2>3. switches' = (switches \ {s}) \union {on} /\ permissions' = s.permissions
        /\ UNCHANGED <<spec, access, picked, muddled>>
    BY <1>10 DEF SpecLands, rememberedVars
  <2>4. CountTypes'
    BY <1>10, SwitchEnds DEF SpecLands, PostureTypes
  <2> HIDE DEF on
  <2>5. SwitchTypes(on)
    BY <2>1, <2>2 DEF SwitchTypes, Moved
  <2> QED  BY <2>1, <2>3, <2>4, <2>5 DEF PostureTypes, SwitchTypes
<1>11. ASSUME NEW s \in switches, SpecAnswered(s) PROVE PostureTypes'
  <2> DEFINE on == [s EXCEPT !.at = "mode"]
  <2>1. SwitchTypes(s)
    BY DEF PostureTypes
  <2>2. Moved(s, on, "mode")
    BY <2>1, MovesOn
  <2>3. CountTypes'
    BY <1>11, SwitchEnds DEF SpecAnswered, Drop, PostureTypes, sessionVars
  <2>4. spec' \in Blocks /\ UNCHANGED <<permissions, picked>>
    BY <1>11, <2>1 DEF SpecAnswered, SpecAfter, SwitchTypes, sessionVars
  <2>5. CASE s.kind = "access"
    <3>1. switches' = (switches \ {s}) \union {on} /\ access' = s.level /\ muddled' \in BOOLEAN
      BY <1>11, <2>5 DEF SpecAnswered
    <3> HIDE DEF on
    <3>2. SwitchTypes(on)
      BY <2>1, <2>2, <2>5 DEF SwitchTypes, Moved
    <3> QED  BY <2>1, <2>3, <2>4, <2>5, <3>1, <3>2 DEF PostureTypes, SwitchTypes, Levels
  <2>6. CASE s.kind # "access"
    BY <1>11, <2>3, <2>4, <2>6 DEF SpecAnswered, PostureTypes, Drop
  <2> QED  BY <2>5, <2>6
<1>12. ASSUME NEW s \in switches, ModeLands(s) \/ SpecFails(s) \/ ModeFails(s) PROVE PostureTypes'
  <2>1. s.at = "mode" => ModeTarget(s) \in Modes
    BY PostureStrings DEF PostureTypes, SwitchTypes, ModeTarget
  <2>2. CountTypes'
    BY <1>12, <2>1, SwitchEnds DEF ModeLands, SpecFails, ModeFails, Fails, Drop, PostureTypes, sessionVars
  <2>3. UNCHANGED <<spec, permissions, access>> /\ switches' = switches \ {s}
        /\ picked' \in {picked, Unknown} /\ muddled' \in BOOLEAN
    BY <1>12 DEF ModeLands, SpecFails, ModeFails, Fails, Drop, sessionVars, rememberedVars, PostureTypes
  <2> QED  BY <2>2, <2>3 DEF PostureTypes, Levels
<1> QED  BY <1>3, <1>5, <1>6, <1>7, <1>8, <1>9, <1>10, <1>11, <1>12 DEF PostureNext

LEMMA PostureTypeStart == PostureInit => PostureTypes
<1> SUFFICES ASSUME PostureInit PROVE PostureTypes
  OBVIOUS
<1>1. CountTypes
  BY FS_EmptySet, PostureAssumption DEF PostureInit, CountTypes
<1>2. PICK id \in AccessLevels :
         /\ permissions = permissionsBlock(id)
         /\ (spec = permissions /\ access = id) \/ (spec = Unknown /\ access = Unknown)
  BY DEF PostureInit
<1> QED  BY <1>1, <1>2, PostureStrings DEF PostureInit, PostureTypes, Blocks, Levels

LEMMA PostureHolds == PostureTypes => PostureTypeOK
<1> SUFFICES ASSUME PostureTypes PROVE PostureTypeOK
  OBVIOUS
<1>1. Len(requests) <= PostureSteps
  BY FS_CardinalityType, PostureAssumption DEF PostureTypes, CountTypes
<1> QED  BY <1>1 DEF PostureTypes, PostureTypeOK, Blocks, Levels

(***************************************************************************)
(* A switch that is sure is alone, and what it sends is what was picked.   *)
(* While nothing is muddled any switch is alone, and with none on its way  *)
(* what the browser remembers, if anything, is what the session is; a      *)
(* level picked alone brings that back, with its spec's answer.            *)
(***************************************************************************)
Modest == mode \in Modes /\ liveMode \in Modes \union {Unknown}
Alone == \A s, q \in switches : s = q
SureSafe(s) ==
    /\ switches = {s}
    /\ s.kind = "access" => /\ picked = s.level
                            /\ s.at # "spec" => permissions = s.permissions
                            /\ s.at = "mode" => ~muddled
    /\ s.kind \in {"model", "persona"} => ~muddled /\ s.permissions = permissions
LoneSafe(s) ==
    /\ s.kind \in {"access", "mode"} => s.sure
    /\ (s.kind = "access" /\ s.at = "mode") => access = s.level
    /\ s.kind = "mode" => picked = Unknown
    /\ s.kind \in {"model", "persona"} => /\ ~s.sure => access = Unknown
                                          /\ s.at = "answer" => permissions = s.permissions
LevelKnown ==
    (access # Unknown /\ (\A s \in switches : s.kind # "access" \/ s.at # "answer"))
        => (spec = permissions /\ permissions = permissionsBlock(access))
SpecKnown ==
    (spec # Unknown /\ (\A s \in switches : s.at = "answer" => (s.kind # "access" /\ s.sure)))
        => spec = permissions
Asked == IF requests = <<>> THEN mode ELSE requests[Len(requests)]
PickedSafe ==
    (picked # Unknown /\ (\A s \in switches : s.kind # "access"))
        => access = picked /\ Asked = runtimeModeTarget(picked)
Steady ==
    /\ Alone /\ LevelKnown /\ SpecKnown /\ PickedSafe
    /\ \A s \in switches : LoneSafe(s)
PostureSafe ==
    /\ Modest
    /\ ~muddled => Steady
    /\ \A s \in switches : s.sure => SureSafe(s)
PostureSound == PostureTypes /\ PostureSafe

\* The last mode asked for is the one that was sent.
LEMMA AskedIs ==
    ASSUME requests \in Seq(Modes), NEW m \in Modes, requests' = Append(requests, m)
    PROVE  Asked' = m
<1>1. requests' # <<>> /\ requests'[Len(requests')] = m
  OBVIOUS
<1> QED  BY <1>1 DEF Asked
LEMMA AskedStays ==
    ASSUME requests \in Seq(Modes), requests # <<>>, mode' = Head(requests), requests' = Tail(requests)
    PROVE  Asked' = Asked /\ mode' \in Modes
<1>1. /\ Len(requests) \in Nat /\ Len(requests) > 0 /\ mode' = requests[1] /\ requests[1] \in Modes
      /\ requests' \in Seq(Modes) /\ Len(requests') = Len(requests) - 1
      /\ \A i \in 1..Len(requests') : requests'[i] = requests[i + 1]
  OBVIOUS
<1>2. CASE Len(requests) = 1
  BY <1>1, <1>2 DEF Asked
<1>3. CASE Len(requests) > 1
  <2>1. requests' # <<>> /\ requests'[Len(requests')] = requests[Len(requests)]
    BY <1>1, <1>3
  <2> QED  BY <1>1, <2>1 DEF Asked
<1> QED  BY <1>1, <1>2, <1>3

\* A click while another switch is on its way muddles, and nothing is sure then.
LEMMA StartsMuddled ==
    ASSUME PostureTypes, PostureSafe, NEW kind, NEW where, NEW level, NEW perms, NEW recalls \in BOOLEAN,
           Start(kind, where, level, perms, recalls), switches # {}
    PROVE  PostureSafe'
<1>1. PICK new : switches' = Unsure \union {new} /\ ~new.sure
  BY Starts
<1>2. \A s \in switches' : ~s.sure
  BY <1>1, UnsureTypes
<1>3. muddled' /\ UNCHANGED <<mode, liveMode>>
  BY DEF Start, sessionVars
<1> QED  BY <1>2, <1>3 DEF PostureSafe, Modest

\* Any other is alone.
LEMMA StartsAlone ==
    ASSUME PostureTypes, PostureSafe, NEW kind, NEW where, NEW level, NEW perms, NEW recalls \in BOOLEAN,
           Start(kind, where, level, perms, recalls), switches = {},
           kind \in {"access", "mode", "model", "persona"},
           kind \in {"access", "mode"} => recalls,
           kind = "access" => where = "spec" /\ picked' = level,
           kind = "mode" => where = "mode" /\ picked' = Unknown,
           kind \in {"model", "persona"} =>
               /\ where = "spec" /\ picked' = picked
               /\ recalls => ~muddled /\ perms = permissions
               /\ ~recalls /\ ~muddled => access = Unknown
    PROVE  PostureSafe'
<1>1. PICK new :
         /\ switches' = {new} /\ new.kind = kind /\ new.at = where /\ new.level = level
         /\ new.permissions = perms /\ new.sure \in BOOLEAN /\ (new.sure <=> recalls)
  <2>1. Unsure = {}
    BY DEF Unsure
  <2> QED  BY <2>1, Starts
<1>2. UNCHANGED <<mode, liveMode, spec, permissions, access, requests, muddled>>
  BY DEF Start, sessionVars, rememberedVars, PostureTypes
<1>3. new.sure => SureSafe(new)'
  BY <1>1, <1>2 DEF SureSafe
<1>4. ASSUME ~muddled PROVE Steady'
  <2>1. LevelKnown /\ SpecKnown /\ PickedSafe
    BY <1>4 DEF PostureSafe, Steady
  <2>2. Alone' /\ LevelKnown' /\ SpecKnown'
    BY <1>1, <1>2, <2>1 DEF Alone, LevelKnown, SpecKnown
  <2>3. Asked' = Asked
    BY <1>2 DEF Asked
  <2>4. PickedSafe'
    BY <1>1, <1>2, <2>1, <2>3 DEF PickedSafe
  <2>5. LoneSafe(new)'
    BY <1>1, <1>2, <1>4 DEF LoneSafe
  <2> QED  BY <1>1, <2>2, <2>4, <2>5 DEF Steady
<1> QED  BY <1>1, <1>2, <1>3, <1>4 DEF PostureSafe, Modest

\* A step of a switch while others, or something lost, muddle.
LEMMA MuddledStep ==
    ASSUME PostureSafe, muddled, NEW s \in switches, ~\E q \in switches : q.sure, muddled',
           \/ switches' = switches \ {s}
           \/ \E x : switches' = (switches \ {s}) \union {x} /\ ~x.sure,
           UNCHANGED <<mode, liveMode>>
    PROVE  PostureSafe'
<1>1. \A q \in switches' : ~q.sure
  OBVIOUS
<1> QED  BY <1>1 DEF PostureSafe, Modest

\* Otherwise the switch is the only one.
LEMMA OneOnItsWay ==
    ASSUME PostureSafe, NEW s \in switches, ~muddled \/ \E q \in switches : q.sure
    PROVE  /\ switches = {s} /\ switches \ {s} = {}
           /\ s.sure => SureSafe(s)
           /\ ~muddled => LoneSafe(s) /\ LevelKnown /\ SpecKnown /\ PickedSafe
           /\ ~muddled \/ s.sure
<1>1. switches = {s}
  BY DEF PostureSafe, Steady, Alone, SureSafe
<1> QED  BY <1>1 DEF PostureSafe, Steady

LEMMA SpecLandsSafe ==
    ASSUME PostureTypes, PostureSafe, NEW s \in switches, SpecLands(s)
    PROVE  PostureSafe'
<1> DEFINE on == [s EXCEPT !.at = "answer"]
<1>1. SwitchTypes(s) /\ s.at = "spec" /\ Moved(s, on, "answer")
  BY MovesOn DEF PostureTypes, SpecLands
<1>2. /\ switches' = (switches \ {s}) \union {on} /\ permissions' = s.permissions
      /\ UNCHANGED <<mode, requests, spec, access, liveMode, picked, muddled>>
  BY DEF SpecLands, rememberedVars
<1> HIDE DEF on
<1>3. on.kind = s.kind /\ on.at = "answer" /\ on.level = s.level /\ on.permissions = s.permissions
      /\ on.sure = s.sure
  BY <1>1 DEF Moved
<1>4. CASE muddled /\ ~\E q \in switches : q.sure
  BY <1>2, <1>3, <1>4, MuddledStep
<1>5. CASE ~muddled \/ \E q \in switches : q.sure
  <2>1. /\ switches = {s} /\ switches' = {on}
        /\ s.sure => SureSafe(s)
        /\ ~muddled => LoneSafe(s) /\ LevelKnown /\ SpecKnown /\ PickedSafe
    BY <1>2, <1>5, OneOnItsWay
  <2>2. on.sure => SureSafe(on)'
    BY <1>1, <1>2, <1>3, <2>1 DEF SureSafe
  <2>3. ASSUME ~muddled PROVE Steady'
    <3>1. Alone' /\ LoneSafe(on)'
      BY <1>1, <1>2, <1>3, <2>1, <2>3 DEF Alone, LoneSafe
    <3>2. LevelKnown'
      <4>1. CASE s.kind = "access"
        BY <1>3, <2>1, <4>1 DEF LevelKnown
      <4>2. CASE s.kind # "access"
        BY <1>1, <1>2, <2>1, <2>3, <4>2 DEF LevelKnown, LoneSafe, SureSafe, SwitchTypes
      <4> QED  BY <4>1, <4>2
    <3>3. SpecKnown'
      BY <1>1, <1>2, <1>3, <2>1, <2>3 DEF SpecKnown, SureSafe, SwitchTypes
    <3>4. Asked' = Asked
      BY <1>2 DEF Asked
    <3>5. PickedSafe'
      BY <1>2, <1>3, <2>1, <2>3, <3>4 DEF PickedSafe
    <3> QED  BY <2>1, <3>1, <3>2, <3>3, <3>5 DEF Steady
  <2> QED  BY <1>2, <2>1, <2>2, <2>3 DEF PostureSafe, Modest
<1> QED  BY <1>4, <1>5

LEMMA SpecAnsweredSafe ==
    ASSUME PostureTypes, PostureSafe, NEW s \in switches, SpecAnswered(s)
    PROVE  PostureSafe'
<1> DEFINE on == [s EXCEPT !.at = "mode"]
<1>1. SwitchTypes(s) /\ s.at = "answer" /\ Moved(s, on, "mode")
  BY MovesOn DEF PostureTypes, SpecAnswered
<1>2. /\ spec' = s.permissions
      /\ UNCHANGED <<mode, requests, permissions, liveMode, picked>>
      /\ s.kind = "access" => /\ switches' = (switches \ {s}) \union {on}
                              /\ access' = s.level /\ muddled' = (muddled /\ ~s.sure)
      /\ s.kind # "access" => switches' = switches \ {s} /\ UNCHANGED <<access, muddled>>
  BY DEF SpecAnswered, SpecAfter, sessionVars, Drop
<1> HIDE DEF on
<1>3. on.kind = s.kind /\ on.at = "mode" /\ on.level = s.level /\ on.permissions = s.permissions
      /\ on.sure = s.sure
  BY <1>1 DEF Moved
<1>4. CASE muddled /\ ~\E q \in switches : q.sure
  <2>1. muddled' /\ UNCHANGED <<mode, liveMode>>
    BY <1>2, <1>4
  <2>2. \/ switches' = switches \ {s}
        \/ \E x : switches' = (switches \ {s}) \union {x} /\ ~x.sure
    BY <1>2, <1>3, <1>4
  <2> QED  BY <1>4, <2>1, <2>2, MuddledStep
<1>5. CASE ~muddled \/ \E q \in switches : q.sure
  <2>1. /\ switches = {s} /\ switches \ {s} = {}
        /\ ~muddled \/ s.sure
        /\ s.sure => SureSafe(s)
        /\ ~muddled => LoneSafe(s) /\ LevelKnown /\ SpecKnown /\ PickedSafe
    BY <1>5, OneOnItsWay
  <2>2. CASE s.kind = "access"
    <3>1. s.sure /\ ~muddled' /\ switches' = {on} /\ access' = s.level
      BY <1>2, <2>1, <2>2 DEF LoneSafe, PostureTypes
    <3>2. permissions = s.permissions /\ picked = s.level /\ s.permissions = permissionsBlock(s.level)
      BY <1>1, <2>1, <2>2, <3>1 DEF SureSafe, SwitchTypes
    <3>3. SureSafe(on)'
      BY <1>2, <1>3, <2>2, <3>1, <3>2 DEF SureSafe
    <3>4. Alone' /\ LoneSafe(on)'
      BY <1>3, <2>2, <3>1 DEF Alone, LoneSafe
    <3>5. LevelKnown' /\ SpecKnown'
      BY <1>2, <3>1, <3>2 DEF LevelKnown, SpecKnown
    <3>6. PickedSafe'
      BY <1>3, <2>2, <3>1 DEF PickedSafe
    <3> QED  BY <1>2, <3>1, <3>3, <3>4, <3>5, <3>6 DEF PostureSafe, Modest, Steady
  <2>3. CASE s.kind # "access"
    <3>1. switches' = {} /\ UNCHANGED <<access, muddled>> /\ s.kind \in {"model", "persona"}
      BY <1>1, <1>2, <2>1, <2>3 DEF SwitchTypes
    <3>2. ASSUME ~muddled PROVE Steady'
      <4>1. permissions = s.permissions
        BY <1>1, <2>1, <3>1, <3>2 DEF LoneSafe
      <4>2. Asked' = Asked
        BY <1>2 DEF Asked
      <4>3. LevelKnown' /\ SpecKnown' /\ PickedSafe'
        BY <1>2, <2>1, <2>3, <3>1, <3>2, <4>1, <4>2 DEF LevelKnown, SpecKnown, PickedSafe
      <4> QED  BY <3>1, <4>3 DEF Steady, Alone
    <3> QED  BY <1>2, <3>1, <3>2 DEF PostureSafe, Modest
  <2> QED  BY <2>2, <2>3
<1> QED  BY <1>4, <1>5

\* A switch that ends: with it ends what it muddled if its answer was lost.
LEMMA EndsSafe ==
    ASSUME PostureTypes, PostureSafe, NEW s \in switches, ModeLands(s) \/ SpecFails(s) \/ ModeFails(s)
    PROVE  PostureSafe'
<1>1. /\ SwitchTypes(s) /\ switches' = switches \ {s}
      /\ UNCHANGED <<spec, permissions, access, mode, liveMode>> /\ muddled' \in BOOLEAN
      /\ muddled => muddled'
  BY DEF PostureTypes, ModeLands, SpecFails, ModeFails, Fails, Drop, sessionVars, rememberedVars
<1>2. CASE muddled /\ ~\E q \in switches : q.sure
  BY <1>1, <1>2, MuddledStep
<1>3. CASE ~muddled \/ \E q \in switches : q.sure
  <2>1. /\ switches = {s} /\ switches' = {}
        /\ s.sure => SureSafe(s)
        /\ ~muddled => LoneSafe(s) /\ LevelKnown /\ SpecKnown /\ PickedSafe
    BY <1>1, <1>3, OneOnItsWay
  <2>2. ASSUME ~muddled' PROVE Steady'
    <3>1. ~muddled /\ s.at # "answer"
      BY <1>1, <2>2 DEF ModeLands, SpecFails, ModeFails, SwitchTypes
    <3>2. LevelKnown' /\ SpecKnown'
      BY <1>1, <2>1, <3>1 DEF LevelKnown, SpecKnown
    <3>3. ASSUME picked' # Unknown
          PROVE  access' = picked' /\ Asked' = runtimeModeTarget(picked')
      <4>1. CASE ModeLands(s)
        <5>1. s.at = "mode" /\ picked' = picked /\ requests' = Append(requests, ModeTarget(s))
          BY <4>1 DEF ModeLands
        <5>2. s.kind = "access" /\ picked = s.level /\ access = s.level
          BY <1>1, <2>1, <3>1, <3>3, <5>1 DEF SureSafe, LoneSafe, SwitchTypes
        <5>3. ModeTarget(s) = runtimeModeTarget(picked) /\ runtimeModeTarget(picked) \in Modes
          BY <5>2, PostureStrings DEF ModeTarget
        <5>4. Asked' = runtimeModeTarget(picked)
          BY <5>1, <5>3, AskedIs DEF PostureTypes, CountTypes
        <5> QED  BY <1>1, <5>1, <5>2, <5>4
      <4>2. CASE SpecFails(s)
        <5>1. s.kind # "access" /\ picked' = picked /\ requests' = requests
          BY <3>3, <4>2 DEF SpecFails, Fails, sessionVars
        <5>2. Asked' = Asked
          BY <1>1, <5>1 DEF Asked
        <5> QED  BY <1>1, <2>1, <3>1, <3>3, <5>1, <5>2 DEF PickedSafe
      <4>3. CASE ModeFails(s)
        BY <1>1, <2>1, <3>1, <3>3, <4>3 DEF ModeFails, Fails, LoneSafe, SwitchTypes
      <4> QED  BY <4>1, <4>2, <4>3
    <3>4. PickedSafe'
      BY <3>3 DEF PickedSafe
    <3> QED  BY <2>1, <3>2, <3>4 DEF Steady, Alone
  <2> QED  BY <1>1, <2>1, <2>2 DEF PostureSafe, Modest
<1> QED  BY <1>2, <1>3

LEMMA SafeStep == PostureSound /\ [PostureNext]_postureVars => PostureSafe'
<1> SUFFICES ASSUME PostureTypes, PostureSafe, [PostureNext]_postureVars
             PROVE  PostureSafe'
  BY DEF PostureSound
<1>1. ASSUME NEW id \in AccessLevels, chooseSessionAccess(id) PROVE PostureSafe'
  <2>1. Start("access", "spec", id, permissionsBlock(id), TRUE) /\ picked' = id
    BY <1>1 DEF chooseSessionAccess
  <2> QED  BY <2>1, StartsMuddled, StartsAlone
<1>2. CASE applyModelSpec
  <2> DEFINE perms == IF spec # Unknown THEN spec ELSE permissionsBlock("full")
             recalls == spec # Unknown /\ ~muddled
  <2>1. Start("model", "spec", Unknown, perms, recalls) /\ picked' = picked /\ recalls \in BOOLEAN
    BY <1>2 DEF applyModelSpec
  <2>2. CASE switches = {}
    <3>1. recalls => ~muddled /\ perms = permissions
      BY <2>2 DEF PostureSafe, Steady, SpecKnown
    <3>2. ~recalls /\ ~muddled => access = Unknown
      BY <2>2, PostureStrings DEF PostureSafe, Steady, LevelKnown, PostureTypes
    <3> HIDE DEF perms, recalls
    <3> QED  BY <2>1, <2>2, <3>1, <3>2, StartsAlone
  <2> HIDE DEF perms, recalls
  <2> QED  BY <2>1, <2>2, StartsMuddled
<1>3. CASE choosePersona
  <2> DEFINE perms == permissionsBlock(IF access # Unknown THEN access ELSE "full")
             recalls == access # Unknown /\ ~muddled
  <2>1. Start("persona", "spec", Unknown, perms, recalls) /\ picked' = picked /\ recalls \in BOOLEAN
    BY <1>3 DEF choosePersona
  <2>2. CASE switches = {}
    <3>1. recalls => ~muddled /\ perms = permissions
      BY <2>2 DEF PostureSafe, Steady, LevelKnown
    <3>2. ~recalls /\ ~muddled => access = Unknown
      OBVIOUS
    <3> HIDE DEF perms, recalls
    <3> QED  BY <2>1, <2>2, <3>1, <3>2, StartsAlone
  <2> HIDE DEF perms, recalls
  <2> QED  BY <2>1, <2>2, StartsMuddled
<1>4. ASSUME NEW target \in {"default", "acceptEdits"}, switchMode(target) PROVE PostureSafe'
  <2>1. Start("mode", "mode", target, Unknown, TRUE) /\ picked' = Unknown
    BY <1>4 DEF switchMode
  <2> QED  BY <2>1, StartsMuddled, StartsAlone
<1>5. ASSUME UNCHANGED <<spec, permissions, access, picked, switches, muddled>>, Asked' = Asked,
             mode' \in Modes, liveMode' \in Modes \union {Unknown}
      PROVE  PostureSafe'
  <2>1. ~muddled => Alone' /\ LevelKnown' /\ SpecKnown' /\ PickedSafe'
    BY <1>5 DEF PostureSafe, Steady, Alone, LevelKnown, SpecKnown, PickedSafe
  <2>2. \A s \in switches' : /\ ~muddled => LoneSafe(s)'
                             /\ s.sure => SureSafe(s)'
    BY <1>5 DEF PostureSafe, Steady, LoneSafe, SureSafe
  <2> QED  BY <1>5, <2>1, <2>2 DEF PostureSafe, Steady, Modest
<1>6. CASE ModeChanges
  BY <1>5, <1>6, AskedStays DEF ModeChanges, rememberedVars, PostureSafe, Modest, PostureTypes, CountTypes
<1>7. CASE FoldMode \/ UNCHANGED postureVars
  <2>1. Asked' = Asked
    BY <1>7 DEF FoldMode, sessionVars, postureVars, Asked
  <2> QED  BY <1>5, <1>7, <2>1 DEF FoldMode, rememberedVars, sessionVars, postureVars, PostureSafe, Modest
<1> QED  BY <1>1, <1>2, <1>3, <1>4, <1>6, <1>7, SpecLandsSafe, SpecAnsweredSafe, EndsSafe DEF PostureNext

LEMMA PostureStep == PostureSound /\ [PostureNext]_postureVars => PostureSound'
  BY PostureTypeStep, SafeStep DEF PostureSound

LEMMA PostureStart == PostureInit => PostureSound
<1> SUFFICES ASSUME PostureInit PROVE PostureSafe
  BY PostureTypeStart DEF PostureSound
<1>1. PICK id \in AccessLevels :
         /\ permissions = permissionsBlock(id) /\ mode = runtimeModeTarget(id)
         /\ (spec = permissions /\ access = id) \/ (spec = Unknown /\ access = Unknown)
  BY DEF PostureInit
<1>2. requests = <<>> /\ liveMode = Unknown /\ switches = {} /\ picked = Unknown
  BY DEF PostureInit
<1> QED  BY <1>1, <1>2, PostureStrings
       DEF PostureSafe, Steady, Modest, Alone, LevelKnown, SpecKnown, PickedSafe

LEMMA PillHolds == PostureSound => PillIsPosture
<1> SUFFICES ASSUME PostureSound, switches = {}, requests = <<>>, liveMode = mode, ~muddled
             PROVE  /\ Pill # Unknown => Claims(Pill)
                    /\ picked # Unknown => Pill = picked
  BY DEF PillIsPosture
<1>1. /\ access # Unknown => permissions = permissionsBlock(access)
      /\ mode \in Modes /\ access \in Levels /\ picked \in Levels
      /\ picked # Unknown => access = picked /\ mode = runtimeModeTarget(picked)
  BY DEF PostureSound, PostureTypes, PostureSafe, Steady, LevelKnown, PickedSafe, Modest, Asked
<1>2. access = "full" => permissionsBlock(access) = "allow"
  BY DEF permissionsBlock
<1>3. access = "ask" => permissionsBlock(access) = "ask"
  BY DEF permissionsBlock
<1>4. Pill # Unknown => Claims(Pill)
  BY <1>1, <1>2, <1>3 DEF Pill, Claims, Modes, Unknown, AccessLevels, Levels
<1>5. picked # Unknown => Pill = picked
  BY <1>1 DEF Pill, runtimeModeTarget, Modes, Unknown, AccessLevels, Levels
<1> QED  BY <1>4, <1>5

LEMMA OnlyAccess ==
    PostureSound /\ [PostureNext]_postureVars => OnlyAccessChangesPermissions
<1> SUFFICES ASSUME PostureSound, [PostureNext]_postureVars, permissions' # permissions
             PROVE  \E s \in switches : s.at = "spec" /\ (s.kind = "access" \/ ~s.sure)
  BY DEF OnlyAccessChangesPermissions
<1>1. PICK s \in switches : SpecLands(s)
  BY DEF PostureNext, chooseSessionAccess, switchMode, applyModelSpec, choosePersona, Start,
         ModeChanges, FoldMode, SpecAnswered, SpecFails, ModeLands, ModeFails, postureVars, sessionVars
<1>2. s.at = "spec" /\ permissions' = s.permissions
  BY <1>1 DEF SpecLands
<1>3. s.kind = "access" \/ ~s.sure
  BY <1>2 DEF PostureSound, PostureTypes, PostureSafe, SwitchTypes, SureSafe
<1> QED  BY <1>2, <1>3

(***************************************************************************)
(* The rail.                                                               *)
(***************************************************************************)
LEMMA RailTypeStep == RailTypeOK /\ [RailNext]_railVars => RailTypeOK'
<1> SUFFICES ASSUME RailTypeOK, [RailNext]_railVars PROVE RailTypeOK'
  OBVIOUS
<1>1. railSteps' \in 0..RailSteps
  <2>1. RailSteps \in Nat /\ railSteps \in 0..RailSteps
    BY SidebarAssumption DEF RailTypeOK
  <2>2. RailSpend \/ railSteps' = railSteps
    BY DEF RailNext, Grow, ClickRow, togglePin, ArchiveRow, selectAdjacent, toggleShowArchived,
           SetOrganize, SetSort, toggleProjectPinned, setProjectCollapsed, onToggleOverflow, railVars
  <2> QED  BY <2>1, <2>2 DEF RailSpend
<1>2. pins' \subseteq AllChats /\ hidden' \subseteq AllChats
  <2>1. \A s \in AllChats, set \in SUBSET AllChats : Flip(set, s) \subseteq AllChats
    BY DEF Flip
  <2>2. \/ UNCHANGED <<pins, hidden>>
        \/ \E s \in AllChats : pins' \in {pins, Flip(pins, s)} /\ hidden' \in {hidden, Flip(hidden, s)}
    BY DEF RailNext, Grow, ClickRow, togglePin, ArchiveRow, selectAdjacent, toggleShowArchived,
           SetOrganize, SetSort, toggleProjectPinned, setProjectCollapsed, onToggleOverflow, railVars,
           OfSessions
  <2> QED  BY <2>1, <2>2 DEF RailTypeOK
<1>3. organize' \in {"by-project", "one-list"} /\ sort' \in {"priority", "updated", "manual"}
  BY DEF RailTypeOK, RailNext, Grow, ClickRow, togglePin, ArchiveRow, selectAdjacent,
         toggleShowArchived, SetOrganize, SetSort, toggleProjectPinned, setProjectCollapsed,
         onToggleOverflow, railVars, OfGroups
<1> QED  BY <1>1, <1>2, <1>3 DEF RailTypeOK

LEMMA RailTypeStart == RailInit => RailTypeOK
  BY SidebarAssumption DEF RailInit, RailTypeOK

(***************************************************************************)
(* The console.  A step is a step of one part; the others keep what they   *)
(* have.                                                                   *)
(***************************************************************************)
LEMMA PartsStep ==
    [Next]_vars =>
        /\ [ListNext]_listVars /\ [OptNext]_optVars /\ [NavNext]_navVars /\ [SchedNext]_schedVars
        /\ [HomeNext]_homeVars /\ [DraftNext]_draftVars /\ [PostureNext]_postureVars
        /\ [RailNext]_railVars
<1> SUFFICES ASSUME [Next]_vars
             PROVE  /\ [ListNext]_listVars /\ [OptNext]_optVars /\ [NavNext]_navVars
                    /\ [SchedNext]_schedVars /\ [HomeNext]_homeVars /\ [DraftNext]_draftVars
                    /\ [PostureNext]_postureVars /\ [RailNext]_railVars
  OBVIOUS
<1>1. CASE UNCHANGED vars
  BY <1>1, Zenon DEF vars
<1>2. CASE InList /\ ListNext
  BY <1>2, Zenon DEF InList
<1>3. CASE InOptimistic /\ OptNext
  BY <1>3, Zenon DEF InOptimistic
<1>4. CASE InNavigation /\ NavNext
  BY <1>4, Zenon DEF InNavigation
<1>5. CASE InScheduled /\ SchedNext
  BY <1>5, Zenon DEF InScheduled
<1>6. CASE InHome /\ HomeNext
  BY <1>6, Zenon DEF InHome
<1>7. CASE InDraft /\ DraftNext
  BY <1>7, Zenon DEF InDraft
<1>8. CASE InPosture /\ PostureNext
  BY <1>8, Zenon DEF InPosture
<1>9. CASE InSidebar /\ RailNext
  BY <1>9, Zenon DEF InSidebar
<1> QED  BY <1>1, <1>2, <1>3, <1>4, <1>5, <1>6, <1>7, <1>8, <1>9, Zenon DEF Next

Typed ==
    /\ ListSound /\ OptSound /\ NavSound /\ SchedTypes /\ HomeTypes /\ DraftTypes /\ PostureTypes
    /\ RailTypeOK
LEMMA TypedStart == Init => Typed
  BY ListStart, OptStart, NavStart, SchedTypeStart, HomeTypeStart, DraftTypeStart,
     PostureTypeStart, RailTypeStart, Zenon DEF Init, Typed
LEMMA TypedStep == Typed /\ [Next]_vars => Typed'
  BY PartsStep, ListSafeStep, OptStep, NavStep, SchedTypeStep, HomeTypeStep, DraftTypeStep,
     PostureTypeStep, RailTypeStep, Zenon DEF Typed
THEOREM ConsoleTyped == Spec => []Typed
  BY TypedStart, TypedStep, PTL DEF Spec

\* Every variable of the console keeps its type, no session is listed twice, and
\* no lookup is for a project left behind (store.ts, ComposerController.tsx).
THEOREM TypeCorrect == Spec => []TypeOK
<1>1. Typed => TypeOK
  BY ListHolds, OptHolds, NavHolds, SchedHolds, HomeHolds, DraftHolds, PostureHolds, Zenon
     DEF Typed, TypeOK
<1> QED  BY <1>1, ConsoleTyped, PTL

\* A listed session with turns that were not looked at is marked, and the address
\* names what is on the screen (store.ts, applyPage; app/AppRuntime.tsx).
THEOREM PageTrue == Spec => []PageIsTrue
<1>1. Typed => PageIsTrue
  BY ListHolds, NavHolds, Zenon DEF Typed, PageIsTrue
<1> QED  BY <1>1, ConsoleTyped, PTL

\* The parts that keep what the user chose and typed.
Safe == SchedSound /\ HomeSound /\ DraftSound /\ PostureSound
LEMMA SafeStart == Init => Safe
  BY SchedStart, HomeStart, DraftStart, PostureStart, Zenon DEF Init, Safe
LEMMA AllSafeStep == Safe /\ [Next]_vars => Safe'
  BY PartsStep, SchedSafeStep, HomeSafeStep, DraftStep, PostureStep, Zenon DEF Safe
LEMMA SafeHolds ==
    Safe => SendUsesItsProject /\ PillIsPosture /\ SpinnerIsHonest /\ RetryIsRecognised
  BY HomeSendsItsProject, PillHolds, DraftRetries, Zenon DEF Safe, SchedSound

\* What was chosen is what happens, and what was typed stays until it is sent,
\* but for the races each of the properties names in its own formula: a send
\* uses its own project, the pill is the posture of the session, a save is
\* accepted only for what was read, and the retry of a draft is recognised
\* (ComposerController.tsx, useScheduledController.ts, sessionSpecs.ts).
THEOREM Heeded == Spec => UserIsHeeded
<1>1. Safe /\ Safe' /\ [Next]_vars => ChosenHolds /\ TypedStays
  <2> SUFFICES ASSUME Safe, Safe', [Next]_vars PROVE ChosenHolds /\ TypedStays
    OBVIOUS
  <2>1. SendUsesItsProject' /\ PillIsPosture' /\ SpinnerIsHonest' /\ RetryIsRecognised'
    BY SafeHolds, PTL
  <2>2. OnlyAccessChangesPermissions /\ SaveIsInformed /\ HomeErasesSent /\ DraftErasesSent
    BY PartsStep, OnlyAccess, SaveHolds, HomeErases, DraftErases, Zenon DEF Safe
  <2> QED  BY <2>1, <2>2, Zenon DEF ChosenHolds, TypedStays, PostureIsChosen
<1>2. Spec => []Safe
  BY SafeStart, AllSafeStep, PTL DEF Spec
<1> QED  BY <1>1, <1>2, PTL DEF Spec, UserIsHeeded
=============================================================================
