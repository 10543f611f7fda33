---------------------------- MODULE PagingProofs ----------------------------
(***************************************************************************)
(* Proofs, for every value of the constants, about the query engine. The   *)
(* comparison behind find is a total preorder that the operators follow;   *)
(* find, count and remove select the same documents; a sort that compares  *)
(* _id leaves one order, so that pages fit together; an update can be      *)
(* repeated; a projection keeps what it should. What the recursive filter  *)
(* selects is shown by induction, from a least counterexample.             *)
(***************************************************************************)
EXTENDS Paging, WellFoundedInduction, TLAPS

-----------------------------------------------------------------------------
(* The query engine.                                                        *)

(* A set of natural numbers that is not empty has its Min.                  *)
LEMMA MinOfNats ==
    ASSUME NEW S, S \subseteq Nat, S # {}
    PROVE  Min(S) \in S /\ \A y \in S : Min(S) <= y
<1>1. \E x \in S : \A y \in S : <<y, x>> \notin OpToRel(<, Nat)
  BY NatLessThanWellFounded, WFMin, Zenon
<1>2. PICK x \in S : \A y \in S : <<y, x>> \notin OpToRel(<, Nat)
  BY <1>1, Zenon
<1>3. \A y \in S : ~(y < x)
  BY <1>2, Zenon DEF OpToRel
<1>4. \A y \in S : x <= y
  BY <1>3
<1> QED BY <1>4, Zenon DEF Min

(* Induction up to a bound, for a set in place of a predicate.              *)
LEMMA Upward ==
    ASSUME NEW m \in Nat, NEW G, 0 \in G, \A n \in 0..(m - 1) : n \in G => n + 1 \in G
    PROVE  \A n \in 0..m : n \in G
<1> DEFINE bad == {n \in 0..m : n \notin G}
<1> SUFFICES ASSUME bad # {} PROVE FALSE
  OBVIOUS
<1>1. bad \subseteq Nat
  OBVIOUS
<1>2. Min(bad) \in bad /\ \A y \in bad : Min(bad) <= y
  BY <1>1, MinOfNats, Zenon
<1>3. PICK x \in bad : \A y \in bad : x <= y
  BY <1>2, Zenon
<1>4. x - 1 \in 0..(m - 1) /\ x - 1 \notin bad
  BY <1>3
<1>5. x - 1 \in G
  BY <1>4
<1> QED BY <1>3, <1>4, <1>5

(* compare_values is antisymmetric and transitive, and equality under it    *)
(* is no obstacle to either.                                                *)
LEMMA CompareValuesOrder ==
    ASSUME NEW a \in Value, NEW b \in Value, NEW c \in Value
    PROVE  /\ CompareValues(a, b) \in {-1, 0, 1}
           /\ CompareValues(a, b) = -CompareValues(b, a)
           /\ CompareValues(a, b) <= 0 /\ CompareValues(b, c) <= 0
                => /\ CompareValues(a, c) <= 0
                   /\ CompareValues(a, c) = 0 => CompareValues(a, b) = 0 /\ CompareValues(b, c) = 0
<1>1. /\ a.type \in Types /\ b.type \in Types /\ c.type \in Types
      /\ a.rank \in Int /\ b.rank \in Int /\ c.rank \in Int
  BY DEF Value
<1>2. /\ TypePrecedence \in [Types -> 0..5]
      /\ \A s, t \in Types : TypePrecedence[s] = TypePrecedence[t] => s = t
  BY DEF TypePrecedence, Types
<1> DEFINE pa == TypePrecedence[a.type]
           pb == TypePrecedence[b.type]
           pc == TypePrecedence[c.type]
           Ranked == {"bool", "number", "string"}
<1>3. /\ pa \in Int /\ pb \in Int /\ pc \in Int
      /\ pa = pb <=> a.type = b.type
      /\ pb = pc <=> b.type = c.type
      /\ pa = pc <=> a.type = c.type
  BY <1>1, <1>2
<1>4. /\ CompareValues(a, b) = IF a.type # b.type THEN Sign(pa - pb)
                               ELSE IF a.type \in Ranked THEN Sign(a.rank - b.rank) ELSE 0
      /\ CompareValues(b, a) = IF a.type # b.type THEN Sign(pb - pa)
                               ELSE IF a.type \in Ranked THEN Sign(b.rank - a.rank) ELSE 0
      /\ CompareValues(b, c) = IF b.type # c.type THEN Sign(pb - pc)
                               ELSE IF b.type \in Ranked THEN Sign(b.rank - c.rank) ELSE 0
      /\ CompareValues(a, c) = IF a.type # c.type THEN Sign(pa - pc)
                               ELSE IF a.type \in Ranked THEN Sign(a.rank - c.rank) ELSE 0
  BY DEF CompareValues
<1> HIDE DEF pa, pb, pc, Ranked
<1> QED BY <1>1, <1>3, <1>4 DEF Sign

(* How two documents compare in one field, under an order of 1 or -1.       *)
KeyOrder(a, b, sort, k) == sort[k] * CompareValues(Field(a, k), Field(b, k))

IsSort(sort) == DOMAIN sort \subseteq Keys /\ \A k \in DOMAIN sort : sort[k] \in Int

LEMMA KeyOrderFacts ==
    ASSUME NEW sort, IsSort(sort), NEW k \in Compared(sort),
           NEW a, IsDocument(a), NEW b, IsDocument(b), NEW c, IsDocument(c)
    PROVE  /\ KeyOrder(a, b, sort, k) \in {-1, 0, 1}
           /\ KeyOrder(a, b, sort, k) = -KeyOrder(b, a, sort, k)
           /\ KeyOrder(a, b, sort, k) = 0 <=> CompareValues(Field(a, k), Field(b, k)) = 0
           /\ KeyOrder(a, b, sort, k) <= 0 /\ KeyOrder(b, c, sort, k) <= 0
                => /\ KeyOrder(a, c, sort, k) <= 0
                   /\ KeyOrder(a, c, sort, k) = 0
                        => KeyOrder(a, b, sort, k) = 0 /\ KeyOrder(b, c, sort, k) = 0
<1> DEFINE x == Field(a, k)
           y == Field(b, k)
           z == Field(c, k)
           s == sort[k]
           xy == CompareValues(x, y)
           yx == CompareValues(y, x)
           yz == CompareValues(y, z)
           zy == CompareValues(z, y)
           xz == CompareValues(x, z)
           zx == CompareValues(z, x)
<1>1. s \in {1, -1}
  <2>1. k \in Nat /\ k \in DOMAIN sort
    BY QueryAssumption, Zenon DEF Compared, IsSort
  <2>2. k <= k
    BY <2>1
  <2> QED BY <2>1, <2>2, Zenon DEF Compared
<1>2. x \in Value /\ y \in Value /\ z \in Value
  <2>1. Null \in Value
    BY DEF Null, Value, Types
  <2> QED BY <2>1, Zenon DEF Field, IsDocument
<1> HIDE DEF x, y, z
<1>3. /\ xy \in {-1, 0, 1} /\ xy = -yx /\ yx \in {-1, 0, 1}
      /\ yz \in {-1, 0, 1} /\ yz = -zy /\ zy \in {-1, 0, 1}
      /\ xz \in {-1, 0, 1} /\ xz = -zx /\ zx \in {-1, 0, 1}
  BY <1>2, CompareValuesOrder
<1>4. /\ xy <= 0 /\ yz <= 0 => xz <= 0 /\ (xz = 0 => xy = 0 /\ yz = 0)
      /\ zy <= 0 /\ yx <= 0 => zx <= 0 /\ (zx = 0 => zy = 0 /\ yx = 0)
  BY <1>2, CompareValuesOrder
<1>5. /\ KeyOrder(a, b, sort, k) = s * xy /\ KeyOrder(b, a, sort, k) = s * yx
      /\ KeyOrder(b, c, sort, k) = s * yz /\ KeyOrder(a, c, sort, k) = s * xz
      /\ CompareValues(Field(a, k), Field(b, k)) = xy
  BY Zenon DEF KeyOrder, x, y, z
<1> HIDE DEF s, xy, yx, yz, zy, xz, zx
<1>6. CASE s = 1
  <2>1. s * xy = xy /\ s * yx = yx /\ s * yz = yz /\ s * xz = xz
    BY <1>3, <1>6
  <2> QED BY <1>3, <1>4, <1>5, <2>1
<1>7. CASE s = -1
  <2>1. s * xy = yx /\ s * yx = xy /\ s * yz = zy /\ s * xz = zx
    BY <1>3, <1>7
  <2> QED BY <1>3, <1>4, <1>5, <2>1
<1> QED BY <1>1, <1>6, <1>7

(* The comparison of documents, by the first field in which they differ.    *)
Agree(a, b, sort) == \A k \in Compared(sort) : KeyOrder(a, b, sort, k) = 0

DifferAt(a, b, sort, k) == /\ k \in Compared(sort) /\ KeyOrder(a, b, sort, k) # 0
                           /\ \A j \in Compared(sort) : j < k => KeyOrder(a, b, sort, j) = 0

LEMMA CompareDocsIs ==
    ASSUME NEW sort, IsSort(sort), NEW a, IsDocument(a), NEW b, IsDocument(b)
    PROVE  \/ Agree(a, b, sort) /\ CompareDocs(a, b, sort) = 0
           \/ \E k \in Compared(sort) :
                 DifferAt(a, b, sort, k) /\ CompareDocs(a, b, sort) = KeyOrder(a, b, sort, k)
<1> DEFINE differ == {k \in Compared(sort) : CompareValues(Field(a, k), Field(b, k)) # 0}
           k == Min(differ)
<1>1. \A j \in Compared(sort) :
        KeyOrder(a, b, sort, j) = 0 <=> CompareValues(Field(a, j), Field(b, j)) = 0
  BY KeyOrderFacts
<1>2. differ \subseteq Nat /\ Compared(sort) \subseteq Nat
  BY QueryAssumption, Zenon DEF Compared, IsSort
<1>3. CompareDocs(a, b, sort) = IF differ = {} THEN 0 ELSE KeyOrder(a, b, sort, k)
  BY Zenon DEF CompareDocs, KeyOrder
<1>4. CASE differ = {}
  BY <1>1, <1>3, <1>4 DEF Agree
<1>5. CASE differ # {}
  <2>1. k \in differ /\ \A y \in differ : k <= y
    BY <1>2, <1>5, MinOfNats
  <2> HIDE DEF k
  <2>2. DifferAt(a, b, sort, k)
    BY <1>1, <1>2, <2>1 DEF DifferAt
  <2> QED BY <1>3, <1>5, <2>1, <2>2
<1> QED BY <1>4, <1>5

LEMMA CompareDocsAntisymmetric ==
    ASSUME NEW sort, IsSort(sort), NEW a, IsDocument(a), NEW b, IsDocument(b)
    PROVE  CompareDocs(a, b, sort) = -CompareDocs(b, a, sort)
<1>1. \A k \in Compared(sort) : /\ KeyOrder(a, b, sort, k) \in {-1, 0, 1}
                                /\ KeyOrder(b, a, sort, k) \in {-1, 0, 1}
                                /\ KeyOrder(a, b, sort, k) = -KeyOrder(b, a, sort, k)
  BY KeyOrderFacts
<1>2. Compared(sort) \subseteq Nat
  BY QueryAssumption, Zenon DEF Compared, IsSort
<1>3. CASE Agree(a, b, sort)
  <2>1. Agree(b, a, sort)
    BY <1>1, <1>3 DEF Agree
  <2>2. CompareDocs(a, b, sort) = 0 /\ CompareDocs(b, a, sort) = 0
    BY <1>3, <2>1, CompareDocsIs DEF Agree, DifferAt
  <2> DEFINE x == CompareDocs(a, b, sort)
             y == CompareDocs(b, a, sort)
  <2> HIDE DEF x, y
  <2>3. x = 0 /\ y = 0
    BY <2>2 DEF x, y
  <2>4. x \in Int /\ y \in Int /\ x + y = 0
    BY <2>3
  <2>5. \A m, n \in Int : m + n = 0 => m = -n
    OBVIOUS
  <2>6. x = -y
    BY <2>4, <2>5, Zenon
  <2> QED BY <2>6 DEF x, y
<1>4. CASE ~Agree(a, b, sort)
  <2>1. ~Agree(b, a, sort)
    BY <1>1, <1>4 DEF Agree
  <2>2. PICK k \in Compared(sort) :
          DifferAt(a, b, sort, k) /\ CompareDocs(a, b, sort) = KeyOrder(a, b, sort, k)
    BY <1>4, CompareDocsIs
  <2>3. PICK m \in Compared(sort) :
          DifferAt(b, a, sort, m) /\ CompareDocs(b, a, sort) = KeyOrder(b, a, sort, m)
    BY <2>1, CompareDocsIs
  <2>4. k = m
    BY <1>1, <1>2, <2>2, <2>3 DEF DifferAt
  <2> QED BY <1>1, <2>2, <2>3, <2>4
<1> QED BY <1>3, <1>4

(* If a does not sort behind b, then in the first field where they could    *)
(* differ it does not either.                                               *)
LEMMA FirstField ==
    ASSUME NEW sort, IsSort(sort), NEW a, IsDocument(a), NEW b, IsDocument(b),
           CompareDocs(a, b, sort) <= 0, NEW j \in Compared(sort),
           \A h \in Compared(sort) : h < j => KeyOrder(a, b, sort, h) = 0
    PROVE  KeyOrder(a, b, sort, j) <= 0
<1>1. Compared(sort) \subseteq Nat
  BY QueryAssumption, Zenon DEF Compared, IsSort
<1>2. CASE Agree(a, b, sort)
  BY <1>2 DEF Agree
<1>3. ASSUME NEW k \in Compared(sort), DifferAt(a, b, sort, k),
             CompareDocs(a, b, sort) = KeyOrder(a, b, sort, k)
      PROVE  KeyOrder(a, b, sort, j) <= 0
  <2>1. k = j \/ j < k
    BY <1>1, <1>3 DEF DifferAt
  <2> QED BY <1>3, <2>1 DEF DifferAt
<1> QED BY <1>2, <1>3, CompareDocsIs

LEMMA CompareDocsTransitive ==
    ASSUME NEW sort, IsSort(sort), NEW a, IsDocument(a), NEW b, IsDocument(b), NEW c, IsDocument(c),
           CompareDocs(a, b, sort) <= 0, CompareDocs(b, c, sort) <= 0
    PROVE  CompareDocs(a, c, sort) <= 0
<1> DEFINE ab(k) == KeyOrder(a, b, sort, k)
           bc(k) == KeyOrder(b, c, sort, k)
           ac(k) == KeyOrder(a, c, sort, k)
           C == Compared(sort)
           differ == {k \in C : ab(k) # 0 \/ bc(k) # 0}
<1>1. C \subseteq Nat
  BY QueryAssumption, Zenon DEF Compared, IsSort
<1>2. \A k \in C : /\ ab(k) \in {-1, 0, 1} /\ bc(k) \in {-1, 0, 1} /\ ac(k) \in {-1, 0, 1}
                   /\ ab(k) <= 0 /\ bc(k) <= 0
                        => ac(k) <= 0 /\ (ac(k) = 0 => ab(k) = 0 /\ bc(k) = 0)
  BY KeyOrderFacts
<1>3. \A j \in C : (\A h \in C : h < j => ab(h) = 0) => ab(j) <= 0
  BY FirstField
<1>4. \A j \in C : (\A h \in C : h < j => bc(h) = 0) => bc(j) <= 0
  BY FirstField
<1>5. \/ CompareDocs(a, c, sort) = 0
      \/ \E k \in C : /\ ac(k) # 0 /\ (\A j \in C : j < k => ac(j) = 0)
                      /\ CompareDocs(a, c, sort) = ac(k)
  BY CompareDocsIs DEF DifferAt
<1> HIDE DEF ab, bc, ac, C
<1>6. ASSUME NEW k \in C, ac(k) # 0, \A j \in C : j < k => ac(j) = 0
      PROVE  ac(k) <= 0
  <2>1. CASE differ = {}
    <3>1. ab(k) = 0 /\ bc(k) = 0
      BY <2>1
    <3> QED BY <1>2, <3>1
  <2>2. CASE differ # {}
    <3>1. differ \subseteq Nat
      BY <1>1, Zenon
    <3>2. PICK p \in differ : \A y \in differ : p <= y
      BY <2>2, <3>1, MinOfNats, Zenon
    <3>3. p \in C /\ p \in Nat /\ (ab(p) # 0 \/ bc(p) # 0)
      BY <1>1
    <3>4. \A h \in C : h < p => ab(h) = 0 /\ bc(h) = 0
      BY <1>1, <3>2, <3>3
    <3>5. ac(p) <= 0 /\ ac(p) # 0
      BY <1>2, <1>3, <1>4, <3>3, <3>4
    <3>6. CASE p < k
      BY <1>6, <3>3, <3>5, <3>6
    <3>7. CASE p = k
      BY <3>5, <3>7
    <3>8. CASE k < p
      <4>1. ab(k) = 0 /\ bc(k) = 0
        BY <3>4, <3>8
      <4> QED BY <1>2, <4>1
    <3> QED BY <1>1, <3>3, <3>6, <3>7, <3>8
  <2> QED BY <2>1, <2>2
<1> QED BY <1>5, <1>6

-----------------------------------------------------------------------------
(* The operators follow the order of find.                                  *)
LEMMA OperatorsFollow ==
    ASSUME NEW v \in Value, NEW t \in Value
    PROVE  /\ Evaluate("$lt", v, t) => CompareValues(v, t) = -1
           /\ Evaluate("$gt", v, t) => CompareValues(v, t) = 1
           /\ Evaluate("$lte", v, t) => CompareValues(v, t) <= 0
           /\ Evaluate("$gte", v, t) => CompareValues(v, t) >= 0
<1>1. v.rank \in Int /\ t.rank \in Int
  BY DEF Value
<1> QED BY <1>1 DEF Evaluate, Ordered, CompareValues, Sign

(* A document that has been changed once is not changed any more.           *)
LEMMA UpdateTwice ==
    ASSUME NEW docs, NEW query, NEW change, NEW schema
    PROVE  Update(Update(docs, query, change, schema), query, change, schema)
             = Update(docs, query, change, schema)
<1>1. \A d : Merged(Merged(d, change), change) = Merged(d, change)
  BY DEF Merged
<1> DEFINE Step(d) == IF Updates(d, query, change, schema) THEN Merged(d, change) ELSE d
<1>2. \A d : Step(Step(d)) = Step(d)
  BY <1>1
<1>3. \A ds : Update(ds, query, change, schema) = [i \in DOMAIN ds |-> Step(ds[i])]
  BY DEF Update
<1> HIDE DEF Step
<1> QED BY <1>2, <1>3, SMTT(30)

-----------------------------------------------------------------------------
(* What a caller asks about does not change between its calls.              *)
AskInv == /\ \E c \in Collections : data = c.docs /\ primary = c.primary
          /\ ask \in [query : Selections, sort : SortOrders, limit : Limits]

LEMMA AskInvariant == PagingSpec => []AskInv
<1>1. PagingInit => AskInv
  BY Zenon DEF PagingInit, AskInv
<1>2. AskInv /\ [PagingNext]_pagingVars => AskInv'
  BY Zenon DEF AskInv, PagingNext, NextPage, pagingVars
<1> QED BY <1>1, <1>2, PTL DEF PagingSpec

(* What the assumptions say of it.                                          *)
LEMMA AskFacts ==
    ASSUME AskInv
    PROVE  /\ data \in Seq(Range(data)) /\ Len(data) < Int32
           /\ \A i \in DOMAIN data : IsDocument(data[i])
           /\ \A i \in DOMAIN data : data[i][IdKey].type = "string" => data[i][IdKey] = primary[i]
           /\ \A i, j \in DOMAIN data : primary[i] = primary[j] => i = j
           /\ IsSort(ask.sort) /\ ask.limit \in 1..(Int32 - 1)
<1>1. PICK c \in Collections : data = c.docs /\ primary = c.primary
  BY Zenon DEF AskInv
<1>2. WellKept(c) /\ Len(c.docs) < Int32
  BY PagingAssumption, Zenon
<1>3. ask.sort \in SortOrders /\ ask.limit \in Limits
  BY DEF AskInv
<1>4. IsSort(ask.sort) /\ ask.limit \in 1..(Int32 - 1)
  BY <1>3, PagingAssumption, Zenon DEF IsSort
<1> QED BY <1>1, <1>2, <1>4, Zenon DEF WellKept

(* The comparison that find sorts by is antisymmetric and transitive, and   *)
(* the operators $lt, $gt, $lte and $gte follow it.                         *)
THEOREM SortAlwaysConsistent == PagingSpec => []SortIsConsistent
<1>1. ASSUME AskInv PROVE SortIsOrder
  <2>1. IsSort(ask.sort)
    BY <1>1, AskFacts, Zenon
  <2>2. \A i \in DOMAIN data : IsDocument(data[i])
    BY <1>1, AskFacts, Zenon
  <2> QED BY <2>1, <2>2, CompareDocsAntisymmetric, CompareDocsTransitive DEF SortIsOrder
<1>2. ASSUME AskInv PROVE OperatorsFollowSort
  <2>1. \A i \in DOMAIN data : \A k \in DOMAIN data[i] : data[i][k] \in Value
    BY <1>2, AskFacts, Zenon DEF IsDocument
  <2> QED BY <2>1, OperatorsFollow DEF OperatorsFollowSort
<1>3. AskInv => SortIsConsistent
  BY <1>1, <1>2, Zenon DEF SortIsConsistent
<1> QED BY <1>3, AskInvariant, PTL

(* Repeating an update changes nothing.                                     *)
THEOREM UpdateAlwaysRepeats == PagingSpec => []UpdateRepeats
<1>1. UpdateRepeats
  BY UpdateTwice DEF UpdateRepeats
<1> QED BY <1>1, PTL

-----------------------------------------------------------------------------
(* One step of a filter: what is selected up to i, from what is selected up *)
(* to i - 1.                                                                *)
Selected(g, docs, places, i) == IF i = 0 THEN <<>>
                                ELSE IF i \in places THEN Append(g[i - 1], docs[i])
                                ELSE g[i - 1]

IsRun(g, docs, places) == g = [i \in 0..Len(docs) |-> Selected(g, docs, places, i)]

(* The function that Select defines by recursion exists.                    *)
LEMMA SelectedExists ==
    ASSUME NEW S, NEW docs \in Seq(S), NEW places
    PROVE  \E g : IsRun(g, docs, places)
<1> DEFINE m == Len(docs)
           Good(n) == \E g : g = [i \in 0..n |-> Selected(g, docs, places, i)]
           G == {n \in Nat : Good(n)}
<1>0. m \in Nat
  OBVIOUS
<1> HIDE DEF m
<1>1. Good(0)
  <2> DEFINE g == [i \in 0..0 |-> <<>>]
  <2>1. g = [i \in 0..0 |-> Selected(g, docs, places, i)]
    BY DEF Selected
  <2> QED BY <2>1
<1>2. ASSUME NEW n \in Nat, Good(n) PROVE Good(n + 1)
  <2>1. PICK g : g = [i \in 0..n |-> Selected(g, docs, places, i)]
    BY <1>2
  <2> DEFINE h == [i \in 0..(n + 1) |-> IF i = n + 1 THEN Selected(g, docs, places, i) ELSE g[i]]
  <2>2. \A i \in 0..(n + 1) : h[i] = Selected(h, docs, places, i)
    <3>1. \A i \in 0..n : h[i] = g[i]
      OBVIOUS
    <3>2. \A i \in 0..n : g[i] = Selected(g, docs, places, i)
      BY <2>1
    <3>3. \A i \in 0..(n + 1) : Selected(h, docs, places, i) = Selected(g, docs, places, i)
      BY <3>1 DEF Selected
    <3>4. h[n + 1] = Selected(g, docs, places, n + 1)
      OBVIOUS
    <3> HIDE DEF h
    <3> QED BY <3>1, <3>2, <3>3, <3>4
  <2>3. h = [i \in 0..(n + 1) |-> Selected(h, docs, places, i)]
    BY <2>2
  <2> QED BY <2>3, Zenon
<1> HIDE DEF Good
<1>3. 0 \in G /\ \A n \in 0..(m - 1) : n \in G => n + 1 \in G
  BY <1>1, <1>2
<1> HIDE DEF G
<1>4. m \in G
  <2>1. m \in 0..m
    BY <1>0
  <2> QED BY <1>0, <1>3, <2>1, Upward, Zenon
<1> QED BY <1>4, Zenon DEF Good, G, m, IsRun

(* Select, step by step.                                                    *)
Steps(u, docs, places) ==
    /\ u[0] = <<>>
    /\ \A n \in 0..(Len(docs) - 1) :
          u[n + 1] = IF n + 1 \in places THEN Append(u[n], docs[n + 1]) ELSE u[n]

LEMMA SelectSteps ==
    ASSUME NEW S, NEW docs \in Seq(S), NEW places
    PROVE  \E u : Steps(u, docs, places) /\ Select(docs, places) = u[Len(docs)]
<1> DEFINE u == CHOOSE g : IsRun(g, docs, places)
<1>1. Len(docs) \in Nat
  OBVIOUS
<1>2. IsRun(u, docs, places)
  <2>1. \E g : IsRun(g, docs, places)
    BY SelectedExists, Zenon
  <2> QED BY <2>1, Zenon
<1>3. Select(docs, places) = u[Len(docs)]
  BY Zenon DEF Select, Selected, IsRun
<1> HIDE DEF u
<1>4. \A n \in 0..Len(docs) : u[n] = Selected(u, docs, places, n)
  BY <1>2 DEF IsRun
<1>5. Steps(u, docs, places)
  BY <1>1, <1>4 DEF Steps, Selected
<1> QED BY <1>3, <1>5, Zenon

(* What a filter selects: documents of the collection, in their order, and  *)
(* all those at the places it lets through.                                 *)
IsSelection(t, S, docs, places) ==
    /\ t \in Seq(S) /\ Len(t) <= Len(docs)
    /\ \A i, j \in 1..Len(t) : i < j =>
          \E a, b \in 1..Len(docs) : a < b /\ t[i] = docs[a] /\ t[j] = docs[b]
    /\ \A x : (\E i \in 1..Len(t) : t[i] = x) <=> \E i \in 1..Len(docs) : i \in places /\ docs[i] = x

LEMMA SelectFacts ==
    ASSUME NEW S, NEW docs \in Seq(S), NEW places
    PROVE  IsSelection(Select(docs, places), S, docs, places)
<1>1. PICK u : Steps(u, docs, places) /\ Select(docs, places) = u[Len(docs)]
  BY SelectSteps, Zenon
<1> DEFINE Has(t, x) == \E i \in 1..Len(t) : t[i] = x
           Facts(t, n) == /\ t \in Seq(S) /\ Len(t) <= n
                          /\ \A i, j \in 1..Len(t) : i < j =>
                                \E a, b \in 1..n : a < b /\ t[i] = docs[a] /\ t[j] = docs[b]
                          /\ \A x : Has(t, x) <=> \E i \in 1..n : i \in places /\ docs[i] = x
           Good(n) == Facts(u[n], n)
           G == {n \in 0..Len(docs) : Good(n)}
<1>2. Good(0)
  BY <1>1 DEF Steps
<1>3. ASSUME NEW n \in 0..(Len(docs) - 1), Good(n) PROVE Good(n + 1)
  <2>1. CASE n + 1 \notin places
    <3>1. u[n + 1] = u[n]
      BY <1>1, <2>1 DEF Steps
    <3>2. \A i \in 1..n : i \in 1..(n + 1)
      OBVIOUS
    <3>4. \A x : (\E i \in 1..n : i \in places /\ docs[i] = x)
                   <=> \E i \in 1..(n + 1) : i \in places /\ docs[i] = x
      BY <2>1
    <3> DEFINE t == u[n]
    <3>3. Facts(t, n) /\ n \in Nat /\ Len(t) \in Nat
      BY <1>3
    <3>5. Len(t) <= n + 1
      BY <3>3
    <3> HIDE DEF t
    <3>6. \A i, j \in 1..Len(t) : i < j =>
            \E a, b \in 1..(n + 1) : a < b /\ t[i] = docs[a] /\ t[j] = docs[b]
      <4> SUFFICES ASSUME NEW i \in 1..Len(t), NEW j \in 1..Len(t), i < j
                   PROVE  \E a, b \in 1..(n + 1) : a < b /\ t[i] = docs[a] /\ t[j] = docs[b]
        OBVIOUS
      <4>1. PICK a \in 1..n, b \in 1..n : a < b /\ t[i] = docs[a] /\ t[j] = docs[b]
        BY <3>3
      <4> QED BY <3>2, <4>1
    <3>7. Facts(t, n + 1)
      BY <3>3, <3>4, <3>5, <3>6, Zenon
    <3> HIDE DEF Facts
    <3> QED BY <3>1, <3>7, Zenon DEF t
  <2>2. CASE n + 1 \in places
    <3> DEFINE t == u[n]
               y == docs[n + 1]
               v == u[n + 1]
    <3>1. v = Append(t, y)
      BY <1>1, <2>2, Zenon DEF Steps
    <3>2. t \in Seq(S) /\ Len(t) <= n /\ y \in S /\ n \in Nat
      BY <1>3
    <3> HIDE DEF t, y, v
    <3>3. /\ v \in Seq(S) /\ Len(v) = Len(t) + 1 /\ Len(t) \in Nat
          /\ v[Len(t) + 1] = y
          /\ \A i \in 1..Len(t) : v[i] = t[i]
      BY <3>1, <3>2
    <3>4. \A i \in 1..Len(t) : \E a \in 1..n : t[i] = docs[a]
      BY <1>3, Zenon DEF t
    <3>5. \A i, j \in 1..Len(v) : i < j =>
            \E a, b \in 1..(n + 1) : a < b /\ v[i] = docs[a] /\ v[j] = docs[b]
      <4> SUFFICES ASSUME NEW i \in 1..Len(v), NEW j \in 1..Len(v), i < j
                   PROVE  \E a, b \in 1..(n + 1) : a < b /\ v[i] = docs[a] /\ v[j] = docs[b]
        OBVIOUS
      <4>1. CASE j = Len(t) + 1
        <5>1. PICK a \in 1..n : t[i] = docs[a]
          BY <3>3, <3>4, <4>1
        <5>2. v[i] = docs[a] /\ v[j] = docs[n + 1]
          <6>1. i \in 1..Len(t)
            BY <3>3, <4>1
          <6> QED BY <3>3, <4>1, <5>1, <6>1, Zenon DEF y
        <5>3. a < n + 1 /\ n + 1 \in 1..(n + 1) /\ a \in 1..(n + 1)
          BY <3>2
        <5> QED BY <5>2, <5>3, Zenon
      <4>2. CASE j # Len(t) + 1
        <5>1. i \in 1..Len(t) /\ j \in 1..Len(t)
          BY <3>3, <4>2
        <5>2. PICK a \in 1..n, b \in 1..n : a < b /\ t[i] = docs[a] /\ t[j] = docs[b]
          BY <1>3, <5>1 DEF t
        <5>3. a \in 1..(n + 1) /\ b \in 1..(n + 1) /\ v[i] = docs[a] /\ v[j] = docs[b]
          BY <3>2, <3>3, <5>1, <5>2
        <5> QED BY <5>2, <5>3, Zenon
      <4> QED BY <4>1, <4>2
    <3>6. \A x : Has(v, x) <=> \E i \in 1..(n + 1) : i \in places /\ docs[i] = x
      <4>1. \A x : Has(v, x) <=> Has(t, x) \/ x = y
        BY <3>3
      <4>2. \A x : Has(t, x) <=> \E i \in 1..n : i \in places /\ docs[i] = x
        BY <1>3, Zenon DEF t
      <4>3. 1..(n + 1) = (1..n) \cup {n + 1}
        BY <3>2
      <4> QED BY <2>2, <4>1, <4>2, <4>3, Zenon DEF y
    <3> QED BY <3>2, <3>3, <3>5, <3>6 DEF v
  <2> QED BY <2>1, <2>2
<1> HIDE DEF Facts
<1>4. 0 \in G /\ \A n \in 0..(Len(docs) - 1) : n \in G => n + 1 \in G
  BY <1>2, <1>3
<1> HIDE DEF G
<1>5. Len(docs) \in G
  <2>1. Len(docs) \in Nat /\ Len(docs) \in 0..Len(docs)
    OBVIOUS
  <2> QED BY <1>4, <2>1, Upward, Zenon
<1>6. Good(Len(docs))
  BY <1>5, Zenon DEF G
<1>7. Facts(Select(docs, places), Len(docs))
  BY <1>1, <1>6, Zenon
<1> QED BY <1>7, Zenon DEF Facts, IsSelection

(* A number that fits passes through a c_int unchanged.                     *)
LEMMA CIntKeeps ==
    ASSUME NEW n \in 0..(Int32 - 1)
    PROVE  CInt(n) = n /\ Max({0, CInt(n)}) = n
<1> DEFINE a == n + Int32
           b == 2 * Int32
<1>1. a \in Nat /\ b \in Nat /\ a < b /\ n = a - Int32
  BY QueryAssumption
<1>2. CInt(n) = (a % b) - Int32
  BY DEF CInt
<1> HIDE DEF a, b
<1>3. a % b = a
  BY <1>1
<1>4. CInt(n) = n
  BY <1>1, <1>2, <1>3
<1>5. n \in Nat /\ n \in {0, n} /\ \A y \in {0, n} : n >= y
  OBVIOUS
<1>6. \A x \in {0, n} : (\A y \in {0, n} : x >= y) => x = n
  BY <1>5
<1>7. Max({0, n}) = n
  BY <1>5, <1>6, Zenon DEF Max
<1> QED BY <1>4, <1>7, Zenon

(* A sort rearranges the documents.                                         *)
IsSorting(s, S, docs) ==
    /\ s \in Seq(S) /\ Len(s) = Len(docs) /\ DOMAIN s = DOMAIN docs
    /\ \E p \in [DOMAIN docs -> DOMAIN docs] :
          /\ \A i \in DOMAIN docs : s[i] = docs[p[i]]
          /\ \A i, j \in DOMAIN docs : p[i] = p[j] => i = j
          /\ \A i \in DOMAIN docs : \E j \in DOMAIN docs : p[j] = i

LEMMA SortingsFacts ==
    ASSUME NEW S, NEW docs \in Seq(S), NEW sort, NEW s \in Sortings(docs, sort)
    PROVE  IsSorting(s, S, docs)
<1> DEFINE D == DOMAIN docs
<1>1. CASE DOMAIN sort = {}
  <2>1. s = docs
    BY <1>1 DEF Sortings
  <2> DEFINE p == [i \in D |-> i]
  <2>2. /\ p \in [D -> D]
        /\ \A i \in D : s[i] = docs[p[i]]
        /\ \A i, j \in D : p[i] = p[j] => i = j
        /\ \A i \in D : \E j \in D : p[j] = i
    BY <2>1
  <2> HIDE DEF p
  <2> QED BY <2>1, <2>2, Zenon DEF IsSorting
<1>2. CASE DOMAIN sort # {}
  <2>1. PICK p \in Bijection(D, D) : s = [i \in D |-> docs[p[i]]]
    BY <1>2 DEF Sortings
  <2>2. /\ p \in [D -> D]
        /\ \A i, j \in D : p[i] = p[j] => i = j
        /\ \A i \in D : \E j \in D : p[j] = i
    BY Zenon DEF Bijection, Injection, Surjection, IsInjective
  <2>3. D = 1..Len(docs) /\ Len(docs) \in Nat /\ \A i \in D : docs[i] \in S
    OBVIOUS
  <2> HIDE DEF D
  <2>4. s \in Seq(S) /\ Len(s) = Len(docs) /\ DOMAIN s = D /\ \A i \in D : s[i] = docs[p[i]]
    <3>1. s \in [1..Len(docs) -> S]
      BY <2>1, <2>2, <2>3, Zenon
    <3>2. s \in Seq(S) /\ Len(s) = Len(docs) /\ DOMAIN s = 1..Len(docs)
      BY <2>3, <3>1
    <3>3. \A i \in D : s[i] = docs[p[i]]
      BY <2>1, Zenon
    <3> QED BY <2>3, <3>2, <3>3, Zenon
  <2> QED BY <2>2, <2>4, Zenon DEF D, IsSorting
<1> QED BY <1>1, <1>2

(* Without limit, skip and projection, find returns all that matches.       *)
LEMMA FindAll ==
    ASSUME NEW S, NEW docs \in Seq(S), NEW query, NEW sort
    PROVE  RustFind(docs, query, sort, <<>>, 0, 0) = Sortings(Matching(docs, query), sort)
<1> DEFINE all == Sortings(Matching(docs, query), sort)
<1>1. Matching(docs, query) \in Seq(S)
  BY SelectFacts, Zenon DEF Matching, IsSelection
<1>2. \A s \in all : s \in Seq(S)
  BY <1>1, SortingsFacts, Zenon DEF IsSorting
<1> HIDE DEF all
<1>3. ASSUME NEW s \in all
      PROVE  [i \in DOMAIN Page(s, 0, 0) |-> ApplyProjection(Page(s, 0, 0)[i], <<>>)] = s
  <2>1. s \in Seq(S)
    BY <1>2
  <2>2. Page(s, 0, 0) = s
    BY <2>1 DEF Page
  <2>3. \A d : ApplyProjection(d, <<>>) = d
    BY DEF ApplyProjection
  <2> QED BY <2>1, <2>2, <2>3
<1>4. 0 \in 0..(Int32 - 1)
  BY QueryAssumption
<1>5. Max({0, CInt(0)}) = 0
  BY <1>4, CIntKeeps, Zenon
<1>6. RustFind(docs, query, sort, <<>>, 0, 0)
        = {[i \in DOMAIN Page(s, 0, 0) |-> ApplyProjection(Page(s, 0, 0)[i], <<>>)] : s \in all}
  BY <1>5, Zenon DEF RustFind, Find, all
<1> QED BY <1>3, <1>6, ZenonT(40) DEF all

(* Core::find without limit, skip and projection, by _id or not: the        *)
(* documents that match, each once.                                         *)
IsResult(found, S, docs, query) ==
    /\ found \in Seq(S) /\ Len(found) = CoreCount(docs, query)
    /\ \A x : (\E i \in DOMAIN found : found[i] = x)
                <=> \E i \in MatchingPlaces(docs, query) : docs[i] = x

LEMMA CoreFindAll ==
    ASSUME NEW S, NEW docs \in Seq(S), NEW query, NEW sort,
           \A i \in DOMAIN docs : IdKey \in DOMAIN docs[i], NEW keys,
           ById(query) => \A i \in DOMAIN docs : keys[i] = query[IdKey].value
                                                    <=> docs[i][IdKey] = query[IdKey].value,
           NEW found \in CoreFind(docs, keys, query, sort, <<>>, 0, 0)
    PROVE  IsResult(found, S, docs, query)
<1> DEFINE all == Matching(docs, query)
           Has(t, x) == \E i \in DOMAIN t : t[i] = x
<1>0. IsSelection(all, S, docs, MatchingPlaces(docs, query))
  BY SelectFacts, Zenon DEF Matching
<1>1. all \in Seq(S) /\ CoreCount(docs, query) = Len(all)
  BY <1>0, Zenon DEF CoreCount, Count, IsSelection
<1>2. \A x : Has(all, x) <=> \E i \in MatchingPlaces(docs, query) : docs[i] = x
  <2>1. \A x : (\E i \in 1..Len(all) : all[i] = x)
                 <=> \E i \in 1..Len(docs) : i \in MatchingPlaces(docs, query) /\ docs[i] = x
    BY <1>0, Zenon DEF IsSelection
  <2>2. DOMAIN all = 1..Len(all) /\ DOMAIN docs = 1..Len(docs)
    BY <1>1
  <2>3. MatchingPlaces(docs, query) \subseteq 1..Len(docs)
    BY <2>2, Zenon DEF MatchingPlaces
  <2> QED BY <2>1, <2>2, <2>3, Zenon
<1>3. CASE ById(query)
  <2>1. \A i \in DOMAIN docs : MatchesQuery(docs[i], query) <=> docs[i][IdKey] = query[IdKey].value
    BY <1>3, Zenon DEF ById, MatchesQuery
  <2>2. {i \in DOMAIN docs : keys[i] = query[IdKey].value} = MatchingPlaces(docs, query)
    BY <1>3, <2>1, Zenon DEF MatchingPlaces
  <2>3. found = all
    BY <1>3, <2>2, Zenon DEF CoreFind, GetDocumentById, Matching
  <2> QED BY <1>1, <1>2, <2>3, Zenon DEF IsResult
<1>4. CASE ~ById(query)
  <2>1. found \in Sortings(all, sort)
    BY <1>4, FindAll, Zenon DEF CoreFind
  <2> HIDE DEF all
  <2>2. IsSorting(found, S, all)
    BY <1>1, <2>1, SortingsFacts, Zenon
  <2>3. \A x : Has(found, x) <=> Has(all, x)
    <3>1. PICK p \in [DOMAIN all -> DOMAIN all] :
             /\ \A i \in DOMAIN all : found[i] = all[p[i]]
             /\ \A i \in DOMAIN all : \E j \in DOMAIN all : p[j] = i
      BY <2>2, Zenon DEF IsSorting
    <3>2. DOMAIN found = DOMAIN all /\ \A i \in DOMAIN all : p[i] \in DOMAIN all
      BY <2>2, Zenon DEF IsSorting
    <3>3. \A i \in DOMAIN found : Has(all, found[i])
      BY <3>1, <3>2, Zenon
    <3>4. ASSUME NEW i \in DOMAIN all PROVE Has(found, all[i])
      <4>1. PICK j \in DOMAIN all : p[j] = i
        BY <3>1, Zenon
      <4>2. found[j] = all[i] /\ j \in DOMAIN found
        BY <3>1, <3>2, <4>1, Zenon
      <4> QED BY <4>2, Zenon
    <3> QED BY <3>3, <3>4, Zenon
  <2> QED BY <1>1, <1>2, <2>2, <2>3, Zenon DEF IsSorting, IsResult
<1> QED BY <1>3, <1>4

(* find, count and remove agree on what a query selects.                    *)
THEOREM SelectionsAlwaysAgree == PagingSpec => []SelectionsAgree
<1>1. ASSUME AskInv PROVE SelectionsAgree
  <2> DEFINE S == Range(data)
             q == ask.query
             places == MatchingPlaces(data, q)
             ids == IdsToRemove(data, q)
  <2>1. /\ data \in Seq(S)
        /\ \A i \in DOMAIN data : data[i][IdKey].type = "string" => data[i][IdKey] = primary[i]
        /\ \A i, j \in DOMAIN data : primary[i] = primary[j] => i = j
    BY <1>1, AskFacts, Zenon
  <2>2. \A i \in DOMAIN data : IdKey \in DOMAIN data[i]
    BY <1>1, AskFacts, Zenon DEF IsDocument
  <2>3. ASSUME ById(q) => \A i \in Rekeyed : primary[i] # q[IdKey].value,
               NEW found \in CoreFind(data, primary, q, ask.sort, <<>>, 0, 0)
        PROVE  Len(found) = CoreCount(data, q) /\ Range(found) = {data[i] : i \in places}
    <3>1. ASSUME ById(q), NEW i \in DOMAIN data
          PROVE  primary[i] = q[IdKey].value <=> data[i][IdKey] = q[IdKey].value
      <4>1. q[IdKey].value.type = "string"
        BY <3>1, Zenon DEF ById
      <4>2. CASE data[i][IdKey].type = "string"
        BY <2>1, <4>2, Zenon
      <4>3. CASE data[i][IdKey].type # "string"
        BY <2>3, <3>1, <4>1, <4>3, Zenon DEF Rekeyed
      <4> QED BY <4>2, <4>3, Zenon
    <3>2. IsResult(found, S, data, q)
      BY <2>1, <2>2, <2>3, <3>1, CoreFindAll, Zenon
    <3>3. \A x : (\E i \in DOMAIN found : found[i] = x) <=> \E i \in places : data[i] = x
      BY <3>2, Zenon DEF IsResult
    <3> HIDE DEF q, places
    <3>4. Range(found) = {data[i] : i \in places}
      BY <3>3, Zenon DEF Range
    <3> QED BY <3>2, <3>4, Zenon DEF IsResult
  <2>4. {i \in DOMAIN data : primary[i] \notin ids} = Rekeyed \cup (DOMAIN data \ places)
    <3>1. \A i \in places : i \in DOMAIN data
      BY Zenon DEF MatchingPlaces
    <3>2. \A x : x \in ids <=> x.type = "string" /\ \E i \in places : data[i][IdKey] = x
      BY Zenon DEF IdsToRemove
    <3> HIDE DEF ids, places
    <3>3. ASSUME NEW i \in DOMAIN data, primary[i] \in ids
          PROVE  i \in places /\ data[i][IdKey].type = "string"
      <4>1. PICK m \in places : data[m][IdKey] = primary[i] /\ primary[i].type = "string"
        BY <3>2, <3>3, Zenon
      <4>2. m \in DOMAIN data /\ primary[m] = primary[i]
        BY <2>1, <3>1, <4>1, Zenon
      <4>3. m = i
        BY <2>1, <3>3, <4>2, Zenon
      <4> QED BY <4>1, <4>3, Zenon
    <3>4. ASSUME NEW i \in places, data[i][IdKey].type = "string" PROVE primary[i] \in ids
      BY <2>1, <3>1, <3>2, <3>4, Zenon
    <3> QED BY <3>3, <3>4, ZenonT(40) DEF Rekeyed
  <2>5. CoreRemove(data, primary, q) = Select(data, Rekeyed \cup (DOMAIN data \ places))
    BY <2>4, Zenon DEF CoreRemove
  <2> QED BY <2>3, <2>5, Zenon DEF SelectionsAgree
<1> QED BY <1>1, AskInvariant, PTL

(* A projection keeps _id unless it is switched off.                        *)
THEOREM ProjectionAlwaysKeepsId == PagingSpec => []ProjectionKeepsId
<1>1. ASSUME AskInv PROVE ProjectionKeepsId
  <2>1. \A i \in DOMAIN data : IdKey \in DOMAIN data[i]
    BY <1>1, AskFacts, Zenon DEF IsDocument
  <2>2. ASSUME NEW i \in DOMAIN data, NEW p \in Projections
        PROVE  LET doc == ApplyProjection(data[i], p)
               IN  /\ IdKey \in DOMAIN doc <=> ~(IdKey \in DOMAIN p /\ p[IdKey] = "off")
                   /\ \A k \in DOMAIN doc : k \in DOMAIN data[i] /\ doc[k] = data[i][k]
    BY <2>1 DEF ApplyProjection
  <2> QED BY <2>2 DEF ProjectionKeepsId
<1> QED BY <1>1, AskInvariant, PTL

(* Documents with different _ids are never equal under a sort on _id.       *)
LEMMA IdDecides ==
    ASSUME NEW sort, IsSort(sort), IdKey \in Compared(sort),
           NEW a, IsDocument(a), NEW b, IsDocument(b), CompareValues(a[IdKey], b[IdKey]) # 0
    PROVE  CompareDocs(a, b, sort) \in {-1, 1}
<1>1. Field(a, IdKey) = a[IdKey] /\ Field(b, IdKey) = b[IdKey]
  BY Zenon DEF Field, IsDocument
<1>2. \A k \in Compared(sort) : /\ KeyOrder(a, b, sort, k) \in {-1, 0, 1}
                                /\ KeyOrder(a, b, sort, k) = 0
                                      <=> CompareValues(Field(a, k), Field(b, k)) = 0
  BY KeyOrderFacts
<1>3. ~Agree(a, b, sort)
  BY <1>1, <1>2, Zenon DEF Agree
<1>4. PICK k \in Compared(sort) :
         DifferAt(a, b, sort, k) /\ CompareDocs(a, b, sort) = KeyOrder(a, b, sort, k)
  BY <1>3, CompareDocsIs, Zenon
<1> QED BY <1>2, <1>4 DEF DifferAt

(* The documents of a collection that find can sort: each with its own _id. *)
Distinct(docs) ==
    /\ \A i \in DOMAIN docs : IsDocument(docs[i])
    /\ \A i, j \in DOMAIN docs : i # j => CompareValues(docs[i][IdKey], docs[j][IdKey]) # 0

(* Sorted on _id, each document comes strictly before the next.             *)
LEMMA SortedStrictly ==
    ASSUME NEW S, NEW docs \in Seq(S), Distinct(docs),
           NEW sort, IsSort(sort), IdKey \in Compared(sort), NEW s \in Sortings(docs, sort)
    PROVE  \A i, j \in DOMAIN docs : i < j => CompareDocs(s[i], s[j], sort) = -1
<1> SUFFICES ASSUME NEW i \in DOMAIN docs, NEW j \in DOMAIN docs, i < j
             PROVE  CompareDocs(s[i], s[j], sort) = -1
  OBVIOUS
<1>1. PICK p \in [DOMAIN docs -> DOMAIN docs] :
         /\ \A k \in DOMAIN docs : s[k] = docs[p[k]]
         /\ \A k, l \in DOMAIN docs : p[k] = p[l] => k = l
  <2>1. IsSorting(s, S, docs)
    BY SortingsFacts, Zenon
  <2> QED BY <2>1, Zenon DEF IsSorting
<1>2. i # j
  OBVIOUS
<1>3. /\ p[i] \in DOMAIN docs /\ p[j] \in DOMAIN docs /\ p[i] # p[j]
      /\ s[i] = docs[p[i]] /\ s[j] = docs[p[j]]
  BY <1>1, <1>2, Zenon
<1>4. /\ IsDocument(s[i]) /\ IsDocument(s[j])
      /\ CompareValues(s[i][IdKey], s[j][IdKey]) # 0
  BY <1>3, Zenon DEF Distinct
<1>5. CompareDocs(s[i], s[j], sort) \in {-1, 1}
  BY <1>4, IdDecides, Zenon
<1>6. DOMAIN sort # {}
  BY Zenon DEF Compared
<1>7. CompareDocs(s[i], s[j], sort) <= 0
  BY <1>6, Zenon DEF Sortings
<1> QED BY <1>5, <1>7

(* A sort on _id leaves one order only: at the first difference of two, the *)
(* document of each would come strictly before that of the other.           *)
LEMMA OneOrder ==
    ASSUME NEW S, NEW docs \in Seq(S), NEW sort, IsSort(sort),
           DOMAIN sort = {} \/ (IdKey \in Compared(sort) /\ Distinct(docs)),
           NEW s \in Sortings(docs, sort), NEW t \in Sortings(docs, sort)
    PROVE  s = t
<1>1. CASE DOMAIN sort = {}
  BY <1>1, Zenon DEF Sortings
<1>2. CASE IdKey \in Compared(sort) /\ Distinct(docs)
  <2> DEFINE D == DOMAIN docs
             bad == {i \in D : s[i] # t[i]}
  <2>1. D \subseteq Nat /\ \A i \in D : docs[i] \in S
    OBVIOUS
  <2>2. IsSorting(s, S, docs) /\ IsSorting(t, S, docs)
    BY SortingsFacts, Zenon
  <2>3. /\ \A i, j \in D : i < j => CompareDocs(s[i], s[j], sort) = -1
        /\ \A i, j \in D : i < j => CompareDocs(t[i], t[j], sort) = -1
    BY <1>2, SortedStrictly, Zenon
  <2>4. /\ \A i \in D : IsDocument(s[i]) /\ \E j \in D : t[j] = s[i]
        /\ \A i \in D : IsDocument(t[i]) /\ \E j \in D : s[j] = t[i]
    <3>1. PICK p \in [D -> D] : /\ \A i \in D : s[i] = docs[p[i]]
                                /\ \A i \in D : \E j \in D : p[j] = i
      BY <2>2, Zenon DEF IsSorting
    <3>2. PICK q \in [D -> D] : /\ \A i \in D : t[i] = docs[q[i]]
                                /\ \A i \in D : \E j \in D : q[j] = i
      BY <2>2, Zenon DEF IsSorting
    <3>3. \A i \in D : p[i] \in D /\ q[i] \in D
      BY Zenon
    <3> HIDE DEF D
    <3>4. ASSUME NEW i \in D PROVE \E j \in D : t[j] = s[i]
      <4>1. PICK j \in D : q[j] = p[i]
        BY <3>2, <3>3, Zenon
      <4>2. t[j] = docs[q[j]] /\ s[i] = docs[p[i]]
        BY <3>1, <3>2, Zenon
      <4> QED BY <4>1, <4>2
    <3>5. ASSUME NEW i \in D PROVE \E j \in D : s[j] = t[i]
      <4>1. PICK j \in D : p[j] = q[i]
        BY <3>1, <3>3, Zenon
      <4>2. s[j] = docs[p[j]] /\ t[i] = docs[q[i]]
        BY <3>1, <3>2, Zenon
      <4> QED BY <4>1, <4>2
    <3>6. \A i \in D : IsDocument(s[i]) /\ IsDocument(t[i])
      BY <1>2, <3>1, <3>2, <3>3, Zenon DEF Distinct, D
    <3> QED BY <3>4, <3>5, <3>6, Zenon
  <2>5. \A a, b : IsDocument(a) /\ IsDocument(b)
                     => CompareDocs(a, b, sort) = -CompareDocs(b, a, sort)
    BY CompareDocsAntisymmetric, Zenon
  <2> HIDE DEF D
  <2>6. bad = {}
    <3> SUFFICES ASSUME bad # {} PROVE FALSE
      OBVIOUS
    <3>1. PICK i \in bad : \A j \in bad : i <= j
      BY <2>1, MinOfNats, Zenon
    <3>2. i \in D /\ i \in Nat /\ s[i] # t[i] /\ \A j \in D : j < i => s[j] = t[j]
      BY <2>1, <3>1
    <3>3. ASSUME NEW j \in D, j < i PROVE s[j] # t[i] /\ t[j] # s[i]
      <4>1. s[j] = t[j] /\ CompareDocs(s[j], s[i], sort) = -1 /\ CompareDocs(t[j], t[i], sort) = -1
        BY <2>3, <3>2, <3>3
      <4>2. \A a : IsDocument(a) => CompareDocs(a, a, sort) # -1
        BY <2>5
      <4> QED BY <2>4, <3>2, <4>1, <4>2, Zenon
    <3>4. PICK j \in D : t[j] = s[i]
      BY <2>4, <3>2, Zenon
    <3>5. PICK k \in D : s[k] = t[i]
      BY <2>4, <3>2, Zenon
    <3>6. j > i /\ k > i
      BY <2>1, <3>2, <3>3, <3>4, <3>5
    <3>7. CompareDocs(t[i], s[i], sort) = -1 /\ CompareDocs(s[i], t[i], sort) = -1
      BY <2>3, <3>2, <3>4, <3>5, <3>6
    <3> QED BY <2>4, <2>5, <3>2, <3>7
  <2>7. DOMAIN s = D /\ DOMAIN t = D /\ s \in Seq(S) /\ t \in Seq(S)
    BY <2>2, Zenon DEF IsSorting, D
  <2> QED BY <2>6, <2>7
<1> QED BY <1>1, <1>2

-----------------------------------------------------------------------------
LEMMA Concatenated ==
    ASSUME NEW S, NEW l \in Seq(S), NEW r \in Seq(S)
    PROVE  /\ l \o r \in Seq(S) /\ Len(l \o r) = Len(l) + Len(r)
           /\ \A i \in 1..(Len(l) + Len(r)) : (l \o r)[i] = IF i <= Len(l) THEN l[i] ELSE r[i - Len(l)]
OBVIOUS

LEMMA Joined ==
    ASSUME NEW S, NEW s \in Seq(S), NEW a \in Nat, NEW b \in Nat, a <= b, b <= Len(s)
    PROVE  SubSeq(s, 1, a) \o SubSeq(s, a + 1, b) = SubSeq(s, 1, b)
<1> DEFINE l == SubSeq(s, 1, a)
           r == SubSeq(s, a + 1, b)
           w == SubSeq(s, 1, b)
<1>1. l \in Seq(S) /\ Len(l) = a /\ \A i \in 1..a : l[i] = s[i]
  OBVIOUS
<1>2. r \in Seq(S) /\ Len(r) = b - a /\ \A i \in 1..(b - a) : r[i] = s[a + i]
  OBVIOUS
<1>3. w \in Seq(S) /\ Len(w) = b /\ \A i \in 1..b : w[i] = s[i]
  OBVIOUS
<1> HIDE DEF l, r, w
<1>4. /\ l \o r \in Seq(S) /\ Len(l \o r) = Len(l) + Len(r)
      /\ \A i \in 1..(Len(l) + Len(r)) : (l \o r)[i] = IF i <= Len(l) THEN l[i] ELSE r[i - Len(l)]
  BY <1>1, <1>2, Concatenated, ZenonT(40)
<1>5. PICK c \in Seq(S) : /\ c = l \o r /\ Len(c) = Len(l) + Len(r)
                          /\ \A i \in 1..(Len(l) + Len(r)) : c[i] = IF i <= Len(l) THEN l[i] ELSE r[i - Len(l)]
  BY <1>4, Zenon
<1>6. Len(c) = b /\ \A i \in 1..b : c[i] = IF i <= a THEN l[i] ELSE r[i - a]
  BY <1>1, <1>2, <1>5, SMTT(30)
<1>7. ASSUME NEW i \in 1..b PROVE c[i] = w[i]
  <2>1. CASE i <= a
    BY <1>1, <1>3, <1>6, <2>1
  <2>2. CASE i > a
    <3>1. i - a \in 1..(b - a) /\ a + (i - a) = i
      BY <2>2
    <3>2. c[i] = r[i - a]
      BY <1>6, <2>2
    <3>3. r[i - a] = s[i] /\ w[i] = s[i]
      BY <1>2, <1>3, <3>1
    <3> QED BY <3>2, <3>3, Zenon
  <2> QED BY <2>1, <2>2
<1>8. c = w
  BY <1>3, <1>6, <1>7
<1> QED BY <1>5, <1>8, Zenon DEF l, r, w

(* What has been read of s when skip documents of it are passed.            *)
Beginning(s, n) == IF n <= Len(s) THEN SubSeq(s, 1, n) ELSE s

(* A page continues what has been read; a short one is the last.            *)
LEMMA PageContinues ==
    ASSUME NEW S, NEW s \in Seq(S), NEW n \in Nat, NEW limit \in Nat \ {0}
    PROVE  /\ Page(s, limit, n) \in Seq(S)
           /\ Beginning(s, n) \o Page(s, limit, n) = Beginning(s, n + limit)
           /\ Len(Page(s, limit, n)) < limit => Len(s) <= n + limit
<1> DEFINE top == Min({n + limit, Len(s)})
<1>1. n + limit \in Nat /\ Len(s) \in Nat /\ n < n + limit
  OBVIOUS
<1>2. Page(s, limit, n) = SubSeq(s, n + 1, top)
  BY Zenon DEF Page
<1>3. top = IF n + limit <= Len(s) THEN n + limit ELSE Len(s)
  <2> DEFINE T == {n + limit, Len(s)}
  <2>1. T \subseteq Nat /\ T # {}
    BY <1>1
  <2>2. top \in T /\ \A y \in T : top <= y
    BY <2>1, MinOfNats, Zenon
  <2> HIDE DEF top
  <2> QED BY <1>1, <2>2
<1> HIDE DEF top
<1>4. CASE n > Len(s)
  <2>1. SubSeq(s, n + 1, top) = <<>>
    BY <1>1, <1>3, <1>4
  <2>2. Beginning(s, n) = s /\ Beginning(s, n + limit) = s
    BY <1>1, <1>4 DEF Beginning
  <2>3. s \o <<>> = s /\ <<>> \in Seq(S) /\ Len(s) <= n + limit
    BY <1>1, <1>4
  <2> QED BY <1>2, <2>1, <2>2, <2>3, Zenon
<1>5. CASE n <= Len(s)
  <2>1. n <= top /\ top <= Len(s) /\ top \in Nat
    BY <1>1, <1>3, <1>5
  <2>2. SubSeq(s, n + 1, top) \in Seq(S) /\ Len(SubSeq(s, n + 1, top)) = top - n
    BY <2>1
  <2>3. Beginning(s, n) \o SubSeq(s, n + 1, top) = SubSeq(s, 1, top)
    BY <1>5, <2>1, Joined, Zenon DEF Beginning
  <2>4. SubSeq(s, 1, top) = Beginning(s, n + limit)
    BY <1>1, <1>3 DEF Beginning
  <2>5. top - n < limit => Len(s) <= n + limit
    BY <1>1, <1>3
  <2> QED BY <1>2, <2>2, <2>3, <2>4, <2>5, Zenon
<1> QED BY <1>1, <1>4, <1>5

(* The documents that match keep their own _ids.                            *)
LEMMA MatchingDistinct ==
    ASSUME NEW S, NEW docs \in Seq(S), Distinct(docs), NEW query
    PROVE  /\ Matching(docs, query) \in Seq(S)
           /\ Len(Matching(docs, query)) <= Len(docs)
           /\ Distinct(Matching(docs, query))
<1> DEFINE all == Matching(docs, query)
<1>1. IsSelection(all, S, docs, MatchingPlaces(docs, query))
  BY SelectFacts, Zenon DEF Matching
<1> HIDE DEF all
<1>2. all \in Seq(S) /\ DOMAIN all = 1..Len(all) /\ DOMAIN docs = 1..Len(docs)
  BY <1>1 DEF IsSelection
<1>3. ASSUME NEW i \in DOMAIN all PROVE \E a \in DOMAIN docs : all[i] = docs[a]
  <2>1. \A x : (\E j \in 1..Len(all) : all[j] = x)
                  => \E j \in 1..Len(docs) : docs[j] = x
    BY <1>1, Zenon DEF IsSelection
  <2> QED BY <1>2, <2>1, Zenon
<1>4. \A i \in DOMAIN all : IsDocument(all[i])
  BY <1>3, Zenon DEF Distinct
<1>5. ASSUME NEW i \in DOMAIN all, NEW j \in DOMAIN all, i < j
      PROVE  CompareValues(all[i][IdKey], all[j][IdKey]) # 0
  <2>1. PICK a \in DOMAIN docs, b \in DOMAIN docs : a < b /\ all[i] = docs[a] /\ all[j] = docs[b]
    <3>1. i \in 1..Len(all) /\ j \in 1..Len(all)
      BY <1>2, Zenon
    <3>2. \E a, b \in 1..Len(docs) : a < b /\ all[i] = docs[a] /\ all[j] = docs[b]
      BY <1>1, <1>5, <3>1, Zenon DEF IsSelection
    <3> QED BY <1>2, <3>2, Zenon
  <2>2. a # b
    BY <1>2, <2>1
  <2>3. CompareValues(docs[a][IdKey], docs[b][IdKey]) # 0
    BY <2>2, Zenon DEF Distinct
  <2> QED BY <2>1, <2>3, Zenon
<1>6. ASSUME NEW i \in DOMAIN all, NEW j \in DOMAIN all, i # j
      PROVE  CompareValues(all[i][IdKey], all[j][IdKey]) # 0
  <2>1. all[i][IdKey] \in Value /\ all[j][IdKey] \in Value
    BY <1>4, Zenon DEF IsDocument
  <2>2. /\ CompareValues(all[i][IdKey], all[j][IdKey]) \in {-1, 0, 1}
        /\ CompareValues(all[j][IdKey], all[i][IdKey]) \in {-1, 0, 1}
        /\ CompareValues(all[i][IdKey], all[j][IdKey]) = -CompareValues(all[j][IdKey], all[i][IdKey])
    BY <2>1, CompareValuesOrder
  <2>3. i < j \/ j < i
    BY <1>2, <1>6
  <2> QED BY <1>5, <2>2, <2>3
<1> QED BY <1>1, <1>2, <1>4, <1>6, Zenon DEF all, Distinct, IsSelection

(* A page of find is a part of one of the orders that the sort allows.      *)
IsPage(page, docs, query, sort, limit, n) ==
    \E s \in Sortings(Matching(docs, query), sort) : page = Page(s, limit, n)

LEMMA FindPage ==
    ASSUME NEW S, NEW docs \in Seq(S), NEW query, NEW sort,
           NEW limit \in 1..(Int32 - 1), NEW n \in 0..(Int32 - 1),
           NEW page \in RustFind(docs, query, sort, <<>>, limit, n)
    PROVE  IsPage(page, docs, query, sort, limit, n)
<1>1. limit \in 0..(Int32 - 1) /\ limit \in Nat \ {0} /\ n \in Nat
  BY QueryAssumption
<1>2. Max({0, CInt(limit)}) = limit /\ Max({0, CInt(n)}) = n
  BY <1>1, CIntKeeps, Zenon
<1>3. PICK s \in Sortings(Matching(docs, query), sort) :
         page = [i \in DOMAIN Page(s, limit, n) |-> ApplyProjection(Page(s, limit, n)[i], <<>>)]
  BY <1>2, Zenon DEF RustFind, Find
<1>4. Matching(docs, query) \in Seq(S)
  BY SelectFacts, Zenon DEF Matching, IsSelection
<1>5. s \in Seq(S)
  BY <1>4, SortingsFacts, Zenon DEF IsSorting
<1>6. Page(s, limit, n) \in Seq(S)
  BY <1>1, <1>5, PageContinues, Zenon
<1>7. \A d : ApplyProjection(d, <<>>) = d
  BY DEF ApplyProjection
<1>8. page = Page(s, limit, n)
  BY <1>3, <1>6, <1>7
<1> QED BY <1>8, Zenon DEF IsPage

(* The pages that a caller reads fit together.                              *)
LEMMA NextPages == AskInv /\ PagesInv /\ [PagingNext]_pagingVars => PagesInv'
<1> SUFFICES ASSUME AskInv, PagesInv, [PagingNext]_pagingVars PROVE PagesInv'
  OBVIOUS
<1>1. CASE UNCHANGED pagingVars
  BY <1>1 DEF pagingVars, PagesInv, Decided, DistinctIds
<1>2. CASE NextPage
  <2> DEFINE S == Range(data)
             limit == ask.limit
             all == Matching(data, ask.query)
             orders == Sortings(all, ask.sort)
  <2>1. data \in Seq(S) /\ Len(data) < Int32 /\ (DistinctIds => Distinct(data))
    BY AskFacts, Zenon DEF Distinct, DistinctIds
  <2>2. IsSort(ask.sort) /\ limit \in 1..(Int32 - 1)
    BY AskFacts, Zenon
  <2>3. /\ skip \in Nat /\ skip <= Len(data) /\ skip' = skip + limit
        /\ UNCHANGED <<data, primary, ask>> /\ Len(data) \in Nat
    BY <1>2, <2>1 DEF NextPage, PagesInv
  <2>4. skip \in 0..(Int32 - 1) /\ limit \in Nat \ {0} /\ skip' \in Nat
    BY QueryAssumption, <2>1, <2>2, <2>3
  <2>5. PICK page \in CoreFind(data, primary, ask.query, ask.sort, <<>>, limit, skip) :
            pages' = pages \o page /\ done' = (Len(page) < limit)
    BY <1>2, Zenon DEF NextPage
  <2>6. Decided' <=> Decided
    BY <2>3 DEF Decided, DistinctIds
  <2>7. ASSUME Decided
        PROVE  /\ \A s \in orders : pages' = Beginning(s, skip')
               /\ done' => \E s \in orders : Len(s) <= skip'
    <3>1. page \in RustFind(data, ask.query, ask.sort, <<>>, limit, skip)
      BY <2>5, <2>7, Zenon DEF Decided, CoreFind
    <3>2. PICK s \in orders : page = Page(s, limit, skip)
      <4>1. IsPage(page, data, ask.query, ask.sort, limit, skip)
        BY <2>1, <2>2, <2>4, <3>1, FindPage, Zenon
      <4> QED BY <4>1, Zenon DEF IsPage
    <3>3. all \in Seq(S) /\ (DistinctIds => Distinct(all))
      <4>1. all \in Seq(S)
        BY <2>1, SelectFacts, Zenon DEF Matching, IsSelection
      <4> QED BY <2>1, <4>1, MatchingDistinct, Zenon
    <3>4. s \in Seq(S)
      BY <3>3, SortingsFacts, Zenon DEF IsSorting
    <3>5. \A t \in orders : t = s
      BY <2>2, <2>7, <3>3, OneOrder, Zenon DEF Decided
    <3>6. pages = Beginning(s, skip)
      BY <2>7, Zenon DEF PagesInv, Beginning
    <3> HIDE DEF orders
    <3>7. /\ Beginning(s, skip) \o page = Beginning(s, skip')
          /\ Len(page) < limit => Len(s) <= skip'
      <4>1. /\ Beginning(s, skip) \o Page(s, limit, skip) = Beginning(s, skip + limit)
            /\ Len(Page(s, limit, skip)) < limit => Len(s) <= skip + limit
        BY <2>3, <2>4, <3>4, PageContinues, ZenonT(40)
      <4> QED BY <2>3, <3>2, <4>1, Zenon
    <3> QED BY <2>5, <3>5, <3>6, <3>7, Zenon
  <2>8. orders' = orders
    BY <2>3
  <2> HIDE DEF orders
  <2> QED BY <2>4, <2>6, <2>7, <2>8, Zenon DEF PagesInv, Beginning, orders, all
<1> QED BY <1>1, <1>2 DEF PagingNext

THEOREM PagesAlwaysFit == PagingSpec => []PagesFitTogether
<1>1. PagingInit => PagesInv
  <2> SUFFICES ASSUME PagingInit PROVE PagesInv
    OBVIOUS
  <2> DEFINE S == Range(data)
             all == Matching(data, ask.query)
  <2>1. data \in Seq(S)
    <3>1. AskInv
      BY Zenon DEF PagingInit, AskInv
    <3> QED BY <3>1, AskFacts, Zenon
  <2>2. all \in Seq(S)
    BY <2>1, SelectFacts, Zenon DEF Matching, IsSelection
  <2>3. ASSUME NEW s \in Sortings(all, ask.sort)
        PROVE  0 <= Len(s) /\ SubSeq(s, 1, 0) = <<>>
    <3>1. s \in Seq(S)
      BY <2>2, <2>3, SortingsFacts, Zenon DEF IsSorting
    <3> QED BY <3>1
  <2>4. skip = 0 /\ pages = <<>> /\ done = FALSE /\ skip \in Nat
    BY DEF PagingInit
  <2> QED BY <2>3, <2>4, Zenon DEF PagesInv
<1>2. AskInv /\ PagesInv => PagesFitTogether
  <2> SUFFICES ASSUME AskInv, PagesInv, done, Decided
               PROVE  pages \in RustFind(data, ask.query, ask.sort, <<>>, 0, 0)
    BY DEF PagesFitTogether
  <2> DEFINE S == Range(data)
             orders == Sortings(Matching(data, ask.query), ask.sort)
  <2>1. data \in Seq(S)
    BY AskFacts, Zenon
  <2>2. PICK s \in orders : Len(s) <= skip
    BY Zenon DEF PagesInv
  <2>3. pages = IF skip <= Len(s) THEN SubSeq(s, 1, skip) ELSE s
    BY Zenon DEF PagesInv
  <2>4. s \in Seq(S)
    <3>1. Matching(data, ask.query) \in Seq(S)
      BY <2>1, SelectFacts, Zenon DEF Matching, IsSelection
    <3> QED BY <3>1, SortingsFacts, Zenon DEF IsSorting
  <2>5. pages = s
    <3> HIDE DEF orders
    <3> QED BY <2>2, <2>3, <2>4 DEF PagesInv
  <2> QED BY <2>1, <2>5, FindAll, Zenon
<1> QED BY <1>1, <1>2, NextPages, AskInvariant, PTL DEF PagingSpec
=============================================================================
