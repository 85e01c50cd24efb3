--------------------------- MODULE ProofRunProofs ---------------------------
(***************************************************************************)
(* Proofs about the bounded proof, for any catalog, corpus and files.      *)
(***************************************************************************)
EXTENDS ProofRun, ShardFormatProofs

-----------------------------------------------------------------------------
(* Finite sets *)

\* An image has at most as many elements as what it is the image of.
LEMMA ImageIsSmaller ==
    ASSUME NEW S, IsFiniteSet(S), NEW f, DOMAIN f = S
    PROVE  /\ IsFiniteSet({f[x] : x \in S})
           /\ Cardinality({f[x] : x \in S}) <= Cardinality(S)
<1> DEFINE T == {f[x] : x \in S}
           g == [x \in S |-> f[x]]
<1>1. g \in Surjection(S, T)
  BY DEF Surjection
<1> HIDE DEF g, T
<1>2. IsFiniteSet(T) /\ Cardinality(T) <= Cardinality(S)
  BY <1>1, FS_Surjection
<1> QED
  BY <1>2 DEF T

\* Where a function on a finite set is least.
LEMMA HasLeastValue ==
    ASSUME NEW S, IsFiniteSet(S), S # {}, NEW f, DOMAIN f = S, \A x \in S : f[x] \in Int
    PROVE  \E n \in S : \A m \in S : f[n] <= f[m]
<1> DEFINE T == {f[x] : x \in S}
<1>1. IsFiniteSet(T)
  BY ImageIsSmaller
<1>2. T \subseteq Int /\ T # {}
  OBVIOUS
<1> HIDE DEF T
<1>3. PICK v \in T : \A w \in T : v <= w
  BY <1>1, <1>2, HasSmallest
<1> QED
  BY <1>3 DEF T

-----------------------------------------------------------------------------
(* The order of the rows *)

Key(k) == k[1] \in Int /\ k[2] \in Int /\ k[3] \in Int

LEMMA AboveOrders ==
    ASSUME NEW k, Key(k), NEW l, Key(l), NEW n, Key(n)
    PROVE  /\ Above(k, l) => ~Above(l, k)
           /\ Above(k, l) /\ Above(l, n) => Above(k, n)
           /\ ~Above(k, l) /\ ~Above(l, n) => ~Above(k, n)
BY DEF Above, Key

LEMMA KeysAreKeys ==
    ASSUME NEW row \in Rows, NEW s \in Sources
    PROVE  Key(Keys(row)[s])
<1>1. /\ row.repo \in Repos /\ row.downloads \in Nat /\ row.score \in Nat
      /\ row.repo \in Nat /\ Rank[row.repo] \in Nat
  BY CatalogAssumption
<1>2. -Rank[row.repo] \in Int /\ row.repo \in Int /\ row.downloads \in Int /\ row.score \in Int
  BY <1>1
<1>3. CASE s = "popular"
  BY <1>2, <1>3 DEF Keys, Key
<1>4. CASE s = "random"
  BY <1>2, <1>4 DEF Keys, Key
<1>5. CASE s = "targeted"
  BY <1>2, <1>5 DEF Keys, Key
<1> QED
  BY <1>3, <1>4, <1>5 DEF Sources

\* A heap that is not empty has a lowest row.
LEMMA HasLowest ==
    ASSUME NEW rows \in Seq(Rows), NEW s \in Sources, NEW heap \in SUBSET DOMAIN rows,
           heap # {}
    PROVE  /\ Lowest(rows, s, heap) \in heap
           /\ \A m \in heap : ~Outranks(rows, s, Lowest(rows, s, heap), m)
<1> DEFINE key(n) == Keys(rows[n])[s]
           f1 == [n \in heap |-> key(n)[1]]
<1>1. \A n \in heap : Key(key(n))
  BY KeysAreKeys
<1>2. IsFiniteSet(heap)
  <2>1. DOMAIN rows = 1..Len(rows) /\ Len(rows) \in Nat
    OBVIOUS
  <2>2. IsFiniteSet(DOMAIN rows)
    BY <2>1, FS_Interval
  <2> QED
    BY <2>2, FS_Subset
<1> HIDE DEF key
<1>3. PICK n1 \in heap : \A m \in heap : key(n1)[1] <= key(m)[1]
  <2>1. DOMAIN f1 = heap /\ \A x \in heap : f1[x] = key(x)[1] /\ f1[x] \in Int
    BY <1>1 DEF Key
  <2> HIDE DEF f1
  <2>2. \E n \in heap : \A m \in heap : f1[n] <= f1[m]
    BY <1>2, <2>1, HasLeastValue
  <2> QED
    BY <2>1, <2>2
<1> DEFINE S2 == {m \in heap : key(m)[1] = key(n1)[1]}
           f2 == [n \in S2 |-> key(n)[2]]
<1>4. n1 \in S2 /\ S2 \in SUBSET heap
  OBVIOUS
<1> HIDE DEF S2
<1>5. IsFiniteSet(S2)
  BY <1>2, <1>4, FS_Subset
<1>6. PICK n2 \in S2 : \A m \in S2 : key(n2)[2] <= key(m)[2]
  <2>1. DOMAIN f2 = S2 /\ \A x \in S2 : f2[x] = key(x)[2] /\ f2[x] \in Int
    BY <1>1, <1>4 DEF Key
  <2> HIDE DEF f2
  <2>2. \E n \in S2 : \A m \in S2 : f2[n] <= f2[m]
    BY <1>4, <1>5, <2>1, HasLeastValue
  <2> QED
    BY <2>1, <2>2
<1> DEFINE S3 == {m \in S2 : key(m)[2] = key(n2)[2]}
           f3 == [n \in S3 |-> key(n)[3]]
<1>7. n2 \in S3 /\ S3 \in SUBSET S2
  OBVIOUS
<1> HIDE DEF S3
<1>8. IsFiniteSet(S3)
  BY <1>5, <1>7, FS_Subset
<1>9. PICK n3 \in S3 : \A m \in S3 : key(n3)[3] <= key(m)[3]
  <2>1. DOMAIN f3 = S3 /\ \A x \in S3 : f3[x] = key(x)[3] /\ f3[x] \in Int
    BY <1>1, <1>4, <1>7 DEF Key
  <2> HIDE DEF f3
  <2>2. \E n \in S3 : \A m \in S3 : f3[n] <= f3[m]
    BY <1>7, <1>8, <2>1, HasLeastValue
  <2> QED
    BY <2>1, <2>2
<1>10. n3 \in heap /\ \A m \in heap : ~Above(key(n3), key(m))
  <2> SUFFICES ASSUME NEW m \in heap PROVE n3 \in heap /\ ~Above(key(n3), key(m))
    BY <1>4, <1>7, <1>9
  <2>1. n3 \in S2 /\ n3 \in heap /\ key(n3)[1] = key(n1)[1] /\ key(n3)[2] = key(n2)[2]
    BY <1>4, <1>7, <1>9 DEF S2, S3
  <2>2. Key(key(m)) /\ Key(key(n3))
    BY <1>1, <2>1
  <2>3. key(n3)[1] <= key(m)[1]
    BY <1>3, <2>1
  <2>4. key(n3)[1] = key(m)[1] => key(n3)[2] <= key(m)[2]
    BY <1>6, <2>1 DEF S2
  <2>5. key(n3)[1] = key(m)[1] /\ key(n3)[2] = key(m)[2] => key(n3)[3] <= key(m)[3]
    BY <1>9, <2>1 DEF S2, S3
  <2> QED
    BY <2>1, <2>2, <2>3, <2>4, <2>5 DEF Above, Key
<1> QED
  BY <1>10 DEF Lowest, Outranks, key

-----------------------------------------------------------------------------
(* The heaps *)

\* What a heap is right about, the rows of a list being given.
HeapIsTop(rows, s, heap, eligible) ==
    /\ heap \subseteq eligible
    /\ heap = eligible \/ Cardinality(heap) = Limits[s]
    /\ Cardinality(heap) <= Limits[s]
    /\ \A n \in heap : \A m \in eligible \ heap : ~Outranks(rows, s, m, n)

LEMMA RetainedKeepsTop ==
    ASSUME NEW rows \in Seq(Rows), NEW s \in Sources, NEW heap,
           NEW eligible \in SUBSET DOMAIN rows, NEW n \in DOMAIN rows, n \notin eligible,
           HeapIsTop(rows, s, heap, eligible)
    PROVE  HeapIsTop(rows, s, Retained(rows, s, heap, n), eligible \union {n})
<1>1. Limits[s] \in Nat
  BY CatalogAssumption
<1>2. IsFiniteSet(heap) /\ Cardinality(heap) \in Nat /\ heap \in SUBSET DOMAIN rows
  <2>1. DOMAIN rows = 1..Len(rows) /\ Len(rows) \in Nat
    OBVIOUS
  <2>2. IsFiniteSet(DOMAIN rows) /\ heap \in SUBSET DOMAIN rows
    BY <2>1, FS_Interval DEF HeapIsTop
  <2> QED
    BY <2>2, FS_Subset, FS_CardinalityType
<1>3. n \notin heap
  BY DEF HeapIsTop
<1>4. IsFiniteSet(heap \union {n}) /\ Cardinality(heap \union {n}) = Cardinality(heap) + 1
  BY <1>2, <1>3, FS_AddElement
<1>5. ASSUME NEW a \in DOMAIN rows, NEW b \in DOMAIN rows, NEW c \in DOMAIN rows
      PROVE  /\ Outranks(rows, s, a, b) => ~Outranks(rows, s, b, a)
             /\ Outranks(rows, s, a, b) /\ Outranks(rows, s, b, c) => Outranks(rows, s, a, c)
             /\ ~Outranks(rows, s, a, b) /\ ~Outranks(rows, s, b, c) => ~Outranks(rows, s, a, c)
  <2>1. Key(Keys(rows[a])[s]) /\ Key(Keys(rows[b])[s]) /\ Key(Keys(rows[c])[s])
    BY KeysAreKeys
  <2> QED
    BY <2>1, AboveOrders DEF Outranks
<1> DEFINE low == Lowest(rows, s, heap)
<1>6. CASE Cardinality(heap) < Limits[s]
  <2>1. heap = eligible /\ Retained(rows, s, heap, n) = heap \union {n}
    BY <1>1, <1>2, <1>6 DEF HeapIsTop, Retained
  <2>2. Cardinality(heap \union {n}) <= Limits[s]
    BY <1>1, <1>2, <1>4, <1>6
  <2> QED
    BY <2>1, <2>2 DEF HeapIsTop
<1>7. CASE ~(Cardinality(heap) < Limits[s])
  <2>1. Cardinality(heap) = Limits[s]
    BY <1>1, <1>2, <1>7 DEF HeapIsTop
  <2>2. heap # {} => low \in heap /\ \A m \in heap : ~Outranks(rows, s, low, m)
    BY <1>2, HasLowest
  <2> HIDE DEF low
  <2>3. CASE heap # {} /\ Outranks(rows, s, n, low)
    <3> DEFINE new == (heap \ {low}) \union {n}
    <3>1. Retained(rows, s, heap, n) = new
      BY <1>7, <2>3 DEF Retained, low
    <3>2. Cardinality(new) = Limits[s]
      <4>1. IsFiniteSet(heap \ {low}) /\ Cardinality(heap \ {low}) = Cardinality(heap) - 1
        BY <1>2, <2>2, <2>3, FS_RemoveElement
      <4>2. n \notin heap \ {low}
        BY <1>3
      <4>3. Cardinality(new) = Cardinality(heap \ {low}) + 1
        BY <4>1, <4>2, FS_AddElement
      <4> QED
        BY <1>2, <2>1, <4>1, <4>3
    <3>3. ASSUME NEW x \in new, NEW m \in (eligible \union {n}) \ new
          PROVE  ~Outranks(rows, s, m, x)
      <4>1. x \in DOMAIN rows /\ m \in DOMAIN rows /\ low \in DOMAIN rows /\ n \in DOMAIN rows
        BY <1>2, <2>2, <2>3, <3>3
      <4>2. CASE m = low /\ x = n
        BY <1>5, <2>3, <4>1, <4>2
      <4>3. CASE m = low /\ x # n
        BY <2>2, <2>3, <3>3, <4>3
      <4>4. CASE m # low /\ x # n
        <5>1. m \in eligible \ heap /\ x \in heap
          BY <3>3, <4>4
        <5> QED
          BY <5>1 DEF HeapIsTop
      <4>5. CASE m # low /\ x = n
        <5>1. m \in eligible \ heap
          BY <3>3, <4>5
        <5>2. ~Outranks(rows, s, m, low)
          BY <2>2, <2>3, <5>1 DEF HeapIsTop
        <5> QED
          BY <1>5, <2>3, <4>1, <4>5, <5>2
      <4> QED
        BY <4>2, <4>3, <4>4, <4>5
    <3>4. new \subseteq eligible \union {n}
      BY DEF HeapIsTop
    <3> HIDE DEF new
    <3> QED
      BY <1>1, <3>1, <3>2, <3>3, <3>4 DEF HeapIsTop
  <2>4. CASE ~(heap # {} /\ Outranks(rows, s, n, low))
    <3>1. Retained(rows, s, heap, n) = heap
      BY <1>7, <2>4 DEF Retained, low
    <3>2. ASSUME NEW x \in heap, NEW m \in (eligible \union {n}) \ heap
          PROVE  ~Outranks(rows, s, m, x)
      <4>1. x \in DOMAIN rows /\ m \in DOMAIN rows /\ low \in DOMAIN rows
        BY <1>2, <2>2, <3>2
      <4>2. CASE m = n
        BY <1>5, <2>2, <2>4, <3>2, <4>1, <4>2
      <4>3. CASE m # n
        BY <3>2, <4>3 DEF HeapIsTop
      <4> QED
        BY <4>2, <4>3
    <3> QED
      BY <1>1, <2>1, <3>1, <3>2 DEF HeapIsTop
  <2> QED
    BY <2>3, <2>4
<1> QED
  BY <1>6, <1>7

LEMMA TopIsHeap == TopKept <=> \A s \in Sources : HeapIsTop(listed, s, heaps[s], EligibleRows)
BY DEF TopKept, HeapIsTop

\* A row more leaves what is known of the others.
LEMMA ListKeepsTop ==
    ASSUME TypeOK, TopKept, ListRow
    PROVE  TopKept' /\ heaps' \in [Sources -> SUBSET DOMAIN listed']
           /\ listed' \in Seq(Rows) /\ Len(listed') <= CatalogLimit
<1>1. PICK row \in Rows :
          /\ listed' = Append(listed, row)
          /\ heaps' = IF Eligible(row)
                      THEN [s \in Sources |-> Retained(listed', s, heaps[s], Len(listed'))]
                      ELSE heaps
  BY DEF ListRow
<1> DEFINE n == Len(listed) + 1
<1>2. listed \in Seq(Rows) /\ heaps \in [Sources -> SUBSET DOMAIN listed]
  BY DEF TypeOK
<1>3. /\ listed' \in Seq(Rows) /\ Len(listed') = n /\ DOMAIN listed' = 1..n
      /\ DOMAIN listed = 1..Len(listed) /\ Len(listed) \in Nat
      /\ listed'[n] = row /\ \A m \in DOMAIN listed : listed'[m] = listed[m]
  BY <1>1, <1>2
<1>4. Len(listed') <= CatalogLimit
  BY <1>3, CatalogAssumption DEF ListRow
<1>5. n \in DOMAIN listed' /\ n \notin EligibleRows /\ EligibleRows \in SUBSET DOMAIN listed'
      /\ EligibleRows \subseteq DOMAIN listed
  BY <1>3 DEF EligibleRows
<1>6. EligibleRows' = IF Eligible(row) THEN EligibleRows \union {n} ELSE EligibleRows
  <2>1. EligibleRows' = {m \in DOMAIN listed' : Eligible(listed'[m])}
    BY DEF EligibleRows, Eligible
  <2>2. DOMAIN listed' = DOMAIN listed \union {n}
    BY <1>3
  <2>3. \A m \in DOMAIN listed : Eligible(listed'[m]) <=> Eligible(listed[m])
    BY <1>3
  <2> QED
    BY <1>3, <2>1, <2>2, <2>3 DEF EligibleRows
<1> HIDE DEF n
<1>7. ASSUME NEW s \in Sources PROVE HeapIsTop(listed', s, heaps[s], EligibleRows)
  <2>1. HeapIsTop(listed, s, heaps[s], EligibleRows)
    BY TopIsHeap
  <2>2. \A a, b \in EligibleRows : Outranks(listed', s, a, b) <=> Outranks(listed, s, a, b)
    BY <1>3, <1>5 DEF Outranks
  <2>3. heaps[s] \subseteq EligibleRows
    BY <2>1 DEF HeapIsTop
  <2> QED
    BY <2>1, <2>2, <2>3 DEF HeapIsTop
<1>8. ASSUME NEW s \in Sources PROVE HeapIsTop(listed', s, heaps'[s], EligibleRows')
  <2>1. CASE Eligible(row)
    <3>1. heaps'[s] = Retained(listed', s, heaps[s], n)
      BY <1>1, <1>3, <2>1
    <3>2. HeapIsTop(listed', s, Retained(listed', s, heaps[s], n), EligibleRows \union {n})
      BY <1>3, <1>5, <1>7, RetainedKeepsTop
    <3> QED
      BY <1>6, <2>1, <3>1, <3>2
  <2>2. CASE ~Eligible(row)
    BY <1>1, <1>6, <1>7, <2>2
  <2> QED
    BY <2>1, <2>2
<1>9. TopKept'
  BY <1>8 DEF TopKept, HeapIsTop, Outranks
<1>10. heaps' \in [Sources -> SUBSET DOMAIN listed']
  <2>1. DOMAIN heaps' = Sources /\ heaps' = [s \in Sources |-> heaps'[s]]
    BY <1>1, <1>2
  <2>2. \A s \in Sources : heaps'[s] \subseteq EligibleRows'
    BY <1>8 DEF HeapIsTop
  <2>3. EligibleRows' \subseteq DOMAIN listed'
    BY <1>5, <1>6
  <2> QED
    BY <2>1, <2>2, <2>3
<1> QED
  BY <1>3, <1>4, <1>9, <1>10

-----------------------------------------------------------------------------
(* The bytes of what was downloaded *)

Bytes(v) == Size[v.file]

SumOfBytes(S) == MapThenSumSet(Bytes, S)

\* As many elements as the downloads of S have bytes.  The recursion of a sum has one
\* solution, the number of these, whichever download is taken first.
Points(S) == UNION {{v} \X (1..Bytes(v)) : v \in S}

LEMMA PointsOfOne ==
    ASSUME NEW v, Bytes(v) \in Nat
    PROVE  /\ IsFiniteSet({v} \X (1..Bytes(v)))
           /\ Cardinality({v} \X (1..Bytes(v))) = Bytes(v)
<1>1. IsFiniteSet({v}) /\ Cardinality({v}) = 1
  BY FS_Singleton
<1>2. IsFiniteSet(1..Bytes(v)) /\ Cardinality(1..Bytes(v)) = Bytes(v)
  BY FS_Interval
<1> DEFINE n == Bytes(v)
<1> HIDE DEF n
<1>3. 1 * n = n
  BY DEF n
<1> QED
  BY <1>1, <1>2, <1>3, FS_Product DEF n

LEMMA PointsOfOneMore ==
    ASSUME NEW S, NEW v, v \notin S, Bytes(v) \in Nat, IsFiniteSet(Points(S))
    PROVE  /\ IsFiniteSet(Points(S \union {v}))
           /\ Cardinality(Points(S \union {v})) = Bytes(v) + Cardinality(Points(S))
<1> DEFINE one == {v} \X (1..Bytes(v))
<1>1. Points(S \union {v}) = one \union Points(S)
  BY DEF Points
<1>2. one \intersect Points(S) = {}
  BY DEF Points
<1>3. IsFiniteSet(one) /\ Cardinality(one) = Bytes(v)
  BY PointsOfOne
<1>4. Cardinality(Points(S)) \in Nat
  BY FS_CardinalityType
<1> HIDE DEF one
<1>5. /\ IsFiniteSet(one \union Points(S))
      /\ Cardinality(one \union Points(S))
            = Cardinality(one) + Cardinality(Points(S)) - Cardinality(one \intersect Points(S))
  BY <1>3, FS_Union
<1>6. Cardinality(one \intersect Points(S)) = 0
  BY <1>2, FS_EmptySet
<1>7. \A m, n \in Nat : m + n - 0 = m + n
  OBVIOUS
<1>8. Cardinality(one \union Points(S)) = Bytes(v) + Cardinality(Points(S))
  BY <1>3, <1>4, <1>5, <1>6, <1>7
<1> QED
  BY <1>1, <1>5, <1>8, Zenon

LEMMA PointsFinite ==
    ASSUME NEW S, IsFiniteSet(S), \A v \in S : Bytes(v) \in Nat
    PROVE  IsFiniteSet(Points(S)) /\ Cardinality(Points(S)) \in Nat
<1> DEFINE T == {X \in SUBSET S : ~IsFiniteSet(Points(X))}
<1> SUFFICES ASSUME ~IsFiniteSet(Points(S)) PROVE FALSE
  BY FS_CardinalityType
<1>0. T \in SUBSET SUBSET S /\ S \in T
  OBVIOUS
<1>1. PICK X : Minimal(X, T)
  <2> HIDE DEF T
  <2> QED
    BY <1>0, MinimalSubset
<1>2. X \in SUBSET S /\ ~IsFiniteSet(Points(X))
  BY <1>1 DEF Minimal
<1>3. X # {}
  <2>1. Points({}) = {}
    BY DEF Points
  <2> QED
    BY <1>2, <2>1, FS_EmptySet
<1>4. PICK v \in X : TRUE
  BY <1>3
<1>5. X \ {v} \notin T
  <2> HIDE DEF T
  <2> QED
    BY <1>1, <1>4 DEF Minimal
<1>6. IsFiniteSet(Points(X \ {v}))
  BY <1>2, <1>5
<1>7. (X \ {v}) \union {v} = X /\ v \notin X \ {v} /\ Bytes(v) \in Nat
  BY <1>2, <1>4
<1> QED
  BY <1>2, <1>6, <1>7, PointsOfOneMore

\* MapThenSumSet counts.
LEMMA SumCounts ==
    ASSUME NEW S, IsFiniteSet(S), \A v \in S : Bytes(v) \in Nat
    PROVE  SumOfBytes(S) = Cardinality(Points(S))
<1> DEFINE first(s) == CHOOSE v \in s : TRUE
           Body(g) == [s \in SUBSET S |->
                          IF s = {} THEN 0 ELSE Bytes(first(s)) + g[s \ {first(s)}]]
           count == [s \in SUBSET S |-> Cardinality(Points(s))]
           sum == CHOOSE g : g = Body(g)
<1>1. SumOfBytes(S) = sum[S]
  BY DEF SumOfBytes, MapThenSumSet, MapThenFoldSet
<1>2. ASSUME NEW s \in SUBSET S, s # {}
      PROVE  /\ first(s) \in s /\ s \ {first(s)} \in SUBSET S
             /\ Cardinality(Points(s)) = Bytes(first(s)) + Cardinality(Points(s \ {first(s)}))
  <2>1. first(s) \in s
    BY <1>2
  <2> HIDE DEF first
  <2>2. s \ {first(s)} \in SUBSET S /\ (s \ {first(s)}) \union {first(s)} = s
    BY <2>1
  <2>3. IsFiniteSet(s \ {first(s)}) /\ \A v \in s \ {first(s)} : Bytes(v) \in Nat
    BY <2>2, FS_Subset
  <2>4. IsFiniteSet(Points(s \ {first(s)}))
    BY <2>3, PointsFinite
  <2>5. first(s) \notin s \ {first(s)} /\ Bytes(first(s)) \in Nat
    BY <2>1
  <2>6. Cardinality(Points((s \ {first(s)}) \union {first(s)}))
            = Bytes(first(s)) + Cardinality(Points(s \ {first(s)}))
    BY <2>4, <2>5, PointsOfOneMore
  <2> QED
    BY <2>1, <2>2, <2>6
<1>3. Cardinality(Points({})) = 0
  BY FS_EmptySet DEF Points
<1> HIDE DEF first
<1>4. count = Body(count)
  <2>1. ASSUME NEW s \in SUBSET S PROVE count[s] = Body(count)[s]
    <3>1. CASE s = {}
      BY <1>3, <3>1
    <3>2. CASE s # {}
      BY <1>2, <3>2
    <3> QED
      BY <3>1, <3>2
  <2> QED
    BY <2>1
<1>5. sum = Body(sum)
  <2>1. \E g : g = Body(g)
    BY <1>4
  <2> HIDE DEF Body
  <2> QED
    BY <2>1
<1> DEFINE T == {s \in SUBSET S : sum[s] # Cardinality(Points(s))}
<1> HIDE DEF sum
<1> SUFFICES ASSUME S \in T PROVE FALSE
  BY <1>1
<1>6. PICK X : Minimal(X, T)
  <2>1. T \in SUBSET SUBSET S
    OBVIOUS
  <2> HIDE DEF T
  <2> QED
    BY <2>1, MinimalSubset
<1>7. X \in SUBSET S /\ sum[X] # Cardinality(Points(X))
  BY <1>6 DEF Minimal
<1>8. CASE X = {}
  BY <1>3, <1>5, <1>7, <1>8
<1>9. CASE X # {}
  <2>1. /\ first(X) \in X /\ X \ {first(X)} \in SUBSET S
        /\ Cardinality(Points(X)) = Bytes(first(X)) + Cardinality(Points(X \ {first(X)}))
    BY <1>2, <1>7, <1>9
  <2>2. X \ {first(X)} \notin T
    <3> HIDE DEF T
    <3> QED
      BY <1>6, <2>1 DEF Minimal
  <2>3. sum[X] = Bytes(first(X)) + sum[X \ {first(X)}]
    BY <1>5, <1>7, <1>9
  <2> QED
    BY <1>7, <2>1, <2>2, <2>3
<1> QED
  BY <1>8, <1>9

LEMMA SumOfNone == SumOfBytes({}) = 0
<1>1. IsFiniteSet({}) /\ Points({}) = {} /\ Cardinality({}) = 0
  BY FS_EmptySet DEF Points
<1> QED
  BY <1>1, SumCounts

\* A download more is its size more.
LEMMA SumOfOneMore ==
    ASSUME NEW S, IsFiniteSet(S), NEW v, v \notin S, \A w \in S \union {v} : Bytes(w) \in Nat
    PROVE  SumOfBytes(S) \in Nat /\ SumOfBytes(S \union {v}) = Bytes(v) + SumOfBytes(S)
<1>1. IsFiniteSet(S \union {v})
  BY FS_AddElement
<1>2. SumOfBytes(S) = Cardinality(Points(S))
  BY SumCounts
<1>3. SumOfBytes(S \union {v}) = Cardinality(Points(S \union {v}))
  BY <1>1, SumCounts
<1>4. IsFiniteSet(Points(S)) /\ Cardinality(Points(S)) \in Nat
  BY PointsFinite
<1> QED
  BY <1>2, <1>3, <1>4, PointsOfOneMore

LEMMA VerifiedIsSum ==
    VerifiedBytes = SumOfBytes(verified) /\ VerifiedBytes' = SumOfBytes(verified')
BY DEF VerifiedBytes, SumOfBytes, Bytes, MapThenSumSet, MapThenFoldSet

-----------------------------------------------------------------------------
(* The corpus *)

\* What is appended fits; and it leaves out a candidate only when nothing more fits.
LEMMA AppendUniqueFills ==
    ASSUME NEW selected, NEW candidates \in Seq(Repos), NEW limit \in Nat
    PROVE  LET added == AppendUnique(selected, candidates, limit)
           IN /\ IsFiniteSet(added) /\ Cardinality(added) <= limit
              /\ added \subseteq Repos /\ added \intersect selected = {}
              /\ \A i \in DOMAIN candidates :
                     candidates[i] \in selected \union added \/ Cardinality(added) = limit
<1> DEFINE New(i) == {candidates[h] : h \in 1..(i - 1)} \ selected
           J == {j \in DOMAIN candidates :
                    candidates[j] \notin selected /\ Cardinality(New(j)) < limit}
           A == {candidates[j] : j \in J}
<1>1. AppendUnique(selected, candidates, limit) = A
  BY DEF AppendUnique
<1>2. DOMAIN candidates = 1..Len(candidates) /\ Len(candidates) \in Nat
      /\ \A j \in DOMAIN candidates : candidates[j] \in Repos
  OBVIOUS
<1>3. A \subseteq Repos /\ A \intersect selected = {} /\ IsFiniteSet(A)
  <2>1. IsFiniteSet(Repos) /\ A \in SUBSET Repos
    BY <1>2, CatalogAssumption
  <2> HIDE DEF A
  <2>2. IsFiniteSet(A)
    BY <2>1, FS_Subset
  <2> QED
    BY <2>1, <2>2 DEF A
<1>4. ASSUME NEW i \in DOMAIN candidates
      PROVE  New(i) \subseteq Repos /\ IsFiniteSet(New(i)) /\ Cardinality(New(i)) \in Nat
  <2>1. IsFiniteSet(Repos) /\ New(i) \in SUBSET Repos
    BY <1>2, CatalogAssumption
  <2> HIDE DEF New
  <2> QED
    BY <2>1, FS_Subset, FS_CardinalityType
<1>5. J \subseteq DOMAIN candidates /\ J \subseteq Int /\ IsFiniteSet(J)
  <2>1. J \in SUBSET DOMAIN candidates /\ IsFiniteSet(DOMAIN candidates)
    BY <1>2, FS_Interval
  <2> HIDE DEF J
  <2> QED
    BY <1>2, <2>1, FS_Subset
<1>6. Cardinality(A) \in Nat /\ Cardinality(A) <= limit
  <2>1. CASE J = {}
    <3>1. A = {}
      BY <2>1
    <3> HIDE DEF A
    <3> QED
      BY <3>1, FS_EmptySet
  <2>2. CASE J # {}
    <3>0. J \subseteq Int /\ IsFiniteSet(J) /\ J # {}
      BY <1>5, <2>2
    <3> HIDE DEF J
    <3>1. PICK m \in J : \A x \in J : x <= m
      BY <3>0, HasLargest
    <3> USE DEF J
    <3>2. A \subseteq New(m) \union {candidates[m]}
      <4> SUFFICES ASSUME NEW j \in J PROVE candidates[j] \in New(m) \union {candidates[m]}
        OBVIOUS
      <4>1. j \in 1..Len(candidates) /\ m \in 1..Len(candidates) /\ j <= m
        BY <1>2, <3>1
      <4>2. candidates[j] \notin selected
        OBVIOUS
      <4>3. j # m => j \in 1..(m - 1)
        BY <1>2, <4>1
      <4> QED
        BY <4>2, <4>3
    <3>3. m \in DOMAIN candidates /\ Cardinality(New(m)) < limit
      BY <3>1
    <3> DEFINE N == New(m)
               last == candidates[m]
    <3>4. IsFiniteSet(N) /\ Cardinality(N) \in Nat
      BY <1>4, <3>3
    <3> HIDE DEF N, A, J, last
    <3>5. IsFiniteSet(N \union {last}) /\ Cardinality(N \union {last}) <= Cardinality(N) + 1
      <4>1. /\ IsFiniteSet(N \union {last})
            /\ Cardinality(N \union {last})
                  = IF last \in N THEN Cardinality(N) ELSE Cardinality(N) + 1
        BY <3>4, FS_AddElement
      <4>2. \A n \in Nat : n <= n + 1
        OBVIOUS
      <4> QED
        BY <3>4, <4>1, <4>2
    <3>6. Cardinality(A) <= Cardinality(N \union {last})
      BY <3>2, <3>5, FS_Subset DEF N, last
    <3>7. Cardinality(A) \in Nat /\ Cardinality(N) \in Nat /\ Cardinality(N) < limit
          /\ Cardinality(N \union {last}) \in Nat
      BY <1>3, <3>3, <3>4, <3>5, FS_CardinalityType DEF N
    <3> QED
      BY <3>5, <3>6, <3>7
  <2> QED
    BY <2>1, <2>2
<1>7. ASSUME NEW i \in DOMAIN candidates, candidates[i] \notin selected \union A
      PROVE  Cardinality(A) = limit
  <2> DEFINE Full == {j \in DOMAIN candidates : ~(Cardinality(New(j)) < limit)}
  <2>1. i \in Full /\ Full \in SUBSET DOMAIN candidates
    BY <1>7
  <2>2. IsFiniteSet(Full) /\ Full \subseteq Int /\ Full # {}
    <3>1. IsFiniteSet(DOMAIN candidates)
      BY <1>2, FS_Interval
    <3> HIDE DEF Full
    <3> QED
      BY <1>2, <2>1, <3>1, FS_Subset
  <2> HIDE DEF Full
  <2>3. PICK k \in Full : \A x \in Full : k <= x
    BY <2>2, HasSmallest
  <2>4. k \in DOMAIN candidates /\ ~(Cardinality(New(k)) < limit)
    BY <2>3 DEF Full
  <2>5. New(k) \subseteq A
    <3> SUFFICES ASSUME NEW h \in 1..(k - 1), candidates[h] \notin selected
                 PROVE  candidates[h] \in A
      OBVIOUS
    <3>1. h \in DOMAIN candidates /\ ~(k <= h)
      BY <1>2, <2>4
    <3>2. h \notin Full
      BY <2>3, <3>1
    <3>3. h \in J
      BY <3>1, <3>2 DEF Full
    <3> QED
      BY <3>3
  <2> DEFINE N == New(k)
  <2>6. N \in SUBSET A /\ Cardinality(N) \in Nat /\ ~(Cardinality(N) < limit)
    BY <1>4, <2>4, <2>5
  <2> HIDE DEF N, A
  <2>7. Cardinality(N) <= Cardinality(A)
    BY <1>3, <2>6, FS_Subset
  <2> QED
    BY <1>6, <2>6, <2>7
<1> HIDE DEF A
<1> QED
  BY <1>1, <1>3, <1>6, <1>7

\* A heap holds no more repositories than it has places.
LEMMA KeptFits ==
    ASSUME TypeOK, TopKept, NEW s \in Sources
    PROVE  /\ Kept(s) \subseteq Repos /\ IsFiniteSet(Kept(s))
           /\ Cardinality(Kept(s)) \in Nat /\ Cardinality(Kept(s)) <= Limits[s]
<1> DEFINE f == [n \in heaps[s] |-> listed[n].repo]
<1>1. listed \in Seq(Rows) /\ heaps[s] \in SUBSET DOMAIN listed
  BY DEF TypeOK
<1>2. DOMAIN listed = 1..Len(listed) /\ Len(listed) \in Nat
      /\ \A n \in DOMAIN listed : listed[n] \in Rows
  BY <1>1
<1>3. IsFiniteSet(heaps[s])
  <2>1. IsFiniteSet(DOMAIN listed)
    BY <1>2, FS_Interval
  <2> QED
    BY <1>1, <2>1, FS_Subset
<1>4. \A n \in DOMAIN listed : listed[n].repo \in Repos
  BY <1>2, CatalogAssumption
<1>5. Kept(s) = {f[n] : n \in heaps[s]} /\ DOMAIN f = heaps[s]
  BY DEF Kept
<1> HIDE DEF f
<1>6. IsFiniteSet(Kept(s)) /\ Cardinality(Kept(s)) <= Cardinality(heaps[s])
  BY <1>3, <1>5, ImageIsSmaller
<1>7. Cardinality(Kept(s)) \in Nat /\ Cardinality(heaps[s]) \in Nat /\ Limits[s] \in Nat
  BY <1>3, <1>6, FS_CardinalityType, CatalogAssumption
<1>8. Cardinality(heaps[s]) <= Limits[s]
  BY DEF TopKept
<1>9. Cardinality(Kept(s)) <= Limits[s]
  BY <1>6, <1>7, <1>8
<1>10. Kept(s) \subseteq Repos
  BY <1>1, <1>4 DEF Kept
<1> QED
  BY <1>6, <1>7, <1>9, <1>10

\* The elements of a union, each counted where it comes first.
LEMMA UnionCounted ==
    ASSUME NEW A, IsFiniteSet(A), NEW B, IsFiniteSet(B)
    PROVE  /\ IsFiniteSet(A \union B) /\ IsFiniteSet(B \ A)
           /\ Cardinality(A) \in Nat /\ Cardinality(B) \in Nat /\ Cardinality(B \ A) \in Nat
           /\ Cardinality(B \ A) <= Cardinality(B)
           /\ Cardinality(A \union B) = Cardinality(A) + Cardinality(B \ A)
<1>1. IsFiniteSet(B \ A) /\ Cardinality(B \ A) <= Cardinality(B)
  BY FS_Subset, B \ A \in SUBSET B
<1>2. A \union B = A \union (B \ A) /\ A \intersect (B \ A) = {}
  OBVIOUS
<1>3. Cardinality(A) \in Nat /\ Cardinality(B) \in Nat /\ Cardinality(B \ A) \in Nat
  BY <1>1, FS_CardinalityType
<1>4. /\ IsFiniteSet(A \union (B \ A))
      /\ Cardinality(A \union (B \ A))
            = Cardinality(A) + Cardinality(B \ A) - Cardinality(A \intersect (B \ A))
  BY <1>1, FS_Union
<1>5. Cardinality(A \intersect (B \ A)) = 0
  BY <1>2, FS_EmptySet
<1>6. Cardinality(A \union (B \ A)) = Cardinality(A) + Cardinality(B \ A)
  BY <1>3, <1>4, <1>5
<1>7. IsFiniteSet(A \union B) /\ Cardinality(A \union B) = Cardinality(A) + Cardinality(B \ A)
  BY <1>2, <1>4, <1>6, Zenon
<1> QED
  BY <1>1, <1>3, <1>7

LEMMA SelectBounds ==
    ASSUME TypeOK, TopKept, Select
    PROVE  CorpusBounded' /\ corpus' \subseteq Repos
<1> DEFINE P == Kept("popular")
           R == Kept("random")
           T == Kept("targeted")
           S == P \union R \union T
           E == AppendUnique(S, Extra, RepoCap - Cardinality(S))
<1>1. /\ IsFiniteSet(P) /\ IsFiniteSet(R) /\ IsFiniteSet(T)
      /\ P \subseteq Repos /\ R \subseteq Repos /\ T \subseteq Repos
      /\ Cardinality(P) \in Nat /\ Cardinality(P) <= Limits["popular"]
      /\ Cardinality(R) \in Nat /\ Cardinality(R) <= Limits["random"]
      /\ Cardinality(T) \in Nat /\ Cardinality(T) <= Limits["targeted"]
  BY KeptFits DEF Sources
<1>2. /\ Limits["popular"] \in Nat /\ Limits["random"] \in Nat /\ Limits["targeted"] \in Nat
      /\ RepoCap \in Nat
      /\ Limits["popular"] + Limits["random"] + Limits["targeted"] <= RepoCap
  BY CatalogAssumption DEF Sources
<1>3. corpus' = S \union E /\ composition' = Composition /\ Corpus = S \union E
  BY DEF Select, Corpus
<1>4. Composition = [popular |-> Cardinality(P), random |-> Cardinality(R \ P),
                     targeted |-> Cardinality(T \ (P \union R)),
                     extra |-> Cardinality((S \union E) \ (P \union (R \ P)
                                                \union (T \ (P \union (R \ P)))))]
  <2>1. P \union (R \ P) = P \union R
    OBVIOUS
  <2> QED
    BY <1>3, <2>1 DEF Composition
<1> HIDE DEF P, R, T
<1>5. /\ IsFiniteSet(P \union R) /\ Cardinality(P \union R) = Cardinality(P) + Cardinality(R \ P)
      /\ Cardinality(R \ P) \in Nat /\ Cardinality(R \ P) <= Cardinality(R)
  BY <1>1, UnionCounted
<1>6. /\ IsFiniteSet(S) /\ Cardinality(S) \in Nat
      /\ Cardinality(S) = Cardinality(P \union R) + Cardinality(T \ (P \union R))
      /\ Cardinality(T \ (P \union R)) \in Nat
      /\ Cardinality(T \ (P \union R)) <= Cardinality(T)
  <2>1. /\ IsFiniteSet(S)
        /\ Cardinality(S) = Cardinality(P \union R) + Cardinality(T \ (P \union R))
        /\ Cardinality(T \ (P \union R)) \in Nat
        /\ Cardinality(T \ (P \union R)) <= Cardinality(T)
    BY <1>1, <1>5, UnionCounted
  <2>2. Cardinality(S) \in Nat
    BY <2>1, FS_CardinalityType
  <2> QED
    BY <2>1, <2>2
<1> DEFINE limit == RepoCap - Cardinality(S)
<1>7. limit \in Nat
  BY <1>1, <1>2, <1>5, <1>6
<1>8. S \subseteq Repos
  BY <1>1
<1> HIDE DEF S
<1>9. /\ IsFiniteSet(E) /\ Cardinality(E) <= limit /\ E \subseteq Repos /\ E \intersect S = {}
      /\ \A i \in DOMAIN Extra : Extra[i] \in S \union E \/ Cardinality(E) = limit
  <2> HIDE DEF limit
  <2>1. E = AppendUnique(S, Extra, limit)
    BY DEF limit
  <2> HIDE DEF E
  <2> QED
    BY <1>7, <2>1, AppendUniqueFills, CatalogAssumption
<1> HIDE DEF E
<1>10. Cardinality(S \union E) = Cardinality(S) + Cardinality(E) /\ Cardinality(E) \in Nat
  <2>1. E \ S = E
    BY <1>9
  <2> QED
    BY <1>6, <1>9, <2>1, UnionCounted
<1>11. (S \union E) \ (P \union (R \ P) \union (T \ (P \union (R \ P)))) = E
  <2>1. P \union (R \ P) \union (T \ (P \union (R \ P))) = S
    BY DEF S
  <2> QED
    BY <1>9, <2>1
<1>12. Total(Composition) = Cardinality(S \union E)
  <2>1. Total(Composition) = Cardinality(P) + Cardinality(R \ P) + Cardinality(T \ (P \union R))
                             + Cardinality(E)
    BY <1>4, <1>11 DEF Total
  <2> QED
    BY <1>1, <1>5, <1>6, <1>10, <2>1
<1>13. Cardinality(S \union E) <= RepoCap
       /\ (Cardinality(E) = limit => Cardinality(S \union E) = RepoCap)
  BY <1>2, <1>6, <1>9, <1>10
<1>14. \A i \in DOMAIN Extra : Extra[i] \in S \union E \/ Cardinality(S \union E) = RepoCap
  BY <1>9, <1>13
<1>15. Total(composition') = Cardinality(corpus')
  BY <1>3, <1>12 DEF Total
<1>16. CorpusBounded'
  BY <1>3, <1>13, <1>14, <1>15 DEF CorpusBounded, Total
<1> QED
  BY <1>3, <1>8, <1>9, <1>16

-----------------------------------------------------------------------------
(* What is inspected and verified next *)

LEMMA CurrentIsPending ==
    ASSUME TypeOK, pending # {}
    PROVE  Current \in pending /\ Current \in Repos
<1>1. pending \in SUBSET Repos /\ pending \subseteq Int
  BY CatalogAssumption DEF TypeOK
<1>2. IsFiniteSet(pending)
  BY <1>1, CatalogAssumption, FS_Subset
<1>3. \E m \in pending : \A x \in pending : m <= x
  BY <1>1, <1>2, HasSmallest
<1> QED
  BY <1>1, <1>3 DEF Current, Min

LEMMA NextFileIsCandidate ==
    ASSUME TypeOK, Verifying
    PROVE  NextFile \in left /\ EligibleFile(NextFile)
<1> DEFINE C == Candidates
           f == [o \in C |-> Reported[o]]
<1>1. C \in SUBSET Occurrences /\ C # {} /\ IsFiniteSet(Occurrences)
  BY DigestAssumption DEF TypeOK, Verifying, Candidates
<1>2. IsFiniteSet(C)
  <2> HIDE DEF C
  <2> QED
    BY <1>1, FS_Subset
<1>3. \A o \in C : o \in Int /\ Reported[o] \in Int
  <2>1. \A o \in Occurrences : o \in Nat /\ Reported[o] \in Digests
    BY DigestAssumption, FileAssumption
  <2>2. \A d \in Digests : d \in Nat
    BY DigestAssumption
  <2> HIDE DEF C
  <2> QED
    BY <1>1, <2>1, <2>2
<1> HIDE DEF C
<1>4. PICK n \in C : \A m \in C : Reported[n] <= Reported[m]
  <2>1. DOMAIN f = C /\ \A o \in C : f[o] = Reported[o] /\ f[o] \in Int
    BY <1>3
  <2> HIDE DEF f
  <2>2. \E n \in C : \A m \in C : f[n] <= f[m]
    BY <1>1, <1>2, <2>1, HasLeastValue
  <2> QED
    BY <2>1, <2>2
<1> DEFINE L == {o \in C : Reported[o] = Reported[n]}
<1>5. L \in SUBSET C /\ L # {} /\ L \subseteq Int
  BY <1>3
<1> HIDE DEF L
<1>6. IsFiniteSet(L)
  BY <1>2, <1>5, FS_Subset
<1>7. PICK o \in L : \A x \in L : o <= x
  BY <1>5, <1>6, HasSmallest
<1>8. o \in C /\ \A x \in C : Reported[o] < Reported[x] \/ (Reported[o] = Reported[x] /\ o <= x)
  BY <1>3, <1>4, <1>7 DEF L
<1>9. NextFile \in C
  BY <1>8 DEF NextFile, C
<1> QED
  BY <1>9 DEF C, Candidates

LEMMA StoredIsIndex ==
    ASSUME TypeOK
    PROVE  IndexOf(stored) \in Index
BY DEF TypeOK, IndexOf, Index

-----------------------------------------------------------------------------
(* The invariant *)

LEMMA VerifiedFinite ==
    ASSUME TypeOK
    PROVE  IsFiniteSet(verified) /\ \A v \in verified : v.file \in Occurrences /\ Bytes(v) \in Nat
<1> DEFINE f == [v \in verified |-> <<v.file, IF v.result THEN 1 ELSE 2>>]
<1>1. verified \subseteq [file : Occurrences, result : BOOLEAN]
  BY DEF TypeOK
<1>2. f \in Injection(verified, Occurrences \X (1..2))
  <2>1. f \in [verified -> Occurrences \X (1..2)]
    BY <1>1
  <2>2. ASSUME NEW v \in verified, NEW w \in verified, f[v] = f[w] PROVE v = w
    <3>1. v.file = w.file /\ v.result = w.result
      BY <1>1, <2>2
    <3>2. /\ v = [file |-> v.file, result |-> v.result]
          /\ w = [file |-> w.file, result |-> w.result]
      BY <1>1
    <3> QED
      BY <3>1, <3>2
  <2>3. DOMAIN f = verified
    OBVIOUS
  <2> HIDE DEF f
  <2>4. \A v, w \in DOMAIN f : f[v] = f[w] => v = w
    BY <2>2, <2>3, Zenon
  <2>5. IsInjective(f)
    BY <2>4, Zenon DEF IsInjective
  <2> QED
    BY <2>1, <2>5, Zenon DEF Injection
<1> HIDE DEF f
<1>3. IsFiniteSet(1..2)
  <2> DEFINE n == 2
  <2>1. n \in Int
    OBVIOUS
  <2> HIDE DEF n
  <2>2. IsFiniteSet(1..n)
    BY <2>1, FS_Interval
  <2> QED
    BY <2>2 DEF n
<1>4. IsFiniteSet(Occurrences \X (1..2))
  BY <1>3, FS_Product, DigestAssumption
<1>5. IsFiniteSet(verified)
  BY <1>2, <1>4, FS_Injection
<1> QED
  BY <1>1, <1>5, FileAssumption DEF Bytes

\* Steps that download nothing.
LEMMA BudgetStays ==
    ASSUME BudgetInv, DownloadsBounded, UNCHANGED <<verified, bytes>>,
           verified = {} \/ left' \subseteq left,
           verified = {} \/ pc' = pc \/ pc' \in {"report", "ended"}
    PROVE  BudgetInv' /\ DownloadsBounded'
<1>1. UNCHANGED <<VerifiedBytes, Mismatches>>
  BY VerifiedIsSum DEF Mismatches
<1>2. BudgetInv'
  BY <1>1 DEF BudgetInv
<1>3. Mismatches # {} => verified # {}
  BY DEF Mismatches
<1> QED
  BY <1>1, <1>2, <1>3 DEF DownloadsBounded

\* Nothing downloaded is within every bound.
LEMMA NothingDownloaded ==
    /\ verified = {} /\ bytes = 0 => BudgetInv /\ DownloadsBounded
    /\ verified' = {} /\ bytes' = 0 => BudgetInv' /\ DownloadsBounded'
<1>1. Cardinality({}) = 0 /\ FileCap \in Nat /\ TotalCap \in Nat
  BY FS_EmptySet, FileAssumption
<1>2. \A n \in Nat : 0 <= n
  OBVIOUS
<1>3. verified = {} => VerifiedBytes = 0 /\ Mismatches = {}
  BY VerifiedIsSum, SumOfNone DEF Mismatches
<1>4. verified' = {} => VerifiedBytes' = 0 /\ Mismatches' = {}
  BY VerifiedIsSum, SumOfNone DEF Mismatches
<1>5. ASSUME verified = {}, bytes = 0 PROVE BudgetInv /\ DownloadsBounded
  BY <1>1, <1>2, <1>3, <1>5 DEF BudgetInv, DownloadsBounded
<1>6. ASSUME verified' = {}, bytes' = 0 PROVE BudgetInv' /\ DownloadsBounded'
  BY <1>1, <1>2, <1>4, <1>6 DEF BudgetInv, DownloadsBounded
<1> QED
  BY <1>5, <1>6

\* What is downloaded is eligible, and none of its digest was downloaded before.
LEMMA DownloadKeepsBounds ==
    ASSUME ProofInv, Download
    PROVE  BudgetInv' /\ DownloadsBounded'
<1> DEFINE new == [file |-> NextFile, result |-> Calculated[NextFile] = Reported[NextFile]]
<1>1. /\ verified' = verified \union {new} /\ left' = LeftAfter(NextFile)
      /\ bytes' = IF new.result THEN bytes + Size[NextFile] ELSE bytes
      /\ pc' = IF new.result THEN pc ELSE "report"
      /\ pc = "verify" /\ Cardinality(verified) < FileCap
  BY DEF Download, Verifying
<1>2. TypeOK /\ BudgetInv /\ DownloadsBounded
  BY DEF ProofInv
<1>3. NextFile \in left /\ EligibleFile(NextFile)
  BY <1>2, NextFileIsCandidate DEF Download, Candidates
<1>4. new.file = NextFile /\ new.result \in BOOLEAN
  OBVIOUS
<1> HIDE DEF new
<1>5. NextFile \in Occurrences /\ Bytes(new) = Size[NextFile] /\ Bytes(new) \in Nat
  BY <1>2, <1>3, <1>4, FileAssumption DEF TypeOK, Bytes
<1>6. IsFiniteSet(verified) /\ \A v \in verified : Bytes(v) \in Nat
  BY <1>2, VerifiedFinite
<1>7. \A v \in verified : Reported[v.file] # Reported[new.file]
  BY <1>2, <1>3, <1>4 DEF BudgetInv
<1>8. new \notin verified
  BY <1>7
<1>9. Mismatches = {} /\ bytes = VerifiedBytes
  BY <1>1, <1>2 DEF BudgetInv, DownloadsBounded
<1>10. VerifiedBytes \in Nat /\ VerifiedBytes' = Size[NextFile] + VerifiedBytes
  BY <1>1, <1>5, <1>6, <1>8, SumOfOneMore, VerifiedIsSum
<1>11. Mismatches' = IF new.result THEN {} ELSE {new}
  BY <1>1, <1>4, <1>9 DEF Mismatches
<1>12. BudgetInv'
  <2>1. Mismatches' = {} => bytes' = VerifiedBytes'
    BY <1>1, <1>5, <1>9, <1>10, <1>11
  <2>2. \A v \in verified' : \A o \in left' : Reported[v.file] # Reported[o]
    BY <1>1, <1>2, <1>4 DEF BudgetInv, LeftAfter
  <2> QED
    BY <2>1, <2>2 DEF BudgetInv
<1>13. VerifiedBytes' <= TotalCap
  <2>1. TotalCap \in Nat /\ bytes + Size[NextFile] <= TotalCap
    BY <1>3, FileAssumption DEF EligibleFile
  <2> QED
    BY <1>5, <1>9, <1>10, <2>1
<1>14. Cardinality(verified') <= FileCap
  <2>1. Cardinality(verified') = Cardinality(verified) + 1 /\ Cardinality(verified) \in Nat
    BY <1>1, <1>6, <1>8, FS_AddElement, FS_CardinalityType
  <2> QED
    BY <1>1, <2>1, FileAssumption
<1>15. \A v, w \in verified' : Reported[v.file] = Reported[w.file] => v = w
  BY <1>1, <1>2, <1>7 DEF DownloadsBounded
<1>16. Mismatches' # {} => Cardinality(Mismatches') = 1 /\ pc' \in {"report", "ended"}
  BY <1>1, <1>11, FS_Singleton
<1> QED
  BY <1>12, <1>13, <1>14, <1>15, <1>16 DEF DownloadsBounded

LEMMA InitInv == Init => ProofInv
<1> SUFFICES ASSUME Init PROVE ProofInv
  OBVIOUS
<1>1. TypeOK
  <2>1. CatalogLimit >= 0 /\ Len(<<>>) = 0 /\ <<>> \in Seq(Rows) /\ DOMAIN <<>> = {}
    BY CatalogAssumption
  <2>2. heaps \in [Sources -> SUBSET DOMAIN listed]
    BY DEF Init, NoHeaps
  <2>3. listed \in Seq(Rows) /\ Len(listed) <= CatalogLimit
    BY <2>1, CatalogAssumption DEF Init
  <2>4. DOMAIN found = {}
    BY <2>1 DEF Init
  <2> QED
    BY <2>2, <2>3, <2>4 DEF Init, TypeOK
<1>2. PhaseInv
  BY DEF Init, PhaseInv
<1>3. TopKept
  <2>1. EligibleRows = {}
    BY DEF Init, EligibleRows
  <2>2. \A s \in Sources : heaps[s] = {} /\ Cardinality({}) = 0 /\ Limits[s] \in Nat
    BY FS_EmptySet, CatalogAssumption DEF Init, NoHeaps
  <2> QED
    BY <2>1, <2>2 DEF TopKept
<1>4. CorpusBounded
  <2>1. Total(composition) = 0
    BY DEF Init, NoComposition, Total, Sources
  <2>2. Cardinality(corpus) = 0 /\ RepoCap \in Nat
    BY FS_EmptySet, CatalogAssumption DEF Init
  <2> QED
    BY <2>1, <2>2 DEF CorpusBounded, Init
<1>5. SiteIsInspected /\ PassedInv /\ StopsForCause
  BY DEF Init, SiteIsInspected, PassedInv, StopsForCause
<1>6. BudgetInv /\ DownloadsBounded
  BY NothingDownloaded DEF Init
<1> QED
  BY <1>1, <1>2, <1>3, <1>4, <1>5, <1>6 DEF ProofInv

LEMMA ListPreserves ==
    ASSUME ProofInv, ListRow
    PROVE  ProofInv'
<1>1. /\ UNCHANGED <<stored, pc, corpus, composition, pending, found, left, failed, verified, bytes>>
      /\ pc = "catalog"
  BY DEF ListRow, inspection, verification
<1>2. TopKept' /\ heaps' \in [Sources -> SUBSET DOMAIN listed']
      /\ listed' \in Seq(Rows) /\ Len(listed') <= CatalogLimit
  BY ListKeepsTop DEF ProofInv
<1>3. TypeOK'
  BY <1>1, <1>2 DEF ProofInv, TypeOK
<1>4. PhaseInv' /\ CorpusBounded' /\ SiteIsInspected'
  BY <1>1 DEF ProofInv, PhaseInv, CorpusBounded, SiteIsInspected
<1>5. PassedInv' /\ StopsForCause'
  BY <1>1 DEF PassedInv, StopsForCause
<1>6. BudgetInv' /\ DownloadsBounded'
  BY <1>1, BudgetStays DEF ProofInv
<1> QED
  BY <1>2, <1>3, <1>4, <1>5, <1>6 DEF ProofInv

\* Heaps that are empty keep what there is in no rows.
LEMMA NoRowsTop ==
    ASSUME listed' = <<>>, heaps' = NoHeaps
    PROVE  /\ TopKept' /\ heaps' \in [Sources -> SUBSET DOMAIN listed']
           /\ listed' \in Seq(Rows) /\ Len(listed') <= CatalogLimit
<1>1. EligibleRows' = {}
  BY DEF EligibleRows
<1>2. \A s \in Sources : heaps'[s] = {} /\ Cardinality({}) = 0 /\ Limits[s] \in Nat
  BY FS_EmptySet, CatalogAssumption DEF NoHeaps
<1>3. \A s \in Sources : Cardinality(heaps'[s]) <= Limits[s]
  <2>1. \A n \in Nat : 0 <= n
    OBVIOUS
  <2> QED
    BY <1>2, <2>1
<1>4. TopKept'
  BY <1>1, <1>2, <1>3 DEF TopKept
<1>5. heaps' \in [Sources -> SUBSET DOMAIN listed']
  BY DEF NoHeaps
<1> QED
  BY <1>4, <1>5, CatalogAssumption

LEMMA SelectPreserves ==
    ASSUME ProofInv, Select
    PROVE  ProofInv'
<1>1. /\ UNCHANGED <<stored, found, left, failed, verified, bytes>>
      /\ pc = "catalog" /\ pc' = "inspect" /\ pending' = corpus'
      /\ listed' = <<>> /\ heaps' = NoHeaps
  BY DEF Select, verification
<1>2. CorpusBounded' /\ corpus' \subseteq Repos
  BY SelectBounds DEF ProofInv
<1>3. found = <<>>
  BY <1>1 DEF ProofInv, PhaseInv
<1>4. TypeOK'
  <2>1. DOMAIN found' = {}
    BY <1>1, <1>3
  <2> QED
    BY <1>1, <1>2, <2>1, NoRowsTop DEF ProofInv, TypeOK
<1>5. PhaseInv' /\ SiteIsInspected' /\ PassedInv' /\ StopsForCause'
  BY <1>1 DEF ProofInv, PhaseInv, SiteIsInspected, PassedInv, StopsForCause
<1>6. BudgetInv' /\ DownloadsBounded'
  <2>1. verified = {}
    BY <1>1 DEF ProofInv, PhaseInv
  <2> QED
    BY <1>1, <2>1, BudgetStays DEF ProofInv
<1> QED
  BY <1>1, <1>2, <1>4, <1>5, <1>6, NoRowsTop DEF ProofInv

\* Steps after the selection leave what it has found.
LEMMA SelectionStays ==
    ASSUME ProofInv, UNCHANGED selection, pc # "catalog"
    PROVE  TopKept' /\ CorpusBounded'
<1>1. TopKept'
  BY DEF selection, ProofInv, TopKept, EligibleRows, Outranks
<1>2. CorpusBounded'
  BY DEF selection, ProofInv, CorpusBounded
<1> QED
  BY <1>1, <1>2

\* An inspection replaces the files of one repository and of no other.
LEMMA InspectPreserves ==
    ASSUME ProofInv, Inspect
    PROVE  ProofInv'
<1>1. PICK files \in Snapshots[Current] :
          /\ stored' = ReplaceFiles(Current, files)
          /\ found' = [r \in DOMAIN found \union {Current} |->
                          IF r = Current THEN files ELSE found[r]]
  BY DEF Inspect
<1>2. /\ UNCHANGED <<pc, listed, heaps, corpus, composition, left, failed, verified, bytes>>
      /\ UNCHANGED selection
      /\ pc = "inspect" /\ pending' = pending \ {Current}
  BY DEF Inspect, selection, verification
<1>3. Current \in pending /\ Current \in Repos
  BY CurrentIsPending DEF Inspect, ProofInv
<1>4. files \subseteq OfRepo(Current) /\ files \subseteq Occurrences
  BY <1>3, FileAssumption DEF OfRepo
<1>5. left = {} /\ failed = {} /\ verified = {}
  BY <1>2 DEF ProofInv, PhaseInv
<1>6. TypeOK'
  <2>1. stored' \subseteq Occurrences
    BY <1>1, <1>4 DEF ReplaceFiles, ProofInv, TypeOK
  <2>2. DOMAIN found' \subseteq corpus \ pending'
    BY <1>1, <1>2, <1>3 DEF ProofInv, TypeOK
  <2>3. \A r \in DOMAIN found' : found'[r] \in Snapshots[r]
    BY <1>1 DEF ProofInv, TypeOK
  <2> QED
    BY <1>2, <1>5, <2>1, <2>2, <2>3 DEF ProofInv, TypeOK
<1>7. PhaseInv'
  BY <1>2, <1>5 DEF ProofInv, PhaseInv
<1>8. SiteIsInspected'
  <2> SUFFICES ASSUME NEW r \in DOMAIN found' PROVE stored' \intersect OfRepo(r) = found'[r]
    BY DEF SiteIsInspected, OfRepo
  <2>1. CASE r = Current
    BY <1>1, <1>4, <2>1 DEF ReplaceFiles
  <2>2. CASE r # Current
    <3>1. r \in DOMAIN found /\ found'[r] = found[r]
      BY <1>1, <2>2
    <3>2. OfRepo(r) \intersect OfRepo(Current) = {}
      BY <2>2 DEF OfRepo
    <3> QED
      BY <1>1, <1>4, <3>1, <3>2 DEF ReplaceFiles, ProofInv, SiteIsInspected
  <2> QED
    BY <2>1, <2>2
<1>9. PassedInv' /\ StopsForCause'
  BY <1>2 DEF PassedInv, StopsForCause
<1>10. BudgetInv' /\ DownloadsBounded'
  BY <1>2, BudgetStays DEF ProofInv
<1> QED
  BY <1>2, <1>6, <1>7, <1>8, <1>9, <1>10, SelectionStays DEF ProofInv

\* Steps that neither inspect nor verify.
LEMMA PhasePreserves ==
    ASSUME ProofInv, InspectionError \/ Compile \/ MeasureLocalLookup \/ WriteReport
    PROVE  ProofInv'
<1>1. UNCHANGED <<stored, found, failed, verified, bytes>> /\ UNCHANGED selection
      /\ pc # "catalog" /\ pc' # "report"
  BY DEF InspectionError, Compile, MeasureLocalLookup, WriteReport, selection, inspection,
         verification
<1>2. /\ pending' \subseteq pending
      /\ left' = left \/ (left' = stored /\ pc = "measure")
      /\ pc' = "measure" => Compilable(IndexOf(stored))
      /\ pc' = "verify" => left' = stored
      /\ pc' \in {"inspect", "measure"} => pc = "inspect" /\ left' = left
      /\ pc' \in {"inspect", "measure", "verify", "ended"}
  BY DEF InspectionError, Compile, MeasureLocalLookup, WriteReport, inspection, verification
<1>3. TypeOK'
  <2>1. pc = "measure" => failed = {} /\ verified = {}
    BY DEF ProofInv, PhaseInv
  <2> QED
    BY <1>1, <1>2, <2>1 DEF ProofInv, TypeOK, selection
<1>4. PhaseInv'
  BY <1>1, <1>2 DEF ProofInv, PhaseInv
<1>5. SiteIsInspected' /\ PassedInv' /\ StopsForCause'
  BY <1>1, <1>2 DEF ProofInv, SiteIsInspected, PassedInv, StopsForCause
<1>6. BudgetInv' /\ DownloadsBounded'
  <2>1. verified = {} \/ (left' = left /\ pc' = "ended")
    BY DEF InspectionError, Compile, MeasureLocalLookup, WriteReport, verification,
           ProofInv, PhaseInv
  <2> QED
    BY <1>1, <2>1, BudgetStays DEF ProofInv
<1> QED
  BY <1>1, <1>3, <1>4, <1>5, <1>6, SelectionStays DEF ProofInv

\* What is too large, alone or with what was downloaded, stays so.
LEMMA TooLargeStays ==
    ASSUME TypeOK, bytes' \in Nat, bytes <= bytes', NEW o \in Occurrences, ~EligibleFile(o)
    PROVE  ~EligibleFile(o)'
<1>1. Size[o] \in Nat /\ TotalCap \in Nat /\ SizeCap \in Nat /\ bytes \in Nat
  BY FileAssumption DEF TypeOK
<1> QED
  BY <1>1 DEF EligibleFile

LEMMA VerifyPreserves ==
    ASSUME ProofInv, DownloadFails \/ Download \/ VerificationEnds
    PROVE  ProofInv'
<1>1. UNCHANGED <<stored, pending, found>> /\ UNCHANGED selection /\ pc = "verify"
  BY DEF DownloadFails, Download, VerificationEnds, Verifying, selection, inspection
<1>2. TypeOK /\ PassedInv
  BY DEF ProofInv
<1>3. SiteIsInspected'
  BY <1>1 DEF ProofInv, SiteIsInspected
<1>4. CASE VerificationEnds
  <2>1. UNCHANGED <<left, failed, verified, bytes>> /\ pc' = "report" /\ ~Verifying
    BY <1>4 DEF VerificationEnds, verification
  <2>2. TypeOK' /\ PhaseInv' /\ PassedInv'
    BY <1>1, <2>1 DEF ProofInv, TypeOK, PhaseInv, PassedInv, selection
  <2>3. StopsForCause'
    <3> SUFFICES ASSUME Mismatches = {}, StopError, NEW o \in stored
                 PROVE  \/ ~EligibleFile(o) \/ o \in failed
                        \/ \E v \in verified : Reported[v.file] = Reported[o]
      BY <1>1, <2>1 DEF StopsForCause, Mismatches, StopError, EligibleFile
    <3>1. Candidates = {}
      BY <1>1, <2>1 DEF Verifying, StopError
    <3>2. o \notin left \/ ~EligibleFile(o)
      BY <3>1 DEF Candidates
    <3> QED
      BY <1>1, <1>2, <3>2 DEF PassedInv
  <2> QED
    BY <1>1, <1>3, <2>1, <2>2, <2>3, SelectionStays, BudgetStays DEF ProofInv
<1>5. CASE DownloadFails
  <2>1. /\ failed' = failed \union {NextFile} /\ left' = left \ {NextFile}
        /\ UNCHANGED <<pc, verified, bytes>>
    BY <1>5 DEF DownloadFails, LeftAfterFailure
  <2>2. NextFile \in left
    BY <1>2, <1>5, NextFileIsCandidate DEF DownloadFails
  <2>3. TypeOK'
    BY <1>1, <1>2, <2>1, <2>2 DEF TypeOK, selection
  <2>4. PhaseInv' /\ StopsForCause'
    BY <1>1, <2>1 DEF PhaseInv, StopsForCause
  <2>5. PassedInv'
    BY <1>1, <1>2, <2>1 DEF PassedInv, EligibleFile
  <2> QED
    BY <1>1, <1>3, <2>1, <2>3, <2>4, <2>5, SelectionStays, BudgetStays DEF ProofInv
<1>6. CASE Download
  <2> DEFINE result == Calculated[NextFile] = Reported[NextFile]
             download == [file |-> NextFile, result |-> result]
  <2>1. /\ verified' = verified \union {download}
        /\ pc' = IF result THEN pc ELSE "report"
        /\ bytes' = IF result THEN bytes + Size[NextFile] ELSE bytes
        /\ left' = {x \in left : Reported[x] # Reported[NextFile]}
        /\ failed' = failed
    BY <1>6 DEF Download, LeftAfter
  <2>2. NextFile \in left /\ NextFile \in stored /\ NextFile \in Occurrences
    BY <1>2, <1>6, NextFileIsCandidate DEF Download, TypeOK
  <2>3. bytes' \in Nat /\ bytes <= bytes'
    <3>1. Size[NextFile] \in Nat /\ bytes \in Nat
      BY <1>2, <2>2, FileAssumption DEF TypeOK
    <3> QED
      BY <2>1, <3>1
  <2>4. result \in BOOLEAN /\ download.file = NextFile /\ download.result = result
    OBVIOUS
  <2> HIDE DEF result
  <2>5. TypeOK'
    <3>1. verified' \subseteq [file : stored \ left', result : BOOLEAN]
      BY <1>2, <2>1, <2>2, <2>4 DEF TypeOK
    <3>2. left' \subseteq stored /\ failed \subseteq stored \ left'
      BY <1>2, <2>1 DEF TypeOK
    <3>3. pc' \in {"verify", "report"}
      BY <1>1, <2>1
    <3> QED
      BY <1>1, <1>2, <2>1, <2>3, <3>1, <3>2, <3>3 DEF TypeOK, selection
  <2>6. PhaseInv'
    BY <1>1, <2>1 DEF PhaseInv
  <2>7. PassedInv'
    <3> SUFFICES ASSUME NEW o \in stored
                 PROVE  \/ o \in left' \/ ~EligibleFile(o)' \/ o \in failed'
                        \/ \E v \in verified' : Reported[v.file] = Reported[o]
      BY <1>1 DEF PassedInv
    <3>1. CASE o \in left
      BY <2>1, <2>4, <3>1
    <3>2. CASE ~EligibleFile(o)
      BY <1>2, <2>3, <3>2, TooLargeStays DEF TypeOK
    <3>3. CASE o \in failed \/ \E v \in verified : Reported[v.file] = Reported[o]
      BY <2>1, <3>3
    <3> QED
      BY <1>1, <1>2, <3>1, <3>2, <3>3 DEF PassedInv
  <2>8. StopsForCause'
    <3>1. pc' = "report" => ~result
      BY <1>1, <2>1
    <3>2. ~result => download \in Mismatches'
      BY <2>1, <2>4 DEF Mismatches
    <3> QED
      BY <3>1, <3>2 DEF StopsForCause
  <2> QED
    BY <1>1, <1>3, <1>6, <2>5, <2>6, <2>7, <2>8, SelectionStays, DownloadKeepsBounds
    DEF ProofInv
<1> QED
  BY <1>4, <1>5, <1>6

LEMMA AgainPreserves ==
    ASSUME ProofInv, Again
    PROVE  ProofInv'
<1>1. DOMAIN found' = {}
  BY DEF Again
<1>2. TopKept' /\ TypeOK'
  BY <1>1, NoRowsTop DEF Again, ProofInv, TypeOK
<1>3. CorpusBounded'
  <2>1. Total(composition') = 0
    BY DEF Again, NoComposition, Total, Sources
  <2>2. Cardinality(corpus') = 0 /\ RepoCap \in Nat
    BY FS_EmptySet, CatalogAssumption DEF Again
  <2> QED
    BY <2>1, <2>2 DEF CorpusBounded, Again, Total
<1>4. PhaseInv' /\ SiteIsInspected' /\ PassedInv' /\ StopsForCause'
  BY <1>1 DEF Again, PhaseInv, SiteIsInspected, PassedInv, StopsForCause
<1>5. BudgetInv' /\ DownloadsBounded'
  BY NothingDownloaded DEF Again
<1> QED
  BY <1>2, <1>3, <1>4, <1>5 DEF ProofInv

LEMMA StutterPreserves ==
    ASSUME ProofInv, UNCHANGED vars
    PROVE  ProofInv'
<1>1. /\ UNCHANGED <<stored, pc, listed, heaps, corpus, composition, pending, found>>
      /\ UNCHANGED <<left, failed, verified, bytes>>
  BY DEF vars, selection, inspection, verification
<1>2. TypeOK' /\ PhaseInv' /\ CorpusBounded' /\ SiteIsInspected'
  BY <1>1 DEF ProofInv, TypeOK, PhaseInv, CorpusBounded, SiteIsInspected
<1>3. TopKept'
  BY <1>1 DEF ProofInv, TopKept, EligibleRows, Outranks
<1>4. PassedInv' /\ StopsForCause'
  BY <1>1 DEF ProofInv, PassedInv, StopsForCause, EligibleFile, Mismatches, StopError
<1>5. BudgetInv' /\ DownloadsBounded'
  BY <1>1, BudgetStays DEF ProofInv
<1> QED
  BY <1>2, <1>3, <1>4, <1>5 DEF ProofInv

-----------------------------------------------------------------------------
(* Theorems *)

\* Selection, inspection and verification keep to what is said of them in every state of
\* every run, whatever the catalog lists and earlier runs left behind.
THEOREM ProofInvariance == Spec => []ProofInv
<1>1. ASSUME ProofInv, [Next]_vars
      PROVE  ProofInv'
  BY <1>1, ListPreserves, SelectPreserves, InspectPreserves, PhasePreserves, VerifyPreserves,
     AgainPreserves, StutterPreserves DEF Next
<1> QED
  BY <1>1, InitInv, PTL DEF Spec

\* However the catalog orders and repeats its rows, a source keeps the best of them
\* (_retain_pair and _retain_triple of catalog.py).
THEOREM SourcesKeepTop == Spec => []TopKept
<1>1. ProofInv => TopKept
  BY DEF ProofInv
<1> QED
  BY <1>1, ProofInvariance, PTL

\* The corpus keeps to its cap, counts every repository once, and leaves out an extra one
\* only when it is full (select_proof_corpus).
THEOREM CorpusKeepsCap == Spec => []CorpusBounded
<1>1. ProofInv => CorpusBounded
  BY DEF ProofInv
<1> QED
  BY <1>1, ProofInvariance, PTL

\* The site has what this run inspected, whatever the database held before
\* (_inspect_and_store and replace_repo).
THEOREM SiteHasInspected == Spec => []SiteIsInspected
<1>1. ProofInv => SiteIsInspected
  BY DEF ProofInv
<1> QED
  BY <1>1, ProofInvariance, PTL

\* A run gives up for want of verified files only when it has tried what there was
\* (_verify_small_files).
THEOREM StopsOnlyForCause == Spec => []StopsForCause
<1>1. ProofInv => StopsForCause
  BY DEF ProofInv
<1> QED
  BY <1>1, ProofInvariance, PTL

\* However many files there are, and of whatever sizes, verification stays within its caps,
\* downloads a digest once, and nothing after a mismatch (_verify_small_files).
THEOREM DownloadsStayBounded == Spec => []DownloadsBounded
<1>1. ProofInv => DownloadsBounded
  BY DEF ProofInv
<1> QED
  BY <1>1, ProofInvariance, PTL

\* Whatever a run has indexed, the client finds it in the compiled shards, and nothing else
\* (compile_site, and the bisection of client.py).
THEOREM LookupIsExact == Spec => []LookupExact
<1>1. ProofInv => LookupExact
  <2> SUFFICES ASSUME ProofInv, pc = "measure", NEW d \in Digests
               PROVE  SiteMatches(d) = Ascending(IndexOf(stored)[d])
    BY DEF LookupExact
  <2>1. Compilable(IndexOf(stored)) /\ IndexOf(stored) \in Index
    BY StoredIsIndex DEF ProofInv, PhaseInv
  <2>2. PrefixLength(IndexOf(stored)) \in PrefixLengths
    BY <2>1, PrefixLengthAllowed
  <2> QED
    BY <2>1, <2>2, LookupFinds DEF SiteMatches, SiteShard
<1> QED
  BY <1>1, ProofInvariance, PTL

\* The client accepts every shard of every prefix length (parse_shard).
THEOREM ShardsAlwaysParse == Spec => []ShardsParse
<1>1. ProofInv => ShardsParse
  <2>1. ProofInv => IndexOf(stored) \in Index
    BY StoredIsIndex DEF ProofInv
  <2> QED
    BY <2>1, ShardsAccepted DEF ShardsParse
<1> QED
  BY <1>1, ProofInvariance, PTL
=============================================================================
