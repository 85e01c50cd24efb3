-------------------------- MODULE ShardFormatProofs --------------------------
(***************************************************************************)
(* Proofs about the static index: whatever the digests, occurrences and    *)
(* prefix lengths, a client finds in a compiled shard what the index has.  *)
(* What needs an induction over a set is proved by its least counter-      *)
(* example, which the strict subset ordering of a finite set provides.     *)
(***************************************************************************)
EXTENDS ShardFormat, FiniteSetTheorems, TLAPS

-----------------------------------------------------------------------------
(* Finite sets of numbers *)

\* A set of T of which no other subset is in T.
Minimal(X, T) == X \in T /\ \A Y \in T : Y \subseteq X => Y = X

\* Among sets of subsets of a finite set there is a minimal one.
LEMMA MinimalSubset ==
    ASSUME NEW S, IsFiniteSet(S), NEW T \in SUBSET SUBSET S, NEW Z \in T
    PROVE  \E X : Minimal(X, T)
<1> DEFINE R == StrictSubsetOrdering(S)
<1>1. IsWellFoundedOn(R, SUBSET S)
  BY FS_StrictSubsetOrderingWellFounded, FS_FiniteSubsetsOfFinite
<1> HIDE DEF R
<1>2. PICK X \in T : \A Y \in T : ~(<<Y, X>> \in R)
  BY <1>1, WFMin
<1>3. ASSUME NEW Y \in T, Y \subseteq X, Y # X
      PROVE  FALSE
  BY <1>2, <1>3 DEF R, StrictSubsetOrdering
<1> QED
  BY <1>2, <1>3 DEF Minimal

\* A finite set of numbers has a largest one.
LEMMA HasLargest ==
    ASSUME NEW S, IsFiniteSet(S), S \subseteq Int, S # {}
    PROVE  \E m \in S : \A x \in S : x <= m
<1> DEFINE Bounded(X) == \E m \in X : \A x \in X : x <= m
           T == {X \in SUBSET S : X # {} /\ ~Bounded(X)}
<1> SUFFICES ASSUME ~Bounded(S) PROVE FALSE
  OBVIOUS
<1>0. T \in SUBSET SUBSET S /\ S \in T
  OBVIOUS
<1>1. PICK X : Minimal(X, T)
  <2> HIDE DEF T
  <2> QED
    BY <1>0, MinimalSubset
<1>2. X \in SUBSET S /\ X # {} /\ ~Bounded(X)
  BY <1>1 DEF Minimal
<1>3. PICK a \in X : TRUE
  BY <1>2
<1>4. CASE X \ {a} = {}
  <2>1. \A x \in X : x = a
    BY <1>4
  <2>2. a \in Int
    BY <1>2, <1>3
  <2>3. Bounded(X)
    BY <1>3, <2>1, <2>2
  <2> QED
    BY <1>2, <2>3
<1>5. CASE X \ {a} # {}
  <2>1. X \ {a} \notin T
    <3> HIDE DEF T
    <3> QED
      BY <1>1, <1>3 DEF Minimal
  <2>2. X \ {a} \in SUBSET S
    BY <1>2
  <2>3. PICK m \in X \ {a} : \A x \in X \ {a} : x <= m
    BY <1>5, <2>1, <2>2
  <2>4. a \in Int /\ m \in Int /\ \A x \in X : x \in Int
    BY <1>2, <1>3
  <2>5. CASE a <= m
    <3>1. \A x \in X : x <= m
      BY <2>3, <2>5
    <3> QED
      BY <1>2, <3>1
  <2>6. CASE m <= a
    <3>1. \A x \in X : x <= a
      BY <2>3, <2>4, <2>6
    <3> QED
      BY <1>2, <1>3, <3>1
  <2> QED
    BY <2>4, <2>5, <2>6
<1> QED
  BY <1>4, <1>5

\* A sorted enumeration, as Ascending chooses one.
Enumerates(s, S) ==
    /\ s \in [1..Cardinality(S) -> S]
    /\ Increasing(s)
    /\ \A x \in S : \E i \in DOMAIN s : s[i] = x

\* The largest number is put behind an enumeration of the others.
LEMMA Extends ==
    ASSUME NEW X, IsFiniteSet(X), X \subseteq Int, NEW m \in X, \A x \in X : x <= m,
           NEW s, Enumerates(s, X \ {m})
    PROVE  \E t : Enumerates(t, X)
<1> DEFINE n == Cardinality(X)
           t == [i \in 1..n |-> IF i = n THEN m ELSE s[i]]
<1>1. n \in Nat /\ n > 0 /\ Cardinality(X \ {m}) = n - 1
  <2>1. IsFiniteSet(X \ {m}) /\ Cardinality(X \ {m}) = n - 1
    BY FS_RemoveElement
  <2>2. n \in Nat /\ Cardinality(X \ {m}) \in Nat
    BY <2>1, FS_CardinalityType
  <2> QED
    BY <2>1, <2>2
<1> HIDE DEF n
<1>2. s \in [1..(n - 1) -> X \ {m}]
  BY <1>1 DEF Enumerates
<1>3. t \in [1..n -> X]
  BY <1>1, <1>2
<1>4. Increasing(t)
  <2> SUFFICES ASSUME NEW i \in 1..n, NEW j \in 1..n, i < j PROVE t[i] < t[j]
    BY DEF Increasing
  <2>1. i \in 1..(n - 1) /\ t[i] = s[i] /\ s[i] \in X \ {m}
    BY <1>1, <1>2
  <2>2. CASE j = n
    <3>1. t[j] = m
      BY <2>2
    <3>2. s[i] \in Int /\ m \in Int /\ s[i] <= m /\ s[i] # m
      BY <2>1
    <3> QED
      BY <2>1, <3>1, <3>2
  <2>3. CASE j # n
    <3>1. j \in 1..(n - 1) /\ t[j] = s[j]
      BY <1>1, <2>3
    <3>2. s[i] < s[j]
      BY <1>2, <2>1, <3>1 DEF Enumerates, Increasing
    <3> QED
      BY <2>1, <3>1, <3>2
  <2> QED
    BY <2>2, <2>3
<1>5. ASSUME NEW x \in X PROVE \E i \in DOMAIN t : t[i] = x
  <2>1. CASE x = m
    BY <1>1, <2>1
  <2>2. CASE x # m
    <3>1. PICK i \in DOMAIN s : s[i] = x
      BY <2>2 DEF Enumerates
    <3>2. i \in 1..n /\ i # n
      BY <1>1, <1>2, <3>1
    <3> QED
      BY <3>1, <3>2
  <2> QED
    BY <2>1, <2>2
<1> QED
  BY <1>3, <1>4, <1>5 DEF Enumerates, n

\* Every finite set of numbers can be sorted.
LEMMA CanBeSorted ==
    ASSUME NEW S, IsFiniteSet(S), S \subseteq Int
    PROVE  \E s : Enumerates(s, S)
<1> DEFINE Sortable(X) == \E s : Enumerates(s, X)
           T == {X \in SUBSET S : ~Sortable(X)}
<1> SUFFICES ASSUME ~Sortable(S) PROVE FALSE
  OBVIOUS
<1>0. T \in SUBSET SUBSET S /\ S \in T
  OBVIOUS
<1>1. PICK X : Minimal(X, T)
  <2> HIDE DEF T
  <2> QED
    BY <1>0, MinimalSubset
<1>2. X \in SUBSET S /\ ~Sortable(X)
  BY <1>1 DEF Minimal
<1>3. IsFiniteSet(X) /\ X \subseteq Int
  BY <1>2, FS_Subset
<1>4. CASE X = {}
  <2> DEFINE s == [i \in 1..0 |-> 0]
  <2>1. Cardinality(X) = 0
    BY <1>4, FS_EmptySet
  <2>2. Enumerates(s, X)
    BY <1>4, <2>1 DEF Enumerates, Increasing
  <2> QED
    BY <1>2, <2>2
<1>5. CASE X # {}
  <2>1. PICK m \in X : \A x \in X : x <= m
    BY <1>3, <1>5, HasLargest
  <2>2. X \ {m} \notin T
    <3> HIDE DEF T
    <3> QED
      BY <1>1, <2>1 DEF Minimal
  <2>3. X \ {m} \in SUBSET S
    BY <1>2
  <2>4. PICK s : Enumerates(s, X \ {m})
    BY <2>2, <2>3
  <2>5. \E t : Enumerates(t, X)
    BY <1>3, <2>1, <2>4, Extends
  <2> QED
    BY <1>2, <2>5
<1> QED
  BY <1>4, <1>5

\* What sort() returns: all elements, each once, in order.
LEMMA AscendingEnumerates ==
    ASSUME NEW S, IsFiniteSet(S), S \subseteq Int
    PROVE  Enumerates(Ascending(S), S)
<1>1. PICK s : Enumerates(s, S)
  BY CanBeSorted
<1> QED
  BY <1>1 DEF Ascending, Enumerates

\* A finite set of numbers has a smallest one.
LEMMA HasSmallest ==
    ASSUME NEW S, IsFiniteSet(S), S \subseteq Int, S # {}
    PROVE  \E m \in S : \A x \in S : m <= x
<1>1. PICK s : Enumerates(s, S)
  BY CanBeSorted
<1>2. Cardinality(S) \in Nat /\ Cardinality(S) # 0
  BY FS_CardinalityType, FS_EmptySet
<1>3. s[1] \in S /\ 1 \in DOMAIN s
  BY <1>1, <1>2 DEF Enumerates
<1>4. ASSUME NEW x \in S PROVE s[1] <= x
  <2>1. PICK i \in DOMAIN s : s[i] = x
    BY <1>1 DEF Enumerates
  <2>2. i \in 1..Cardinality(S)
    BY <1>1 DEF Enumerates
  <2>3. CASE i = 1
    <3>1. s[1] \in Int /\ s[1] = x
      BY <1>3, <2>1, <2>3
    <3> QED
      BY <3>1
  <2>4. CASE i # 1
    <3>1. s[1] < s[i]
      BY <1>1, <1>2, <1>3, <2>2, <2>4 DEF Enumerates, Increasing
    <3>2. s[1] \in Int /\ s[i] \in Int
      BY <1>3, <2>1
    <3> QED
      BY <2>1, <3>1, <3>2
  <2> QED
    BY <2>3, <2>4
<1> QED
  BY <1>3, <1>4

-----------------------------------------------------------------------------
(* Digests, prefixes and suffixes *)

\* "Build the shallowest prefix partition that keeps every shard bounded"
\* (shard_format.py:205): the prefix length that is chosen is one the format allows, no
\* shard of the site is larger than MAX_SHARD_BYTES, and at every shorter length one is.
LEMMA ShallowestThatFits ==
    ASSUME NEW index, Compilable(index)
    PROVE  /\ PrefixLength(index) \in PrefixLengths
           /\ \A prefix \in Prefixes(PrefixLength(index)) :
                 ShardSize(Shard(index, prefix)) <= MaxShardSize
           /\ \A k \in PrefixLengths : k < PrefixLength(index) =>
                 \E prefix \in Prefixes(k) : ~(ShardSize(Shard(index, prefix)) <= MaxShardSize)
<1> DEFINE K == {k \in PrefixLengths : Fits(index, k)}
<1>1. PrefixLength(index) = Min(K)
  BY DEF PrefixLength
<1>2. K # {} /\ K \subseteq Int
  BY PrefixAssumption DEF Compilable, PrefixLengths
<1>3. IsFiniteSet(K)
  <2>1. IsFiniteSet(PrefixLengths)
    BY PrefixAssumption, FS_Interval DEF PrefixLengths
  <2>2. K \in SUBSET PrefixLengths
    OBVIOUS
  <2> HIDE DEF K
  <2> QED
    BY <2>1, <2>2, FS_Subset
<1>4. Min(K) \in K /\ \A k \in K : Min(K) <= k
  <2> HIDE DEF K
  <2>1. \E m \in K : \A k \in K : m <= k
    BY <1>2, <1>3, HasSmallest
  <2> QED
    BY <2>1 DEF Min
<1>5. \A k \in PrefixLengths : k < Min(K) => ~Fits(index, k)
  BY <1>2, <1>4
<1> QED
  BY <1>1, <1>4, <1>5 DEF Fits

LEMMA PrefixLengthAllowed ==
    ASSUME NEW index, Compilable(index)
    PROVE  PrefixLength(index) \in PrefixLengths
BY ShallowestThatFits

\* A number is put together again from quotient and remainder.
LEMMA DivisionRejoins ==
    ASSUME NEW d \in Nat, NEW m \in Nat \ {0}
    PROVE  /\ d \div m \in Nat
           /\ d % m \in 0..(m - 1)
           /\ (d \div m) * m + (d % m) = d
<1>1. d \div m \in Nat
  OBVIOUS
<1>2. d % m \in Nat /\ d % m < m
  OBVIOUS
<1>3. (d \div m) * m + (d % m) = d
  OBVIOUS
<1> QED
  BY <1>1, <1>2, <1>3

\* A digest is the one its prefix and suffix lead back to.
LEMMA PrefixAndSuffix ==
    ASSUME NEW k \in PrefixLengths, NEW d \in Digests
    PROVE  /\ PrefixOf(d, k).digits = k
           /\ SuffixOf(d, k) \in Nat
           /\ SuffixOf(d, k) < Shared[k]
           /\ Joined(PrefixOf(d, k), SuffixOf(d, k)) = d
<1>1. d \in Nat /\ Shared[k] \in Nat \ {0}
  BY DigestAssumption, PrefixAssumption
<1>2. /\ d % Shared[k] \in 0..(Shared[k] - 1)
      /\ (d \div Shared[k]) * Shared[k] + (d % Shared[k]) = d
  BY <1>1, DivisionRejoins
<1>3. PrefixOf(d, k) = [digits |-> k, value |-> d \div Shared[k]] /\ SuffixOf(d, k) = d % Shared[k]
  BY DEF PrefixOf, SuffixOf
<1>4. Joined(PrefixOf(d, k), SuffixOf(d, k)) = (d \div Shared[k]) * Shared[k] + (d % Shared[k])
  BY <1>3 DEF Joined
<1>5. SuffixOf(d, k) \in 0..(Shared[k] - 1)
  BY <1>2, <1>3
<1>6. SuffixOf(d, k) \in Nat /\ SuffixOf(d, k) < Shared[k]
  BY <1>1, <1>5
<1> QED
  BY <1>2, <1>3, <1>4, <1>6

\* The suffixes the records of a shard are made for.
Suffixes(index, prefix) == {SuffixOf(d, prefix.digits) : d \in Partition(index, prefix)}

\* They are numbers within the length that is left, and can be sorted.
LEMMA SuffixesSorted ==
    ASSUME NEW index, NEW k \in PrefixLengths, NEW prefix \in Prefixes(k)
    PROVE  /\ Suffixes(index, prefix) \subseteq 0..(Shared[k] - 1)
           /\ Enumerates(Ascending(Suffixes(index, prefix)), Suffixes(index, prefix))
           /\ Cardinality(Suffixes(index, prefix)) \in Nat
<1>1. prefix.digits = k
  BY PrefixAndSuffix DEF Prefixes
<1>2. ASSUME NEW d \in Partition(index, prefix)
      PROVE  SuffixOf(d, k) \in 0..(Shared[k] - 1)
  <2>1. d \in Digests
    BY DEF Partition
  <2>2. Shared[k] \in Nat
    BY PrefixAssumption
  <2> QED
    BY <2>1, <2>2, PrefixAndSuffix
<1>3. Suffixes(index, prefix) \subseteq 0..(Shared[k] - 1)
  BY <1>1, <1>2 DEF Suffixes
<1>4. IsFiniteSet(0..(Shared[k] - 1))
  BY PrefixAssumption, FS_Interval
<1>5. IsFiniteSet(Suffixes(index, prefix)) /\ Suffixes(index, prefix) \subseteq Int
  <2>1. Suffixes(index, prefix) \in SUBSET (0..(Shared[k] - 1))
    BY <1>3
  <2>2. IsFiniteSet(Suffixes(index, prefix))
    BY <1>4, <2>1, FS_Subset
  <2>3. 0..(Shared[k] - 1) \subseteq Int
    OBVIOUS
  <2> QED
    BY <1>3, <2>2, <2>3
<1> QED
  BY <1>3, <1>5, AscendingEnumerates, FS_CardinalityType

\* What a list of n records is for a prefix of k digits: one record for each suffix, in
\* order, with the occurrences of its digest.
Lists(records, n, index, prefix, k) ==
    /\ n \in Nat /\ DOMAIN records = 1..n /\ Len(records) = n
    /\ \A i \in 1..n :
          /\ records[i].suffix \in Suffixes(index, prefix)
          /\ records[i].suffix \in 0..(Shared[k] - 1)
          /\ records[i].occurrences = Ascending(index[Joined(prefix, records[i].suffix)])
    /\ \A i, j \in 1..n : i < j => records[i].suffix < records[j].suffix
    /\ \A x \in Suffixes(index, prefix) : \E i \in 1..n : records[i].suffix = x

\* The records compile_site writes are such a list.
LEMMA RecordsListed ==
    ASSUME NEW index, NEW k \in PrefixLengths, NEW prefix \in Prefixes(k)
    PROVE  \E n : Lists(Records(index, prefix), n, index, prefix, k)
<1> DEFINE S == Suffixes(index, prefix)
           n == Cardinality(S)
           suffixes == Ascending(S)
           records == Records(index, prefix)
<1>1. Enumerates(suffixes, S) /\ n \in Nat /\ S \subseteq 0..(Shared[k] - 1)
  BY SuffixesSorted
<1>2. records = [i \in DOMAIN suffixes |->
                    [suffix |-> suffixes[i],
                     occurrences |-> Ascending(index[Joined(prefix, suffixes[i])])]]
  BY DEF Records, Suffixes
<1> HIDE DEF records, suffixes, S
<1>3. DOMAIN suffixes = 1..n /\ \A i \in 1..n : suffixes[i] \in S
  BY <1>1 DEF Enumerates
<1>4. /\ DOMAIN records = 1..n
      /\ \A i \in 1..n :
            /\ records[i].suffix = suffixes[i]
            /\ records[i].occurrences = Ascending(index[Joined(prefix, suffixes[i])])
  BY <1>2, <1>3
<1>5. Len(records) = n
  BY <1>1, <1>2, <1>3
<1>6. \A i, j \in 1..n : i < j => suffixes[i] < suffixes[j]
  BY <1>1, <1>3 DEF Enumerates, Increasing
<1>7. \A x \in S : \E i \in 1..n : suffixes[i] = x
  BY <1>1, <1>3 DEF Enumerates
<1>8. Lists(records, n, index, prefix, k)
  BY <1>1, <1>3, <1>4, <1>5, <1>6, <1>7 DEF Lists, S
<1> QED
  BY <1>8 DEF records

-----------------------------------------------------------------------------
(* What a client reads is what was compiled *)

\* Every shard compile_site writes passes the checks of parse_shard.
THEOREM ShardsAccepted ==
    ASSUME NEW index \in Index, NEW k \in PrefixLengths, NEW prefix \in Prefixes(k)
    PROVE  Accepted(Shard(index, prefix), prefix)
<1> DEFINE records == Records(index, prefix)
<1>1. prefix.digits = k
  BY PrefixAndSuffix DEF Prefixes
<1>2. Shard(index, prefix).prefix = prefix /\ Shard(index, prefix).records = records
  BY DEF Shard
<1>3. PICK n : Lists(records, n, index, prefix, k)
  BY RecordsListed
<1> HIDE DEF records
<1>4. \A i \in 1..n : records[i].suffix < Shared[k]
  <2>1. Shared[k] \in Nat
    BY PrefixAssumption
  <2> QED
    BY <1>3, <2>1 DEF Lists
<1>5. ASSUME NEW m \in 1..n, NEW i \in DOMAIN records[m].occurrences,
             NEW j \in DOMAIN records[m].occurrences, i < j
      PROVE  records[m].occurrences[i] <= records[m].occurrences[j]
  <2>1. PICK d \in Digests : records[m].occurrences = Ascending(index[d])
    <3>1. PICK d \in Partition(index, prefix) : SuffixOf(d, k) = records[m].suffix
      BY <1>1, <1>3 DEF Lists, Suffixes
    <3>2. d \in Digests /\ PrefixOf(d, k) = prefix
      BY <1>1 DEF Partition
    <3>3. Joined(prefix, records[m].suffix) = d
      BY <3>1, <3>2, PrefixAndSuffix
    <3>4. records[m].occurrences = Ascending(index[Joined(prefix, records[m].suffix)])
      BY <1>3 DEF Lists
    <3> QED
      BY <3>2, <3>3, <3>4
  <2>2. index[d] \in SUBSET Occurrences
    BY DEF Index
  <2>3. IsFiniteSet(index[d]) /\ index[d] \subseteq Int
    <3>1. IsFiniteSet(index[d])
      BY <2>2, DigestAssumption, FS_Subset
    <3>2. Occurrences \subseteq Int
      BY DigestAssumption
    <3> QED
      BY <2>2, <3>1, <3>2
  <2>4. Enumerates(Ascending(index[d]), index[d])
    BY <2>3, AscendingEnumerates
  <2>5. Ascending(index[d])[i] < Ascending(index[d])[j]
    BY <1>5, <2>1, <2>4 DEF Enumerates, Increasing
  <2>6. Ascending(index[d])[i] \in Int /\ Ascending(index[d])[j] \in Int
    BY <2>1, <2>3, <2>4 DEF Enumerates
  <2> QED
    BY <2>1, <2>5, <2>6
<1>6. DOMAIN records = 1..n /\ \A i, j \in 1..n : i < j => records[i].suffix < records[j].suffix
  BY <1>3 DEF Lists
<1> QED
  BY <1>1, <1>2, <1>4, <1>5, <1>6 DEF Accepted

\* The insertion point p has everything smaller than x before it and nothing behind it.
Divides(p, records, n, x) ==
    /\ p \in 1..(n + 1)
    /\ \A j \in 1..(p - 1) : records[j].suffix < x
    /\ \A j \in p..n : records[j].suffix >= x

\* Bisection of records in order finds it.
LEMMA PositionFound ==
    ASSUME NEW n \in Nat, NEW records, DOMAIN records = 1..n, Len(records) = n,
           \A i \in 1..n : records[i].suffix \in Int,
           \A i, j \in 1..n : i < j => records[i].suffix < records[j].suffix,
           NEW x \in Int
    PROVE  Divides(Position(records, x), records, n, x)
<1> DEFINE C == {i \in 1..(n + 1) : \A j \in 1..(i - 1) : records[j].suffix < x}
<1>1. 1 \in C
  OBVIOUS
<1>2. IsFiniteSet(C) /\ C \subseteq Int
  <2>1. IsFiniteSet(1..(n + 1))
    BY FS_Interval
  <2>2. C \in SUBSET (1..(n + 1))
    OBVIOUS
  <2> HIDE DEF C
  <2>3. IsFiniteSet(C)
    BY <2>1, <2>2, FS_Subset
  <2> QED
    BY <2>2, <2>3
<1>3. PICK m \in C : \A i \in C : i <= m
  <2> HIDE DEF C
  <2> QED
    BY <1>1, <1>2, HasLargest
<1>4. m \in 1..(n + 1) /\ \A j \in 1..(m - 1) : records[j].suffix < x
  BY <1>3
<1>5. ASSUME m <= n PROVE records[m].suffix >= x
  <2> SUFFICES ASSUME records[m].suffix < x PROVE FALSE
    BY <1>4, <1>5
  <2>1. m + 1 \in 1..(n + 1)
    BY <1>4, <1>5
  <2>2. \A j \in 1..((m + 1) - 1) : records[j].suffix < x
    BY <1>4
  <2>3. m + 1 \in C
    BY <2>1, <2>2
  <2> HIDE DEF C
  <2>4. m + 1 <= m
    BY <1>3, <2>3
  <2> QED
    BY <1>4, <2>4
<1>6. ASSUME NEW j \in m..n PROVE records[j].suffix >= x
  <2>1. m \in 1..n /\ j \in 1..n
    BY <1>4
  <2>2. CASE j = m
    BY <1>5, <2>1, <2>2
  <2>3. CASE j # m
    <3>1. records[m].suffix < records[j].suffix
      BY <2>1, <2>3
    <3> QED
      BY <1>5, <2>1, <3>1
  <2> QED
    BY <2>2, <2>3
<1> HIDE DEF C
<1>7. \E i \in 1..(Len(records) + 1) :
          /\ \A j \in 1..(i - 1) : records[j].suffix < x
          /\ \A j \in i..Len(records) : records[j].suffix >= x
  BY <1>4, <1>6
<1> QED
  BY <1>7 DEF Position, Divides

\* A lookup in the shard of a digest's prefix returns exactly its occurrences, in order.
THEOREM LookupFinds ==
    ASSUME NEW index \in Index, NEW k \in PrefixLengths, NEW d \in Digests
    PROVE  Matches(Shard(index, PrefixOf(d, k)), SuffixOf(d, k)) = Ascending(index[d])
<1> DEFINE prefix == PrefixOf(d, k)
           x == SuffixOf(d, k)
           S == Suffixes(index, prefix)
           records == Records(index, prefix)
           p == Position(records, x)
<1>1. prefix \in Prefixes(k) /\ prefix.digits = k
  BY PrefixAndSuffix DEF Prefixes
<1>2. x \in Nat /\ Joined(prefix, x) = d
  BY PrefixAndSuffix
<1>3. Shard(index, prefix).records = records
  BY DEF Shard
<1>10. PICK n : Lists(records, n, index, prefix, k)
  BY <1>1, RecordsListed
<1>4. /\ n \in Nat
      /\ DOMAIN records = 1..n /\ Len(records) = n
      /\ \A i \in 1..n :
            /\ records[i].suffix \in S
            /\ records[i].suffix \in Int
            /\ records[i].occurrences = Ascending(index[Joined(prefix, records[i].suffix)])
      /\ \A i, j \in 1..n : i < j => records[i].suffix < records[j].suffix
      /\ \A y \in S : \E i \in 1..n : records[i].suffix = y
  <2> HIDE DEF records, prefix
  <2> QED
    BY <1>10 DEF Lists
<1>5. index[d] # {} <=> x \in S
  <2>1. ASSUME index[d] # {} PROVE x \in S
    BY <1>1, <2>1 DEF Suffixes, Partition
  <2>2. ASSUME x \in S PROVE index[d] # {}
    <3>1. PICK e \in Partition(index, prefix) : SuffixOf(e, k) = x
      BY <1>1, <2>2 DEF Suffixes
    <3>2. e \in Digests /\ PrefixOf(e, k) = prefix /\ index[e] # {}
      BY <1>1 DEF Partition
    <3>3. e = d
      BY <1>2, <3>1, <3>2, PrefixAndSuffix
    <3> QED
      BY <3>2, <3>3
  <2> QED
    BY <2>1, <2>2
<1> HIDE DEF prefix, x, S, records
<1>6. /\ p \in 1..(n + 1)
      /\ \A j \in 1..(p - 1) : records[j].suffix < x
      /\ \A j \in p..n : records[j].suffix >= x
  <2>1. x \in Int
    BY <1>2
  <2>2. Divides(p, records, n, x)
    BY <1>4, <2>1, PositionFound
  <2> QED
    BY <2>2 DEF Divides
<1> HIDE DEF p
<1>7. Matches(Shard(index, prefix), x) =
          IF p = n + 1 \/ records[p].suffix # x THEN <<>> ELSE records[p].occurrences
  BY <1>3, <1>4 DEF Matches, p
<1>8. CASE index[d] = {}
  <2>1. Ascending({}) = <<>>
    <3>1. IsFiniteSet({}) /\ Cardinality({}) = 0
      BY FS_EmptySet
    <3>2. Enumerates(Ascending({}), {})
      BY <3>1, AscendingEnumerates
    <3> QED
      BY <3>1, <3>2 DEF Enumerates
  <2>2. p = n + 1 \/ records[p].suffix # x
    BY <1>4, <1>5, <1>6, <1>8
  <2> QED
    BY <1>7, <1>8, <2>1, <2>2 DEF prefix, x
<1>9. CASE index[d] # {}
  <2>1. PICK i \in 1..n : records[i].suffix = x
    BY <1>4, <1>5, <1>9
  <2>2. p <= i
    <3>1. ASSUME i < p PROVE FALSE
      <4>1. i \in 1..(p - 1)
        BY <1>4, <1>6, <3>1
      <4> QED
        BY <1>2, <1>6, <2>1, <4>1
    <3> QED
      BY <1>4, <1>6, <3>1
  <2>3. i = p
    <3>1. ASSUME p < i PROVE FALSE
      <4>1. p \in 1..n /\ p \in p..n
        BY <1>4, <1>6, <3>1
      <4>2. records[p].suffix < records[i].suffix
        BY <1>4, <3>1, <4>1
      <4>3. records[p].suffix >= x /\ records[p].suffix \in Int
        BY <1>4, <1>6, <4>1
      <4> QED
        BY <1>2, <2>1, <4>2, <4>3
    <3> QED
      BY <1>4, <1>6, <2>2, <3>1
  <2>4. p # n + 1 /\ records[p].suffix = x
    BY <1>4, <2>1, <2>3
  <2>5. records[p].occurrences = Ascending(index[d])
    BY <1>2, <1>4, <2>1, <2>3
  <2> QED
    BY <1>7, <2>4, <2>5 DEF prefix, x
<1> QED
  BY <1>8, <1>9

\* The i-th record of a shard, and the digest it is for.
Place(index, k, prefix, i) ==
    prefix \in Prefixes(k) /\ i \in DOMAIN Records(index, prefix)

DigestAt(index, prefix, i) == Joined(prefix, Records(index, prefix)[i].suffix)

\* A record is that of a digest of its partition.
LEMMA RecordOfDigest ==
    ASSUME NEW index, NEW k \in PrefixLengths, NEW prefix, NEW i, Place(index, k, prefix, i)
    PROVE  /\ DigestAt(index, prefix, i) \in Partition(index, prefix)
           /\ Records(index, prefix)[i].occurrences = Ascending(index[DigestAt(index, prefix, i)])
           /\ prefix = PrefixOf(DigestAt(index, prefix, i), k)
<1> DEFINE records == Records(index, prefix)
<1>1. prefix \in Prefixes(k) /\ prefix.digits = k
  BY PrefixAndSuffix DEF Prefixes, Place
<1>2. PICK n : Lists(records, n, index, prefix, k)
  BY <1>1, RecordsListed
<1>3. i \in DOMAIN records
  BY DEF Place
<1> HIDE DEF records
<1>4. /\ records[i].suffix \in Suffixes(index, prefix)
      /\ records[i].occurrences = Ascending(index[Joined(prefix, records[i].suffix)])
  BY <1>2, <1>3 DEF Lists
<1>5. PICK d \in Partition(index, prefix) : SuffixOf(d, k) = records[i].suffix
  BY <1>1, <1>4 DEF Suffixes
<1>6. d \in Digests /\ PrefixOf(d, k) = prefix
  BY <1>1 DEF Partition
<1>7. Joined(prefix, records[i].suffix) = d
  BY <1>5, <1>6, PrefixAndSuffix
<1> QED
  BY <1>4, <1>5, <1>6, <1>7 DEF DigestAt, records

\* The shards of a site together are the index (_partition_records).  Whatever the prefix
\* length, each record is that of one digest that occurs, stands in the shard of its prefix
\* and has all its occurrences; each digest that occurs has such a record, and only one in
\* all shards.
THEOREM ShardsHoldIndex ==
    ASSUME NEW index \in Index, NEW k \in PrefixLengths
    PROVE  /\ \A prefix, i : Place(index, k, prefix, i) =>
                 LET d == DigestAt(index, prefix, i)
                 IN /\ d \in Digests /\ index[d] # {}
                    /\ prefix = PrefixOf(d, k)
                    /\ Records(index, prefix)[i].occurrences = Ascending(index[d])
           /\ \A d \in Digests : index[d] # {} =>
                 \E prefix, i : Place(index, k, prefix, i) /\ DigestAt(index, prefix, i) = d
           /\ \A p, q, i, j :
                 /\ Place(index, k, p, i) /\ Place(index, k, q, j)
                 /\ DigestAt(index, p, i) = DigestAt(index, q, j)
                 => p = q /\ i = j
<1>1. ASSUME NEW prefix, NEW i, Place(index, k, prefix, i)
      PROVE  LET d == DigestAt(index, prefix, i)
             IN /\ d \in Digests /\ index[d] # {}
                /\ prefix = PrefixOf(d, k)
                /\ Records(index, prefix)[i].occurrences = Ascending(index[d])
  BY <1>1, RecordOfDigest DEF Partition
<1>2. ASSUME NEW d \in Digests, index[d] # {}
      PROVE  \E prefix, i : Place(index, k, prefix, i) /\ DigestAt(index, prefix, i) = d
  <2> DEFINE prefix == PrefixOf(d, k)
             records == Records(index, prefix)
  <2>1. prefix \in Prefixes(k) /\ prefix.digits = k
    BY PrefixAndSuffix DEF Prefixes
  <2>2. SuffixOf(d, k) \in Suffixes(index, prefix)
    BY <1>2, <2>1 DEF Suffixes, Partition
  <2>3. PICK n : Lists(records, n, index, prefix, k)
    BY <2>1, RecordsListed
  <2>4. Joined(prefix, SuffixOf(d, k)) = d
    BY PrefixAndSuffix
  <2> HIDE DEF records, prefix
  <2>5. PICK i \in DOMAIN records : records[i].suffix = SuffixOf(d, k)
    BY <2>2, <2>3 DEF Lists
  <2>6. Place(index, k, prefix, i) /\ DigestAt(index, prefix, i) = d
    BY <2>1, <2>4, <2>5 DEF Place, DigestAt, records
  <2> QED
    BY <2>6
<1>3. ASSUME NEW p, NEW q, NEW i, NEW j, Place(index, k, p, i), Place(index, k, q, j),
             DigestAt(index, p, i) = DigestAt(index, q, j)
      PROVE  p = q /\ i = j
  <2>1. p = q
    BY <1>3, RecordOfDigest
  <2> DEFINE records == Records(index, p)
  <2>2. p \in Prefixes(k) /\ p.digits = k
    BY <1>3, PrefixAndSuffix DEF Prefixes, Place
  <2>3. PICK n : Lists(records, n, index, p, k)
    BY <2>2, RecordsListed
  <2>4. i \in DOMAIN records /\ j \in DOMAIN records
    BY <1>3, <2>1 DEF Place
  <2>5. Joined(p, records[i].suffix) = Joined(p, records[j].suffix)
    BY <1>3, <2>1 DEF DigestAt
  <2> HIDE DEF records
  <2>6. /\ i \in 1..n /\ j \in 1..n /\ n \in Nat
        /\ records[i].suffix \in 0..(Shared[k] - 1) /\ records[j].suffix \in 0..(Shared[k] - 1)
        /\ \A a, b \in 1..n : a < b => records[a].suffix < records[b].suffix
    BY <2>3, <2>4 DEF Lists
  <2>7. records[i].suffix = records[j].suffix
    <3>1. PICK c, d \in Digests : /\ SuffixOf(c, k) = records[i].suffix /\ PrefixOf(c, k) = p
                                  /\ SuffixOf(d, k) = records[j].suffix /\ PrefixOf(d, k) = p
      BY <2>2, <2>3, <2>4 DEF Lists, Suffixes, Partition
    <3>2. c = Joined(p, records[i].suffix) /\ d = Joined(p, records[j].suffix)
      BY <3>1, PrefixAndSuffix
    <3> QED
      BY <2>5, <3>1, <3>2
  <2>8. ~(i < j) /\ ~(j < i)
    BY <2>6, <2>7
  <2> QED
    BY <2>1, <2>6, <2>8
<1> QED
  BY <1>1, <1>2, <1>3
=============================================================================
