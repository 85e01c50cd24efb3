----------------------------- MODULE ShardFormat -----------------------------
(***************************************************************************)
(* The static index of src/facehugger/shard_format.py: how the occurrences *)
(* of the index are divided into shards and written, what a client accepts *)
(* when it reads one, and the bisection of client.py that finds a digest.  *)
(*                                                                         *)
(* Digests are numbers, ordered as their hexadecimal strings are, and so   *)
(* are occurrences, in the order of repository, path and revision.  A      *)
(* prefix is a string of a number of digits and therefore keeps its        *)
(* leading zeros: a pair of its length and its value.  Sizes are counted   *)
(* in rows and occurrences.                                                *)
(***************************************************************************)
EXTENDS Integers, FiniteSets, Sequences, FiniteSetsExt

CONSTANTS
    Digests,      \* every SHA-256 digest there is
    Occurrences,  \* the places a file can occur at
    MinPrefix,    \* MIN_PREFIX_HEX_CHARS
    MaxPrefix,    \* MAX_PREFIX_HEX_CHARS
    Shared,       \* Shared[k]: how many digests have the same first k digits
    MaxShardSize  \* MAX_SHARD_BYTES

PrefixLengths == MinPrefix..MaxPrefix

ASSUME DigestAssumption ==
    /\ Digests \subseteq Nat /\ IsFiniteSet(Digests)
    /\ Occurrences \subseteq Nat /\ IsFiniteSet(Occurrences)
ASSUME PrefixAssumption ==
    /\ MinPrefix \in Nat /\ MaxPrefix \in Nat
    /\ Shared \in [PrefixLengths -> Nat \ {0}]

\* What iter_artifacts yields: the occurrences of each digest, none for most.
Index == [Digests -> SUBSET Occurrences]

PrefixOf(d, k) == [digits |-> k, value |-> d \div Shared[k]]

SuffixOf(d, k) == d % Shared[k]

Prefixes(k) == {PrefixOf(d, k) : d \in Digests}

-----------------------------------------------------------------------------
(* Compilation *)

Increasing(s) == \A i, j \in DOMAIN s : i < j => s[i] < s[j]

\* sort(): the elements of a finite set of numbers, smallest first.
Ascending(S) ==
    CHOOSE s \in [1..Cardinality(S) -> S] :
        Increasing(s) /\ \A x \in S : \E i \in DOMAIN s : s[i] = x

\* The digests of a partition: those with the prefix that occur somewhere.
Partition(index, prefix) ==
    {d \in Digests : index[d] # {} /\ PrefixOf(d, prefix.digits) = prefix}

\* The digest with a prefix and a suffix.
Joined(prefix, suffix) == prefix.value * Shared[prefix.digits] + suffix

RecordsByDescendingSuffix(index, prefix) ==
    LET suffixes == Ascending({SuffixOf(d, prefix.digits) : d \in Partition(index, prefix)})
        last == Len(suffixes)
    IN [i \in 1..last |->
            [suffix |-> suffixes[last + 1 - i],
             occurrences |-> Ascending(index[Joined(prefix, suffixes[last + 1 - i])])]]

\* One record for each digest of the partition, by ascending suffix.
Records(index, prefix) ==
    LET suffixes == Ascending({SuffixOf(d, prefix.digits) : d \in Partition(index, prefix)})
    IN [i \in DOMAIN suffixes |->
            [suffix |-> suffixes[i],
             occurrences |-> Ascending(index[Joined(prefix, suffixes[i])])]]

Shard(index, prefix) == [prefix |-> prefix, records |-> Records(index, prefix)]

ShardSize(shard) ==
    LET RowSize(i) == 1 + Len(shard.records[i].occurrences)
    IN MapThenSumSet(RowSize, DOMAIN shard.records)

Fits(index, k) == \A prefix \in Prefixes(k) : ShardSize(Shard(index, prefix)) <= MaxShardSize

\* An index that does not fit at the longest prefix is refused.
Compilable(index) == \E k \in PrefixLengths : Fits(index, k)

\* The shallowest partition that keeps every shard bounded.
PrefixLength(index) == Min({k \in PrefixLengths : Fits(index, k)})

-----------------------------------------------------------------------------
(* What the client does with a shard *)

\* The checks of parse_shard: the prefix asked for, suffixes of the length that is left
\* and strictly sorted, occurrences sorted.
Accepted(shard, prefix) ==
    /\ shard.prefix = prefix
    /\ \A i \in DOMAIN shard.records : shard.records[i].suffix < Shared[prefix.digits]
    /\ \A i, j \in DOMAIN shard.records :
          i < j => shard.records[i].suffix < shard.records[j].suffix
    /\ \A n \in DOMAIN shard.records :
          LET occurrences == shard.records[n].occurrences
          IN \A i, j \in DOMAIN occurrences : i < j => occurrences[i] <= occurrences[j]

BisectRight(records, suffix) ==
    CHOOSE i \in 1..(Len(records) + 1) :
        /\ \A j \in 1..(i - 1) : records[j].suffix <= suffix
        /\ \A j \in i..Len(records) : records[j].suffix > suffix

\* bisect_left: where the suffix is, or would be inserted.
Position(records, suffix) ==
    CHOOSE i \in 1..(Len(records) + 1) :
        /\ \A j \in 1..(i - 1) : records[j].suffix < suffix
        /\ \A j \in i..Len(records) : records[j].suffix >= suffix

Matches(shard, suffix) ==
    LET position == Position(shard.records, suffix)
    IN IF position = Len(shard.records) + 1 \/ shard.records[position].suffix # suffix
       THEN <<>>
       ELSE shard.records[position].occurrences
=============================================================================
