------------------------- MODULE StaticClientProofs -------------------------
(***************************************************************************)
(* Proofs about lookups in the static index, for any clients, digests,     *)
(* publications and prefix lengths.  What a single shard answers is proved *)
(* in ShardFormatProofs; here it is the right shard that is asked.         *)
(***************************************************************************)
EXTENDS StaticClient, ShardFormatProofs

-----------------------------------------------------------------------------
(* Publications *)

\* The prefix length of a publication is one of those the format allows.
LEMMA DigitsAllowed ==
    ASSUME NEW v \in Versions
    PROVE  Digits[v] \in PrefixLengths
BY ClientAssumption, PrefixLengthAllowed DEF Digits

\* The shard a digest belongs to, in any publication, is a file of it.
LEMMA DigestHasShard ==
    ASSUME NEW v \in Versions, NEW d \in Queries
    PROVE  /\ PrefixOf(d, Digits[v]) \in Prefixes(Digits[v])
           /\ PrefixOf(d, Digits[v]) \in AllPrefixes
           /\ PrefixOf(d, Digits[v]).digits = Digits[v]
           /\ ShardAt[<<v, PrefixOf(d, Digits[v])>>] = Shard(Published[v], PrefixOf(d, Digits[v]))
           /\ ShardAt[<<v, PrefixOf(d, Digits[v])>>] \notin {None, Empty}
<1>1. d \in Digests /\ Digits[v] \in PrefixLengths
  BY DigitsAllowed, ClientAssumption
<1>2. PrefixOf(d, Digits[v]) \in Prefixes(Digits[v])
  BY <1>1 DEF Prefixes
<1>3. PrefixOf(d, Digits[v]) \in AllPrefixes
  BY <1>1, <1>2 DEF AllPrefixes
<1>4. PrefixOf(d, Digits[v]).digits = Digits[v]
  BY <1>1, PrefixAndSuffix
<1>5. ShardAt[<<v, PrefixOf(d, Digits[v])>>] = Shard(Published[v], PrefixOf(d, Digits[v]))
  BY <1>3 DEF ShardAt, Paths
<1>6. <<v, PrefixOf(d, Digits[v])>> \in Paths
  BY <1>3 DEF Paths
<1>7. ShardAt[<<v, PrefixOf(d, Digits[v])>>] \in Shards
  BY <1>6 DEF Shards
<1> QED
  BY <1>2, <1>3, <1>4, <1>5, <1>7, ClientAssumption

-----------------------------------------------------------------------------
(* The inductive invariant *)

\* The part of the type invariant about one lookup.
LookupTyped(l) ==
    /\ DOMAIN l = DOMAIN Idle
    /\ l.pc \in Steps
    /\ l.offline \in BOOLEAN /\ l.refreshed \in BOOLEAN
    /\ l.startedAt \in 0..current

\* The part of it about the site and the cache.
FilesTyped ==
    /\ current \in {0} \union Versions
    /\ manifestFile \in (1..current) \union {None, Empty, Garbled}
    /\ fresh \in BOOLEAN
    /\ DOMAIN shardFiles = Paths

\* The invariant by its parts.
LEMMA Parts ==
    ClientInv <=> /\ FilesTyped /\ FilesInv
                  /\ DOMAIN lookup = Clients
                  /\ \A c \in Clients : LookupTyped(lookup[c]) /\ LookupInv(lookup[c])
BY DEF ClientInv, TypeOK, FilesTyped, LookupTyped

\* What is served is a publication.
LEMMA CurrentIsNumber ==
    ASSUME FilesTyped
    PROVE  /\ current \in Nat
           /\ 1..current \subseteq Versions
           /\ Cardinality(Versions) \in Nat
<1>1. Cardinality(Versions) \in Nat
  BY ClientAssumption, FS_CardinalityType
<1> QED
  BY <1>1, ClientAssumption DEF FilesTyped

\* A step of one client preserves the invariant if its lookup and the files do.
LEMMA Advances ==
    ASSUME ClientInv, NEW c \in Clients, NEW l, LookupTyped(l), LookupInv(l),
           Becomes(c, l), current' = current, FilesTyped', FilesInv'
    PROVE  ClientInv'
<1>1. DOMAIN lookup' = Clients
  BY Parts DEF Becomes
<1>2. ASSUME NEW b \in Clients PROVE LookupTyped(lookup[b])' /\ LookupInv(lookup[b])'
  <2>1. CASE b = c
    <3>1. lookup'[b] = l
      BY <2>1, Parts DEF Becomes
    <3> QED
      BY <3>1 DEF LookupTyped, LookupInv, HasVersion, HasShard
  <2>2. CASE b # c
    <3>1. lookup'[b] = lookup[b]
      BY <2>2, Parts DEF Becomes
    <3> QED
      BY <3>1, Parts DEF LookupTyped, LookupInv, HasVersion, HasShard
  <2> QED
    BY <2>1, <2>2
<1>3. ClientInv' <=> /\ FilesTyped' /\ FilesInv'
                     /\ DOMAIN lookup' = Clients
                     /\ \A b \in Clients : LookupTyped(lookup[b])' /\ LookupInv(lookup[b])'
  BY DEF ClientInv, TypeOK, FilesTyped, LookupTyped
<1> QED
  BY <1>1, <1>2, <1>3

\* So does one that leaves the files alone.
LEMMA AdvancesAlone ==
    ASSUME ClientInv, NEW c \in Clients, NEW l, LookupTyped(l), LookupInv(l),
           Becomes(c, l), UNCHANGED <<current, cacheVars>>
    PROVE  ClientInv'
<1>1. FilesTyped' /\ FilesInv'
  BY Parts DEF FilesTyped, FilesInv, cacheVars
<1>2. current' = current
  OBVIOUS
<1> QED
  BY <1>1, <1>2, Advances

\* No lookup is a lookup.
LEMMA IdleIsFine == FilesTyped => LookupTyped(Idle) /\ LookupInv(Idle)
<1> SUFFICES ASSUME FilesTyped PROVE LookupTyped(Idle) /\ LookupInv(Idle)
  OBVIOUS
<1>1. current \in Nat
  BY CurrentIsNumber
<1> QED
  BY <1>1 DEF LookupTyped, LookupInv, Idle, Steps, HasVersion, HasShard

\* What ClientInv says about a client that has a version.
LEMMA HasItsShard ==
    ASSUME ClientInv, NEW c \in Clients, lookup[c].pc \in HasVersion
    PROVE  LET l == lookup[c]
           IN /\ l.digest \in Queries
              /\ l.version \in Versions /\ l.version \in 1..current
              /\ l.prefix = PrefixOf(l.digest, Digits[l.version])
              /\ l.prefix.digits = Digits[l.version]
              /\ l.prefix \in Prefixes(Digits[l.version])
              /\ PathFor(c) \in Paths /\ PathFor(c) = <<l.version, l.prefix>>
              /\ ShardAt[PathFor(c)] = Shard(Published[l.version], l.prefix)
              /\ ShardAt[PathFor(c)] \notin {None, Empty}
<1> DEFINE l == lookup[c]
<1>1. FilesTyped /\ LookupInv(l) /\ l.pc \in HasVersion
  BY Parts
<1>2. /\ l.digest \in Queries
      /\ l.version \in 1..current
      /\ l.prefix = PrefixOf(l.digest, Digits[l.version])
  BY <1>1 DEF LookupInv, HasVersion
<1>3. l.version \in Versions
  BY <1>1, <1>2, CurrentIsNumber
<1>4. PathFor(c) = <<l.version, l.prefix>>
  BY DEF PathFor, Path
<1>5. /\ l.prefix \in Prefixes(Digits[l.version])
      /\ l.prefix \in AllPrefixes
      /\ l.prefix.digits = Digits[l.version]
      /\ ShardAt[<<l.version, l.prefix>>] = Shard(Published[l.version], l.prefix)
      /\ ShardAt[<<l.version, l.prefix>>] \notin {None, Empty}
  <2> HIDE DEF l
  <2> QED
    BY <1>2, <1>3, DigestHasShard
<1>6. PathFor(c) \in Paths
  BY <1>3, <1>4, <1>5 DEF Paths
<1> QED
  BY <1>2, <1>3, <1>4, <1>5, <1>6

\* The shard of a publication is accepted, and answers as its index does.
LEMMA AnsweredRight ==
    ASSUME ClientInv, NEW c \in Clients, lookup[c].pc \in HasVersion
    PROVE  Answered(lookup[c], ShardAt[PathFor(c)]) =
               [lookup[c] EXCEPT !.pc = "answered", !.shard = None,
                    !.matches = Ascending(Published[lookup[c].version][lookup[c].digest])]
<1> DEFINE v == lookup[c].version
           d == lookup[c].digest
           p == lookup[c].prefix
<1>1. /\ v \in Versions /\ d \in Queries
      /\ p = PrefixOf(d, Digits[v]) /\ p.digits = Digits[v] /\ p \in Prefixes(Digits[v])
      /\ ShardAt[PathFor(c)] = Shard(Published[v], p)
  BY HasItsShard
<1>2. Published[v] \in Index /\ d \in Digests /\ Digits[v] \in PrefixLengths
  BY <1>1, ClientAssumption, DigitsAllowed
<1> HIDE DEF v, d, p
<1>3. Accepted(Shard(Published[v], p), p)
  BY <1>1, <1>2, ShardsAccepted
<1>4. Matches(Shard(Published[v], p), SuffixOf(d, p.digits)) = Ascending(Published[v][d])
  BY <1>1, <1>2, LookupFinds
<1> QED
  BY <1>1, <1>3, <1>4 DEF Answered, v, d, p

\* An answered lookup satisfies the invariant.
LEMMA AnsweredIsFine ==
    ASSUME ClientInv, NEW c \in Clients, lookup[c].pc \in HasVersion
    PROVE  /\ LookupTyped(Answered(lookup[c], ShardAt[PathFor(c)]))
           /\ LookupInv(Answered(lookup[c], ShardAt[PathFor(c)]))
<1> DEFINE l == [lookup[c] EXCEPT !.pc = "answered", !.shard = None,
                     !.matches = Ascending(Published[lookup[c].version][lookup[c].digest])]
<1>1. LookupTyped(lookup[c]) /\ LookupInv(lookup[c])
  BY Parts
<1>2. LookupTyped(l)
  BY <1>1 DEF LookupTyped, Idle, Steps
<1>3. LookupInv(l)
  BY <1>1 DEF LookupInv, LookupTyped, Idle, HasVersion, HasShard
<1> HIDE DEF l
<1>4. Answered(lookup[c], ShardAt[PathFor(c)]) = l
  BY AnsweredRight DEF l
<1> QED
  BY <1>2, <1>3, <1>4

-----------------------------------------------------------------------------
(* Every action preserves the invariant *)

\* Nobody looks anything up in the beginning, and nothing is cached.
LEMMA InitInv == Init => ClientInv
<1> SUFFICES ASSUME Init PROVE ClientInv
  OBVIOUS
<1>1. FilesTyped /\ FilesInv
  BY DEF Init, FilesTyped, FilesInv, Paths
<1>2. DOMAIN lookup = Clients /\ \A c \in Clients : lookup[c] = Idle
  BY DEF Init
<1> QED
  BY <1>1, <1>2, IdleIsFine, Parts

\* The end of a lookup, for whatever reason.
LEMMA EndPreserves ==
    ASSUME ClientInv, NEW c \in Clients, Becomes(c, Idle), UNCHANGED <<current, cacheVars>>
    PROVE  ClientInv'
<1>1. LookupTyped(Idle) /\ LookupInv(Idle)
  BY Parts, IdleIsFine
<1> QED
  BY <1>1, AdvancesAlone

LEMMA StartPreserves ==
    ASSUME ClientInv, NEW c \in Clients, NEW d \in Queries, NEW o \in BOOLEAN, Start(c, d, o)
    PROVE  ClientInv'
<1>1. current \in Nat
  BY Parts, CurrentIsNumber
<1>2. LookupTyped(Begun(d, o))
  BY <1>1 DEF LookupTyped, Begun, Idle, Steps
<1>3. LookupInv(Begun(d, o))
  BY DEF LookupInv, Begun, Idle, HasVersion, HasShard
<1>4. Becomes(c, Begun(d, o)) /\ UNCHANGED <<current, cacheVars>>
  BY DEF Start
<1> QED
  BY <1>2, <1>3, <1>4, AdvancesAlone

\* What is served is the newest publication so far.
LEMMA NoneIsNewer ==
    ASSUME FilesTyped
    PROVE  \A t \in 0..current : current >= t
<1>1. current \in Nat
  BY CurrentIsNumber
<1> QED
  BY <1>1

\* And the next one is newer still.
LEMMA NextIsNewer ==
    ASSUME FilesTyped
    PROVE  \A t \in 0..current : current + 1 > t
<1>1. current \in Nat
  BY CurrentIsNumber
<1> QED
  BY <1>1

\* A manifest that is read or fetched. After a refresh it is the one that is served.
LEMMA ManifestPreserves ==
    ASSUME ClientInv, NEW c \in Clients, At(c, "manifest"), NEW v \in 1..current,
           NEW step \in {"shard", "open manifest"},
           lookup[c].refreshed => v = current,
           Becomes(c, [WithManifest(lookup[c], v) EXCEPT !.pc = step]),
           UNCHANGED <<current, cacheVars>>
    PROVE  ClientInv'
<1> DEFINE l == [WithManifest(lookup[c], v) EXCEPT !.pc = step]
<1>1. LookupTyped(lookup[c]) /\ LookupInv(lookup[c]) /\ FilesTyped
  BY Parts
<1>2. LookupTyped(l)
  BY <1>1 DEF LookupTyped, WithManifest, Parsed, Idle, Steps
<1>3. current \in Nat
  BY <1>1, CurrentIsNumber
<1>4. /\ l.pc = step /\ l.version = v /\ l.prefix = PrefixOf(lookup[c].digest, Digits[v])
      /\ l.digest = lookup[c].digest /\ l.startedAt = lookup[c].startedAt
      /\ l.offline = lookup[c].offline /\ l.refreshed = lookup[c].refreshed
  BY <1>1 DEF LookupTyped, WithManifest, Parsed, Idle
<1>5. l.refreshed => l.version >= l.startedAt
  <2>1. lookup[c].startedAt \in 0..current
    BY <1>1 DEF LookupTyped
  <2>2. current >= lookup[c].startedAt
    BY <1>1, <2>1, NoneIsNewer
  <2> HIDE DEF l
  <2> QED
    BY <1>4, <2>2
<1> HIDE DEF l
<1>6. LookupInv(l)
  BY <1>1, <1>4, <1>5 DEF LookupInv, HasVersion, HasShard, At
<1>7. Becomes(c, l)
  BY DEF l
<1> QED
  BY <1>2, <1>6, <1>7, AdvancesAlone

LEMMA ReadManifestPreserves ==
    ASSUME ClientInv, NEW c \in Clients, ReadManifest(c)
    PROVE  ClientInv'
<1>1. FilesTyped /\ LookupInv(lookup[c])
  BY Parts
<1>2. manifestFile \in 1..current
  BY <1>1, ClientAssumption DEF ReadManifest, FilesTyped
<1>3. ~lookup[c].refreshed
  BY <1>1 DEF ReadManifest, UsesCache, LookupInv
<1> QED
  BY <1>2, <1>3, ManifestPreserves DEF ReadManifest

LEMMA FetchManifestPreserves ==
    ASSUME ClientInv, NEW c \in Clients, FetchManifest(c)
    PROVE  ClientInv'
<1>1. current \in Nat /\ current > 0
  BY Parts, CurrentIsNumber DEF FetchManifest
<1>2. current \in 1..current
  BY <1>1
<1> QED
  BY <1>2, ManifestPreserves DEF FetchManifest, FetchesManifest

LEMMA OpenManifestPreserves ==
    ASSUME ClientInv, NEW c \in Clients, OpenManifest(c)
    PROVE  ClientInv'
<1> DEFINE l == [lookup[c] EXCEPT !.pc = "write manifest"]
<1>1. LookupTyped(lookup[c]) /\ LookupInv(lookup[c]) /\ FilesTyped /\ FilesInv
  BY Parts
<1>2. FilesTyped' /\ FilesInv'
  BY <1>1 DEF OpenManifest, FilesTyped, FilesInv
<1>3. LookupTyped(l)
  BY <1>1 DEF LookupTyped, Idle, Steps
<1>4. LookupInv(l)
  BY <1>1 DEF LookupInv, LookupTyped, Idle, HasVersion, HasShard, OpenManifest, At
<1>5. Becomes(c, l) /\ current' = current
  BY DEF OpenManifest, Goto
<1> HIDE DEF l
<1> QED
  BY <1>2, <1>3, <1>4, <1>5, Advances

LEMMA WriteManifestPreserves ==
    ASSUME ClientInv, NEW c \in Clients, WriteManifest(c)
    PROVE  ClientInv'
<1> DEFINE l == [lookup[c] EXCEPT !.pc = "shard"]
<1>1. LookupTyped(lookup[c]) /\ LookupInv(lookup[c]) /\ FilesTyped /\ FilesInv
  BY Parts
<1>2. lookup[c].version \in 1..current
  BY <1>1 DEF LookupInv, HasVersion, WriteManifest, At
<1>3. FilesTyped' /\ FilesInv'
  BY <1>1, <1>2 DEF WriteManifest, FilesTyped, FilesInv
<1>4. LookupTyped(l)
  BY <1>1 DEF LookupTyped, Idle, Steps
<1>5. LookupInv(l)
  BY <1>1 DEF LookupInv, LookupTyped, Idle, HasVersion, HasShard, WriteManifest, At
<1>6. Becomes(c, l) /\ current' = current
  BY DEF WriteManifest, Goto
<1> HIDE DEF l
<1> QED
  BY <1>3, <1>4, <1>5, <1>6, Advances

\* A cached shard can only be the right one.
LEMMA ReadShardPreserves ==
    ASSUME ClientInv, NEW c \in Clients, ReadShard(c)
    PROVE  ClientInv'
<1>1. lookup[c].pc \in HasVersion
  BY DEF ReadShard, At, HasVersion
<1>2. /\ lookup[c].version \in Versions
      /\ PathFor(c) = <<lookup[c].version, lookup[c].prefix>> /\ PathFor(c) \in Paths
  BY <1>1, HasItsShard
<1>3. shardFiles[PathFor(c)] = ShardAt[PathFor(c)]
  BY <1>2, Parts DEF ReadShard, FilesInv, Paths
<1>4. Becomes(c, Answered(lookup[c], ShardAt[PathFor(c)])) /\ UNCHANGED <<current, cacheVars>>
  BY <1>3 DEF ReadShard
<1> QED
  BY <1>1, <1>4, AnsweredIsFine, AdvancesAlone

\* What is fetched is the shard of the version the lookup holds, as no other is served.
LEMMA FetchShardPreserves ==
    ASSUME ClientInv, NEW c \in Clients, FetchShard(c)
    PROVE  ClientInv'
<1> DEFINE l == [lookup[c] EXCEPT !.pc = "open shard",
                     !.shard = ShardAt[<<current, lookup[c].prefix>>]]
<1>1. LookupTyped(lookup[c]) /\ LookupInv(lookup[c])
  BY Parts
<1>2. At(c, "shard") /\ lookup[c].version = current
  BY DEF FetchShard, FetchesShard, Served
<1>3. LookupTyped(l)
  BY <1>1 DEF LookupTyped, Idle, Steps
<1>4. LookupInv(l)
  BY <1>1, <1>2 DEF LookupInv, LookupTyped, Idle, HasVersion, HasShard, At
<1>5. Becomes(c, l) /\ UNCHANGED <<current, cacheVars>>
  BY DEF FetchShard
<1> HIDE DEF l
<1> QED
  BY <1>3, <1>4, <1>5, AdvancesAlone

LEMMA RefreshPreserves ==
    ASSUME ClientInv, NEW c \in Clients, RefreshAfter404(c)
    PROVE  ClientInv'
<1> DEFINE l == [lookup[c] EXCEPT !.pc = "manifest", !.refreshed = TRUE]
<1>1. LookupTyped(lookup[c]) /\ LookupInv(lookup[c])
  BY Parts
<1>2. At(c, "shard") /\ ~lookup[c].offline
  BY DEF RefreshAfter404, FetchesShard
<1>3. LookupTyped(l)
  BY <1>1 DEF LookupTyped, Idle, Steps
<1>4. LookupInv(l)
  BY <1>1, <1>2 DEF LookupInv, LookupTyped, Idle, HasVersion, HasShard, At
<1>5. Becomes(c, l) /\ UNCHANGED <<current, cacheVars>>
  BY DEF RefreshAfter404
<1> HIDE DEF l
<1> QED
  BY <1>3, <1>4, <1>5, AdvancesAlone

\* The shard of the version that is served is there, so the version was replaced.
LEMMA NotFoundPreserves ==
    ASSUME ClientInv, NEW c \in Clients, NotFound(c)
    PROVE  ClientInv'
<1> DEFINE l == [lookup[c] EXCEPT !.pc = "not found"]
<1>1. LookupTyped(lookup[c]) /\ LookupInv(lookup[c]) /\ current \in Nat
  BY Parts, CurrentIsNumber
<1>2. At(c, "shard") /\ lookup[c].refreshed /\ ~Served(c)
  BY DEF NotFound, FetchesShard
<1>3. lookup[c].pc \in HasVersion
  BY <1>2 DEF At, HasVersion
<1>4. lookup[c].version \in 1..current /\ lookup[c].prefix \in Prefixes(Digits[lookup[c].version])
  BY <1>3, HasItsShard
<1>5. lookup[c].version # current
  BY <1>2, <1>4 DEF Served
<1>6. lookup[c].startedAt < current
  <2>1. lookup[c].version >= lookup[c].startedAt /\ lookup[c].startedAt \in 0..current
    BY <1>1, <1>2, <1>3 DEF LookupInv, LookupTyped
  <2> QED
    BY <1>1, <1>4, <1>5, <2>1
<1>7. LookupTyped(l)
  BY <1>1 DEF LookupTyped, Idle, Steps
<1>8. LookupInv(l)
  BY <1>1, <1>2, <1>6 DEF LookupInv, LookupTyped, Idle, HasVersion, HasShard, At
<1>9. Becomes(c, l) /\ UNCHANGED <<current, cacheVars>>
  BY DEF NotFound, Goto
<1> HIDE DEF l
<1> QED
  BY <1>7, <1>8, <1>9, AdvancesAlone

LEMMA OpenShardPreserves ==
    ASSUME ClientInv, NEW c \in Clients, OpenShard(c)
    PROVE  ClientInv'
<1> DEFINE l == [lookup[c] EXCEPT !.pc = "write shard"]
<1>1. LookupTyped(lookup[c]) /\ LookupInv(lookup[c]) /\ FilesTyped /\ FilesInv
  BY Parts
<1>2. FilesTyped' /\ FilesInv'
  BY <1>1 DEF OpenShard, FilesTyped, FilesInv, Paths
<1>3. LookupTyped(l)
  BY <1>1 DEF LookupTyped, Idle, Steps
<1>4. LookupInv(l)
  BY <1>1 DEF LookupInv, LookupTyped, Idle, HasVersion, HasShard, OpenShard, At
<1>5. Becomes(c, l) /\ current' = current
  BY DEF OpenShard, Goto
<1> HIDE DEF l
<1> QED
  BY <1>2, <1>3, <1>4, <1>5, Advances

\* The shard is written where shards of its version and prefix belong.
LEMMA WriteShardPreserves ==
    ASSUME ClientInv, NEW c \in Clients, WriteShard(c)
    PROVE  ClientInv'
<1>1. lookup[c].pc \in HasVersion /\ lookup[c].pc \in HasShard
  BY DEF WriteShard, At, HasVersion, HasShard
<1>2. PathFor(c) = <<lookup[c].version, lookup[c].prefix>> /\ PathFor(c) \in Paths
  BY <1>1, HasItsShard
<1>3. lookup[c].shard = ShardAt[PathFor(c)]
  BY <1>1, <1>2, Parts DEF LookupInv
<1>4. FilesTyped /\ FilesInv
  BY Parts
<1>5. shardFiles' = [shardFiles EXCEPT ![PathFor(c)] = ShardAt[PathFor(c)]]
  BY <1>3 DEF WriteShard
<1>6. FilesTyped' /\ FilesInv'
  BY <1>4, <1>5 DEF WriteShard, FilesTyped, FilesInv, Paths
<1>7. Becomes(c, Answered(lookup[c], ShardAt[PathFor(c)])) /\ current' = current
  BY <1>3 DEF WriteShard
<1> QED
  BY <1>1, <1>6, <1>7, AnsweredIsFine, Advances

\* A lookup that began before the next publication did so at an older one.
LEMMA DeployPreserves ==
    ASSUME ClientInv, Deploy
    PROVE  ClientInv'
<1>1. /\ FilesTyped /\ FilesInv /\ DOMAIN lookup = Clients
      /\ \A c \in Clients : LookupTyped(lookup[c]) /\ LookupInv(lookup[c])
  BY Parts
<1>2. /\ current \in Nat /\ current' = current + 1 /\ current' \in Versions
      /\ manifestFile' = manifestFile /\ fresh' = fresh /\ shardFiles' = shardFiles
      /\ lookup' = lookup
  BY <1>1, CurrentIsNumber DEF Deploy, cacheVars
<1>3. (1..current) \subseteq (1..current') /\ (0..current) \subseteq (0..current')
  BY <1>2
<1>4. FilesTyped' /\ FilesInv'
  BY <1>1, <1>2, <1>3 DEF FilesTyped, FilesInv
<1>5. ASSUME NEW c \in Clients PROVE LookupTyped(lookup[c])' /\ LookupInv(lookup[c])'
  <2>1. LookupTyped(lookup[c])'
    BY <1>1, <1>2, <1>3 DEF LookupTyped
  <2>2. lookup[c].startedAt < current'
    <3>1. lookup[c].startedAt \in 0..current
      BY <1>1 DEF LookupTyped
    <3>2. current + 1 > lookup[c].startedAt
      BY <1>1, <3>1, NextIsNewer
    <3> QED
      BY <1>2, <3>2
  <2>3. LookupInv(lookup[c])'
    BY <1>1, <1>2, <1>3, <2>2 DEF LookupInv, HasVersion, HasShard
  <2> QED
    BY <2>1, <2>3
<1> QED
  BY <1>1, <1>2, <1>4, <1>5 DEF ClientInv, TypeOK, FilesTyped, LookupTyped

\* What happens to the files without a lookup.
LEMMA ExpirePreserves ==
    ASSUME ClientInv, Expire \/ UNCHANGED vars
    PROVE  ClientInv'
<1>1. /\ current' = current /\ manifestFile' = manifestFile /\ shardFiles' = shardFiles
      /\ lookup' = lookup /\ fresh' \in BOOLEAN
  BY Parts DEF Expire, vars, cacheVars, FilesTyped
<1> QED
  BY <1>1 DEF ClientInv, TypeOK, FilesInv, LookupInv, HasVersion, HasShard

LEMMA ClientPreserves ==
    ASSUME ClientInv, NEW c \in Clients, ClientNext(c)
    PROVE  ClientInv'
<1>1. CASE \E d \in Queries, o \in BOOLEAN : Start(c, d, o)
  BY <1>1, StartPreserves
<1>2. CASE ReadManifest(c)
  BY <1>2, ReadManifestPreserves
<1>3. CASE FetchManifest(c)
  BY <1>3, FetchManifestPreserves
<1>4. CASE OpenManifest(c)
  BY <1>4, OpenManifestPreserves
<1>5. CASE WriteManifest(c)
  BY <1>5, WriteManifestPreserves
<1>6. CASE ReadShard(c)
  BY <1>6, ReadShardPreserves
<1>7. CASE FetchShard(c)
  BY <1>7, FetchShardPreserves
<1>8. CASE RefreshAfter404(c)
  BY <1>8, RefreshPreserves
<1>9. CASE NotFound(c)
  BY <1>9, NotFoundPreserves
<1>10. CASE OpenShard(c)
  BY <1>10, OpenShardPreserves
<1>11. CASE WriteShard(c)
  BY <1>11, WriteShardPreserves
<1>12. CASE \/ RejectManifest(c) \/ MissManifest(c) \/ ManifestFails(c) \/ IndexInfo(c)
            \/ RejectShard(c) \/ MissShard(c) \/ ShardFails(c) \/ End(c)
  <2>1. Becomes(c, Idle) /\ UNCHANGED <<current, cacheVars>>
    BY <1>12
    DEF RejectManifest, MissManifest, ManifestFails, IndexInfo, RejectShard, MissShard,
        ShardFails, End
  <2> QED
    BY <2>1, EndPreserves
<1> QED
  BY <1>1, <1>2, <1>3, <1>4, <1>5, <1>6, <1>7, <1>8, <1>9, <1>10, <1>11, <1>12
  DEF ClientNext

-----------------------------------------------------------------------------
(* Every step keeps the promise *)

\* The steps between the question and the answer.
Working == Steps \ {"idle", "answered", "not found", "rejected"}

\* A step of one lookup shows as a step of one call.
LEMMA OneCallChanges ==
    ASSUME ClientInv, NEW c \in Clients, NEW l, Becomes(c, l)
    PROVE  Calls' = [Calls EXCEPT ![c] = Shown(l)]
<1>1. DOMAIN lookup = Clients
  BY Parts
<1>2. lookup' = [x \in Clients |-> IF x = c THEN l ELSE lookup[x]]
  BY <1>1 DEF Becomes
<1> QED
  BY <1>2 DEF Calls

LEMMA ShownWorking ==
    ASSUME NEW l, l.pc \in Working
    PROVE  Shown(l) = [state |-> "asked", digest |-> l.digest, startedAt |-> l.startedAt,
                       version |-> None, matches |-> None]
BY DEF Shown, StateShown, Working, Steps

LEMMA ShownEnded ==
    ASSUME NEW l
    PROVE  /\ l.pc = "answered" => Shown(l) =
                 [state |-> "answered", digest |-> l.digest, startedAt |-> l.startedAt,
                  version |-> l.version, matches |-> l.matches]
           /\ l.pc = "not found" => Shown(l) =
                 [state |-> "missing", digest |-> l.digest, startedAt |-> l.startedAt,
                  version |-> None, matches |-> None]
BY DEF Shown, StateShown

LEMMA BelowItself == \A n \in Nat : \A v \in 1..n : v <= n
OBVIOUS

\* Reading, fetching and writing are not seen.
LEMMA WorkIsHidden ==
    ASSUME ClientInv, NEW c \in Clients, NEW l, Becomes(c, l), current' = current,
           lookup[c].pc \in Working, l.pc \in Working,
           l.digest = lookup[c].digest, l.startedAt = lookup[c].startedAt
    PROVE  UNCHANGED Promise!vars
<1>1. Shown(l) = Calls[c]
  BY ShownWorking DEF Calls
<1>2. Calls' = [Calls EXCEPT ![c] = Shown(l)]
  BY OneCallChanges
<1>3. Calls' = Calls
  BY <1>1, <1>2 DEF Calls
<1> QED
  BY <1>3 DEF Promise!vars

LEMMA WorkingSteps ==
    ASSUME ClientInv, NEW c \in Clients,
           \/ ReadManifest(c) \/ FetchManifest(c) \/ OpenManifest(c) \/ WriteManifest(c)
           \/ FetchShard(c) \/ RefreshAfter404(c) \/ OpenShard(c)
    PROVE  UNCHANGED Promise!vars
<1>1. LookupTyped(lookup[c])
  BY Parts
<1>2. lookup[c].pc \in Working /\ current' = current
  BY DEF ReadManifest, FetchManifest, FetchesManifest, OpenManifest, WriteManifest,
         FetchShard, FetchesShard, RefreshAfter404, OpenShard, At, Working, Steps
<1>3. CASE ReadManifest(c)
  <2> DEFINE l == [WithManifest(lookup[c], manifestFile) EXCEPT !.pc = "shard"]
  <2>1. /\ l.pc \in Working /\ l.digest = lookup[c].digest
        /\ l.startedAt = lookup[c].startedAt
    BY <1>1 DEF WithManifest, Working, Steps, LookupTyped, Idle
  <2>2. Becomes(c, l)
    BY <1>3 DEF ReadManifest
  <2> QED
    BY <1>2, <2>1, <2>2, WorkIsHidden
<1>4. CASE FetchManifest(c)
  <2> DEFINE l == [WithManifest(lookup[c], current) EXCEPT !.pc = "open manifest"]
  <2>1. /\ l.pc \in Working /\ l.digest = lookup[c].digest
        /\ l.startedAt = lookup[c].startedAt
    BY <1>1 DEF WithManifest, Working, Steps, LookupTyped, Idle
  <2>2. Becomes(c, l)
    BY <1>4 DEF FetchManifest
  <2> QED
    BY <1>2, <2>1, <2>2, WorkIsHidden
<1>5. CASE OpenManifest(c) \/ WriteManifest(c) \/ OpenShard(c)
  <2>1. PICK step \in Working : Goto(c, step)
    BY <1>5 DEF OpenManifest, WriteManifest, OpenShard, Working, Steps
  <2> DEFINE l == [lookup[c] EXCEPT !.pc = step]
  <2>2. /\ l.pc \in Working /\ l.digest = lookup[c].digest
        /\ l.startedAt = lookup[c].startedAt
    BY <1>1 DEF LookupTyped, Idle
  <2>3. Becomes(c, l)
    BY <2>1 DEF Goto
  <2> QED
    BY <1>2, <2>2, <2>3, WorkIsHidden
<1>6. CASE FetchShard(c)
  <2> DEFINE l == [lookup[c] EXCEPT !.pc = "open shard",
                       !.shard = ShardAt[<<current, lookup[c].prefix>>]]
  <2>1. /\ l.pc \in Working /\ l.digest = lookup[c].digest
        /\ l.startedAt = lookup[c].startedAt
    BY <1>1 DEF Working, Steps, LookupTyped, Idle
  <2>2. Becomes(c, l)
    BY <1>6 DEF FetchShard
  <2> QED
    BY <1>2, <2>1, <2>2, WorkIsHidden
<1>7. CASE RefreshAfter404(c)
  <2> DEFINE l == [lookup[c] EXCEPT !.pc = "manifest", !.refreshed = TRUE]
  <2>1. /\ l.pc \in Working /\ l.digest = lookup[c].digest
        /\ l.startedAt = lookup[c].startedAt
    BY <1>1 DEF Working, Steps, LookupTyped, Idle
  <2>2. Becomes(c, l)
    BY <1>7 DEF RefreshAfter404
  <2> QED
    BY <1>2, <2>1, <2>2, WorkIsHidden
<1> QED
  BY <1>3, <1>4, <1>5, <1>6, <1>7

LEMMA StartAsks ==
    ASSUME ClientInv, NEW c \in Clients, NEW d \in Queries, NEW o \in BOOLEAN, Start(c, d, o)
    PROVE  Promise!Ask(c, d)
<1>1. Calls' = [Calls EXCEPT ![c] = Shown(Begun(d, o))]
  BY OneCallChanges DEF Start
<1>2. Shown(Begun(d, o)) = [state |-> "asked", digest |-> d, startedAt |-> current,
                            version |-> None, matches |-> None]
  <2> DEFINE l == Begun(d, o)
  <2>1. l.pc \in Working /\ l.digest = d /\ l.startedAt = current
    BY DEF Begun, Idle, Working, Steps
  <2> HIDE DEF l
  <2>2. Shown(l) = [state |-> "asked", digest |-> d, startedAt |-> current,
                    version |-> None, matches |-> None]
    BY <2>1, ShownWorking
  <2> QED
    BY <2>2 DEF l
<1>3. Calls[c].state = "none"
  BY DEF Start, At, Calls, Shown, StateShown
<1> QED
  BY <1>1, <1>2, <1>3 DEF Promise!Ask, Promise!NoCall, Start

LEMMA EndLeaves ==
    ASSUME ClientInv, NEW c \in Clients, Becomes(c, Idle), current' = current
    PROVE  Promise!Leave(c)
<1>1. Calls' = [Calls EXCEPT ![c] = Shown(Idle)]
  BY OneCallChanges
<1>2. Shown(Idle) = Promise!NoCall
  BY DEF Shown, StateShown, Idle, Promise!NoCall
<1> QED
  BY <1>1, <1>2 DEF Promise!Leave

LEMMA NotFoundMisses ==
    ASSUME ClientInv, ClientInv', NEW c \in Clients, NotFound(c)
    PROVE  Promise!Miss(c)
<1> DEFINE l == [lookup[c] EXCEPT !.pc = "not found"]
<1>1. LookupTyped(lookup[c]) /\ lookup[c].pc = "shard" /\ Becomes(c, l) /\ current' = current
  BY Parts DEF NotFound, FetchesShard, At, Goto
<1>2. lookup'[c] = l /\ l.pc = "not found" /\ l.startedAt = lookup[c].startedAt
      /\ l.digest = lookup[c].digest
  BY <1>1, Parts DEF Becomes, LookupTyped, Idle
<1>3. lookup[c].startedAt < current
  BY <1>1, <1>2 DEF ClientInv, LookupInv
<1> HIDE DEF l
<1>4. Shown(l) = Promise!Told(c, "missing", None, None)
  <2>1. /\ Calls[c].digest = lookup[c].digest
        /\ Calls[c].startedAt = lookup[c].startedAt
    BY DEF Calls, Shown
  <2>2. Shown(l) = [state |-> "missing", digest |-> lookup[c].digest,
                    startedAt |-> lookup[c].startedAt,
                    version |-> None, matches |-> None]
    BY <1>2, ShownEnded
  <2> QED
    BY <2>1, <2>2 DEF Promise!Told
<1>5. Calls' = [Calls EXCEPT ![c] = Shown(l)]
  BY <1>1, OneCallChanges
<1>6. Calls[c].state = "asked" /\ Calls[c].startedAt = lookup[c].startedAt
      /\ Calls[c] = Shown(lookup[c])
  BY <1>1 DEF Calls, Shown, StateShown
<1> QED
  BY <1>1, <1>3, <1>4, <1>5, <1>6 DEF Promise!Miss

LEMMA AnswerAnswers ==
    ASSUME ClientInv, NEW c \in Clients, lookup[c].pc \in {"shard", "write shard"},
           Becomes(c, Answered(lookup[c], ShardAt[PathFor(c)])), current' = current
    PROVE  \E v \in Versions : Promise!Answer(c, v)
<1> DEFINE v == lookup[c].version
           d == lookup[c].digest
           l == [lookup[c] EXCEPT !.pc = "answered", !.shard = None,
                     !.matches = Ascending(Published[v][d])]
<1>1. lookup[c].pc \in HasVersion /\ LookupTyped(lookup[c]) /\ LookupInv(lookup[c])
  BY Parts DEF HasVersion
<1>2. v \in Versions /\ d \in Queries /\ d \in Digests /\ v \in 1..current
  BY <1>1, HasItsShard, ClientAssumption DEF LookupInv
<1>3. Becomes(c, l)
  BY <1>1, AnsweredRight
<1>4. /\ l.pc = "answered" /\ l.digest = d /\ l.version = v
      /\ l.startedAt = lookup[c].startedAt /\ l.matches = Occurring[v][d]
  BY <1>1, <1>2 DEF LookupTyped, Idle, Occurring
<1> HIDE DEF l
<1>5. Shown(l) = Promise!Told(c, "answered", v, Occurring[v][d])
  <2>1. Calls[c].digest = d /\ Calls[c].startedAt = lookup[c].startedAt
    BY DEF Calls, Shown
  <2>2. Shown(l) =
            [state |-> "answered", digest |-> d, startedAt |-> lookup[c].startedAt,
             version |-> v, matches |-> Occurring[v][d]]
    BY <1>4, ShownEnded
  <2> HIDE DEF v, d
  <2> QED
    BY <2>1, <2>2 DEF Promise!Told
<1>6. Calls' = [Calls EXCEPT ![c] = Shown(l)]
  BY <1>3, OneCallChanges
<1>7. Calls[c].state = "asked" /\ Calls[c] = Shown(lookup[c]) /\ Calls[c].digest = d
  BY DEF Calls, Shown, StateShown
<1>8. v <= current
  <2>1. current \in Nat
    BY Parts, CurrentIsNumber
  <2>2. v \in 1..current
    BY <1>2
  <2> HIDE DEF v
  <2> QED
    BY <2>1, <2>2, BelowItself
<1>9. Promise!Answer(c, v)
  BY <1>5, <1>6, <1>7, <1>8 DEF Promise!Answer
<1> QED
  BY <1>2, <1>9

LEMMA ClientKeepsPromise ==
    ASSUME ClientInv, ClientInv', NEW c \in Clients, ClientNext(c)
    PROVE  [Promise!Next]_(Promise!vars)
<1>1. CASE \E d \in Queries, o \in BOOLEAN : Start(c, d, o)
  BY <1>1, StartAsks DEF Promise!Next
<1>2. CASE \/ ReadManifest(c) \/ FetchManifest(c) \/ OpenManifest(c) \/ WriteManifest(c)
           \/ FetchShard(c) \/ RefreshAfter404(c) \/ OpenShard(c)
  BY <1>2, WorkingSteps
<1>3. CASE ReadShard(c)
  <2>1. lookup[c].pc \in HasVersion /\ lookup[c].pc = "shard"
    BY <1>3 DEF ReadShard, At, HasVersion
  <2>2. shardFiles[PathFor(c)] = ShardAt[PathFor(c)]
    BY <1>3, <2>1, HasItsShard, Parts DEF ReadShard, FilesInv, Paths
  <2>3. Becomes(c, Answered(lookup[c], ShardAt[PathFor(c)])) /\ current' = current
    BY <1>3, <2>2 DEF ReadShard
  <2> QED
    BY <2>1, <2>3, AnswerAnswers DEF Promise!Next
<1>4. CASE WriteShard(c)
  <2>1. lookup[c].pc \in HasVersion /\ lookup[c].pc = "write shard"
        /\ lookup[c].pc \in HasShard
    BY <1>4 DEF WriteShard, At, HasVersion, HasShard
  <2>2. lookup[c].shard = ShardAt[PathFor(c)]
    BY <2>1, HasItsShard, Parts DEF LookupInv
  <2>3. Becomes(c, Answered(lookup[c], ShardAt[PathFor(c)])) /\ current' = current
    BY <1>4, <2>2 DEF WriteShard
  <2> QED
    BY <2>1, <2>3, AnswerAnswers DEF Promise!Next
<1>5. CASE NotFound(c)
  BY <1>5, NotFoundMisses DEF Promise!Next
<1>6. CASE \/ RejectManifest(c) \/ MissManifest(c) \/ ManifestFails(c) \/ IndexInfo(c)
           \/ RejectShard(c) \/ MissShard(c) \/ ShardFails(c) \/ End(c)
  <2>1. Becomes(c, Idle) /\ current' = current
    BY <1>6
    DEF RejectManifest, MissManifest, ManifestFails, IndexInfo, RejectShard, MissShard,
        ShardFails, End
  <2> QED
    BY <2>1, EndLeaves DEF Promise!Next
<1> QED
  BY <1>1, <1>2, <1>3, <1>4, <1>5, <1>6 DEF ClientNext

-----------------------------------------------------------------------------
(* Theorems *)

\* Whatever the clients, the publications and the order of their steps, what each lookup
\* knows is in agreement, and every cached shard is the one it is filed as.
THEOREM ClientInvariance == Spec => []ClientInv
<1>1. ASSUME ClientInv, [Next]_vars
      PROVE  ClientInv'
  <2>1. CASE \E c \in Clients : ClientNext(c)
    BY <1>1, <2>1, ClientPreserves
  <2>2. CASE Deploy
    BY <1>1, <2>2, DeployPreserves
  <2>3. CASE Expire \/ UNCHANGED vars
    BY <1>1, <2>3, ExpirePreserves
  <2> QED
    BY <1>1, <2>1, <2>2, <2>3 DEF Next
<1> QED
  BY <1>1, InitInv, PTL DEF Spec

\* A digest is answered with exactly the occurrences it has in the version the result
\* names (FacehuggerClient.lookup): a cache of several versions is never mixed up.
THEOREM NeverMixesVersions == Spec => []AnswersItsVersion
<1>1. ClientInv => AnswersItsVersion
  BY DEF ClientInv, LookupInv, AnswersItsVersion, At
<1> QED
  BY <1>1, ClientInvariance, PTL

\* The one refresh of lookup() is enough unless the site is replaced in the meantime.
THEOREM OneRefreshSuffices == Spec => []RefreshSuffices
<1>1. ClientInv => RefreshSuffices
  <2> SUFFICES ASSUME ClientInv, NEW c \in Clients, At(c, "not found")
               PROVE  current > lookup[c].startedAt
    BY DEF RefreshSuffices
  <2>1. lookup[c].startedAt < current
    BY DEF ClientInv, LookupInv, At
  <2>2. current \in Nat /\ lookup[c].startedAt \in 0..current
    BY Parts, CurrentIsNumber DEF LookupTyped
  <2> QED
    BY <2>1, <2>2
<1> QED
  BY <1>1, ClientInvariance, PTL

\* An answer after a refresh is at least as new as what was served when the lookup began.
THEOREM RefreshNeverOld == Spec => []RefreshedIsCurrent
<1>1. ClientInv => RefreshedIsCurrent
  BY DEF ClientInv, LookupInv, RefreshedIsCurrent, HasVersion, At
<1> QED
  BY <1>1, ClientInvariance, PTL

\* The client implements the promise: whatever happens in a cache shared with others and
\* at a site that is replaced, lookup() gives answers of one publication.
THEOREM ImplementsPromise == Spec => KeepsPromise
<1>1. Init => Promise!Init
  <2> SUFFICES ASSUME Init PROVE Promise!Init
    OBVIOUS
  <2>1. Shown(Idle) = Promise!NoCall
    BY DEF Shown, StateShown, Idle, Promise!NoCall
  <2>2. Calls = [c \in Clients |-> Promise!NoCall]
    BY <2>1 DEF Init, Calls
  <2> QED
    BY <2>2 DEF Init, Promise!Init
<1>2. ASSUME ClientInv, ClientInv', [Next]_vars
      PROVE  [Promise!Next]_(Promise!vars)
  <2>1. CASE \E c \in Clients : ClientNext(c)
    BY <1>2, <2>1, ClientKeepsPromise
  <2>2. CASE Deploy
    <3>1. Calls' = Calls
      BY <2>2 DEF Deploy, Calls
    <3> QED
      BY <2>2, <3>1 DEF Deploy, Promise!Publish, Promise!Next
  <2>3. CASE Expire \/ UNCHANGED vars
    BY <2>3 DEF Expire, vars, Calls, Promise!vars
  <2> QED
    BY <1>2, <2>1, <2>2, <2>3 DEF Next
<1> QED
  BY <1>1, <1>2, ClientInvariance, PTL DEF Spec, KeepsPromise, Promise!Spec
=============================================================================
