---------------------------- MODULE StaticClient ----------------------------
(***************************************************************************)
(* Lookups in the static index: src/facehugger/client.py.  Processes that  *)
(* share a cache directory look digests up while the site is replaced by   *)
(* the next publication, whose deployment takes the old shards away.       *)
(*                                                                         *)
(* A lookup reads or fetches the manifest, then the shard its version and  *)
(* prefix length lead to, and refreshes the manifest once if that shard is *)
(* gone.  There is one action per request and per access to a file: a file *)
(* is empty once it is opened, and has its content after the write.        *)
(*                                                                         *)
(* As elsewhere, an operator directly before one it resembles is a mistake *)
(* the properties are tried on.                                            *)
(***************************************************************************)
EXTENDS ShardFormat

CONSTANTS
    Clients,     \* the processes that use the cache
    Queries,     \* the digests that are looked up
    Versions,    \* 1..n, the publications: bounds their number
    Published,   \* Published[v]: the index of a publication
    Misleading,  \* the versions that have "404" in their name
    None,        \* no file, or a local variable that has no value yet
    Empty,       \* a file that was opened and is not written yet
    Garbled      \* a file with the remains of two manifests

VARIABLES
    current,       \* the version of the site that is served, 0 before the first
    manifestFile,  \* manifest.json in the cache: the version it is of, or its defect
    fresh,         \* whether it is within its lifetime
    shardFiles,    \* the shards in the cache, by their paths
    lookup         \* the locals of each client's lookup

cacheVars == <<manifestFile, fresh, shardFiles>>
vars == <<current, cacheVars, lookup>>

\* The site of each version: the prefix length its manifest names, and its shards.
Digits == [v \in Versions |-> PrefixLength(Published[v])]

AllPrefixes == UNION {Prefixes(k) : k \in PrefixLengths}

PathWithoutVersion(v, p) == <<1, p>>

\* Where a shard is in the cache.
Path(v, p) == <<v, p>>

Paths == Versions \X AllPrefixes

\* The shards of each publication, by version and prefix.
ShardAt == [path \in Paths |-> Shard(Published[path[1]], path[2])]

Shards == {ShardAt[path] : path \in Paths}

ASSUME ClientAssumption ==
    /\ Queries \subseteq Digests
    /\ IsFiniteSet(Versions) /\ Versions = 1..Cardinality(Versions)
    /\ \A v \in Versions : Published[v] \in Index /\ Compilable(Published[v])
    /\ \A x \in {None, Empty, Garbled} : x \notin Versions /\ x \notin Shards
    /\ Cardinality({None, Empty, Garbled}) = 3

-----------------------------------------------------------------------------
(* One step of a lookup *)

Steps == {"idle", "manifest", "open manifest", "write manifest", "shard", "open shard",
          "write shard", "answered", "rejected", "not found"}

Idle == [pc |-> "idle", offline |-> FALSE, digest |-> None, refreshed |-> FALSE,
         version |-> None, prefix |-> None, shard |-> None, matches |-> None,
         startedAt |-> 0]

\* `startedAt` is history: the version that was served when the lookup began.
Begun(d, o) == [Idle EXCEPT !.pc = "manifest", !.offline = o, !.digest = d,
                            !.startedAt = current]

At(c, step) == lookup[c].pc = step

Becomes(c, l) == lookup' = [lookup EXCEPT ![c] = l]

Goto(c, step) == Becomes(c, [lookup[c] EXCEPT !.pc = step])

\* parse_manifest: the version in a manifest, and its prefix length.
Parsed(v) == [version |-> v, digits |-> Digits[v]]

WithManifestKeepingPrefix(l, v) ==
    [l EXCEPT !.version = Parsed(v).version,
              !.prefix = IF l.refreshed THEN l.prefix
                         ELSE PrefixOf(l.digest, Parsed(v).digits)]

\* The version of the manifest goes on, and the digest's prefix of its length.
WithManifest(l, v) ==
    [l EXCEPT !.version = Parsed(v).version,
              !.prefix = PrefixOf(l.digest, Parsed(v).digits)]

-----------------------------------------------------------------------------
(* The manifest *)

Start(c, d, o) ==
    /\ At(c, "idle")
    /\ Becomes(c, Begun(d, o))
    /\ UNCHANGED <<current, cacheVars>>

UsesCacheAnyway(c) == manifestFile # None /\ (lookup[c].offline \/ fresh)

\* When the cached manifest is read: while it is fresh, unless a refresh is forced, and
\* offline at any age.
UsesCache(c) ==
    manifestFile # None /\ (lookup[c].offline \/ (fresh /\ ~lookup[c].refreshed))

ReadManifest(c) ==
    /\ At(c, "manifest") /\ UsesCache(c)
    /\ manifestFile \in Versions
    /\ Becomes(c, [WithManifest(lookup[c], manifestFile) EXCEPT !.pc = "shard"])
    /\ UNCHANGED <<current, cacheVars>>

\* The file is not JSON: an exception ends the lookup.
RejectManifest(c) ==
    /\ At(c, "manifest") /\ UsesCache(c)
    /\ manifestFile \notin Versions
    /\ Becomes(c, Idle)
    /\ UNCHANGED <<current, cacheVars>>

\* There is no file, and no network to fetch it from.
MissManifest(c) ==
    /\ At(c, "manifest") /\ ~UsesCache(c)
    /\ lookup[c].offline
    /\ Becomes(c, Idle)
    /\ UNCHANGED <<current, cacheVars>>

FetchesManifest(c) == At(c, "manifest") /\ ~UsesCache(c) /\ ~lookup[c].offline

FetchManifest(c) ==
    /\ FetchesManifest(c)
    /\ current > 0
    /\ Becomes(c, [WithManifest(lookup[c], current) EXCEPT !.pc = "open manifest"])
    /\ UNCHANGED <<current, cacheVars>>

\* No such file, no answer, or none that is a JSON object.
ManifestFails(c) ==
    /\ FetchesManifest(c)
    /\ Becomes(c, Idle)
    /\ UNCHANGED <<current, cacheVars>>

OpenManifest(c) ==
    /\ At(c, "open manifest")
    /\ manifestFile' = Empty
    /\ fresh' = TRUE
    /\ Goto(c, "write manifest")
    /\ UNCHANGED <<current, shardFiles>>

\* Written over what another client wrote after this one opened the file, a manifest
\* leaves the end of a longer one standing.
WriteManifest(c) ==
    /\ At(c, "write manifest")
    /\ \/ manifestFile' = lookup[c].version
       \/ manifestFile \notin {Empty, lookup[c].version} /\ manifestFile' = Garbled
    /\ fresh' = TRUE
    /\ Goto(c, "shard")
    /\ UNCHANGED <<current, shardFiles>>

\* index_info() needs no shard.
IndexInfo(c) ==
    /\ At(c, "shard") /\ ~lookup[c].refreshed
    /\ Becomes(c, Idle)
    /\ UNCHANGED <<current, cacheVars>>

-----------------------------------------------------------------------------
(* The shard *)

\* What is left to do with a shard: parse_shard, then the bisection.
Answered(l, shard) ==
    IF Accepted(shard, l.prefix)
    THEN [l EXCEPT !.pc = "answered", !.shard = None,
                   !.matches = Matches(shard, SuffixOf(l.digest, l.prefix.digits))]
    ELSE [l EXCEPT !.pc = "rejected", !.shard = None]

PathFor(c) == Path(lookup[c].version, lookup[c].prefix)

ReadShard(c) ==
    /\ At(c, "shard")
    /\ shardFiles[PathFor(c)] \notin {None, Empty}
    /\ Becomes(c, Answered(lookup[c], shardFiles[PathFor(c)]))
    /\ UNCHANGED <<current, cacheVars>>

RejectShard(c) ==
    /\ At(c, "shard")
    /\ shardFiles[PathFor(c)] = Empty
    /\ Becomes(c, Idle)
    /\ UNCHANGED <<current, cacheVars>>

MissShard(c) ==
    /\ At(c, "shard")
    /\ shardFiles[PathFor(c)] = None /\ lookup[c].offline
    /\ Becomes(c, Idle)
    /\ UNCHANGED <<current, cacheVars>>

FetchesShard(c) == At(c, "shard") /\ shardFiles[PathFor(c)] = None /\ ~lookup[c].offline

\* compile_site writes a file for every prefix, and only the last site is served.
Served(c) ==
    /\ lookup[c].version = current
    /\ lookup[c].prefix \in Prefixes(Digits[current])

FetchShard(c) ==
    /\ FetchesShard(c) /\ Served(c)
    /\ Becomes(c, [lookup[c] EXCEPT !.pc = "open shard",
                      !.shard = ShardAt[<<current, lookup[c].prefix>>]])
    /\ UNCHANGED <<current, cacheVars>>

\* The first 404 forces a refresh of the manifest, and so does any other error whose text,
\* which may have the name of the version in it, contains "404".
RefreshAfter404(c) ==
    /\ FetchesShard(c) /\ ~lookup[c].refreshed
    /\ ~Served(c) \/ lookup[c].version \in Misleading
    /\ Becomes(c, [lookup[c] EXCEPT !.pc = "manifest", !.refreshed = TRUE])
    /\ UNCHANGED <<current, cacheVars>>

\* The second one is the end of the lookup.
NotFound(c) ==
    /\ FetchesShard(c) /\ lookup[c].refreshed
    /\ ~Served(c)
    /\ Goto(c, "not found")
    /\ UNCHANGED <<current, cacheVars>>

\* No answer, an error other than a 404, or an answer that is not a JSON object.
ShardFails(c) ==
    /\ FetchesShard(c)
    /\ Becomes(c, Idle)
    /\ UNCHANGED <<current, cacheVars>>

OpenShard(c) ==
    /\ At(c, "open shard")
    /\ shardFiles' = [shardFiles EXCEPT ![PathFor(c)] = Empty]
    /\ Goto(c, "write shard")
    /\ UNCHANGED <<current, manifestFile, fresh>>

WriteShard(c) ==
    /\ At(c, "write shard")
    /\ shardFiles' = [shardFiles EXCEPT ![PathFor(c)] = lookup[c].shard]
    /\ Becomes(c, Answered(lookup[c], lookup[c].shard))
    /\ UNCHANGED <<current, manifestFile, fresh>>

-----------------------------------------------------------------------------
(* Processes, time and publications *)

\* The lookup returns or raises; or the process dies in the middle of it, and a file it
\* has opened stays as it is.
End(c) ==
    /\ ~At(c, "idle")
    /\ Becomes(c, Idle)
    /\ UNCHANGED <<current, cacheVars>>

\* The next completed generation takes the place of the site.
Deploy ==
    /\ current + 1 \in Versions
    /\ current' = current + 1
    /\ UNCHANGED <<cacheVars, lookup>>

\* The cached manifest outlives its lifetime.
Expire ==
    /\ fresh
    /\ fresh' = FALSE
    /\ UNCHANGED <<current, manifestFile, shardFiles, lookup>>

Init ==
    /\ current = 0
    /\ manifestFile = None
    /\ fresh = FALSE
    /\ shardFiles = [path \in Paths |-> None]
    /\ lookup = [c \in Clients |-> Idle]

ClientNext(c) ==
    \/ \E d \in Queries, o \in BOOLEAN : Start(c, d, o)
    \/ ReadManifest(c) \/ RejectManifest(c) \/ MissManifest(c)
    \/ FetchManifest(c) \/ ManifestFails(c)
    \/ OpenManifest(c) \/ WriteManifest(c) \/ IndexInfo(c)
    \/ ReadShard(c) \/ RejectShard(c) \/ MissShard(c) \/ FetchShard(c) \/ RefreshAfter404(c) \/ NotFound(c)
    \/ ShardFails(c) \/ OpenShard(c) \/ WriteShard(c)
    \/ End(c)

Next ==
    \/ \E c \in Clients : ClientNext(c)
    \/ Deploy
    \/ Expire

Spec == Init /\ [][Next]_vars

-----------------------------------------------------------------------------
(* Properties *)

\* The variables are well formed, and the cached manifest is of a version deployed.
TypeOK ==
    /\ current \in {0} \union Versions
    /\ manifestFile \in (1..current) \union {None, Empty, Garbled}
    /\ fresh \in BOOLEAN
    /\ DOMAIN shardFiles = Paths
    /\ DOMAIN lookup = Clients
    /\ \A c \in Clients :
          /\ DOMAIN lookup[c] = DOMAIN Idle
          /\ lookup[c].pc \in Steps
          /\ lookup[c].offline \in BOOLEAN /\ lookup[c].refreshed \in BOOLEAN
          /\ lookup[c].startedAt \in 0..current

\* A digest is answered with exactly the occurrences it has in the index version the
\* result names (client.py:62), whatever files of other versions the cache holds, whoever
\* else writes to it, and however the site was replaced in the meantime.
AnswersItsVersion ==
    \A c \in Clients : At(c, "answered") =>
        LET l == lookup[c]
        IN l.matches = Ascending(Published[l.version][l.digest])

\* A single refresh is enough: a lookup ends in a 404 only if the site was replaced while
\* it was running.
RefreshSuffices ==
    \A c \in Clients : At(c, "not found") => current > lookup[c].startedAt

\* A lookup that had to refresh is answered from a version no older than the one that was
\* served when it began, even if other clients write older manifests to the cache.
RefreshedIsCurrent ==
    \A c \in Clients :
        At(c, "answered") /\ lookup[c].refreshed => lookup[c].version >= lookup[c].startedAt

\* What a lookup shows to its caller: nothing of the steps it takes.
StateShown(pc) ==
    CASE pc = "idle" -> "none"
      [] pc = "answered" -> "answered"
      [] pc = "not found" -> "missing"
      [] pc = "rejected" -> "rejected"
      [] OTHER -> "asked"

Shown(l) ==
    [state |-> StateShown(l.pc), digest |-> l.digest, startedAt |-> l.startedAt,
     version |-> IF l.pc = "answered" THEN l.version ELSE None,
     matches |-> IF l.pc = "answered" THEN l.matches ELSE None]

Calls == [c \in Clients |-> Shown(lookup[c])]

Occurring == [v \in Versions |-> [d \in Digests |-> Ascending(Published[v][d])]]

Promise == INSTANCE LookupPromise WITH
    Nothing <- None, Content <- Occurring, call <- Calls

\* A lookup, with all its requests and files, those of other processes and the deployments
\* in between, does no more than take an answer out of one publication that was served; its
\* caller never sees a rejected shard (client.py:39-62).
KeepsPromise == Promise!Spec

HasVersion == {"open manifest", "write manifest", "shard", "open shard", "write shard",
               "answered", "not found"}

HasShard == {"open shard", "write shard"}

\* What a lookup knows at each step is in agreement: the prefix with the manifest, the
\* shard with both, and the answer with the index.
LookupInv(l) ==
    /\ l.pc # "rejected"
    /\ l.refreshed => ~l.offline
    /\ l.pc # "idle" => l.digest \in Queries
    /\ l.pc \in HasVersion =>
          /\ l.version \in 1..current
          /\ l.prefix = PrefixOf(l.digest, Digits[l.version])
          /\ l.refreshed => l.version >= l.startedAt
    /\ l.pc \in HasShard => l.shard = ShardAt[<<l.version, l.prefix>>]
    /\ l.pc = "answered" => l.matches = Ascending(Published[l.version][l.digest])
    /\ l.pc = "not found" => l.startedAt < current

\* A shard in the cache is the one of the version and prefix it is filed under.
FilesInv ==
    \A v \in Versions, p \in AllPrefixes :
        shardFiles[<<v, p>>] \in {None, Empty, ShardAt[<<v, p>>]}

\* The inductive invariant.
ClientInv == TypeOK /\ FilesInv /\ \A c \in Clients : LookupInv(lookup[c])
=============================================================================
