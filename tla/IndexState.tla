----------------------------- MODULE IndexState -----------------------------
(***************************************************************************)
(* The durable SQLite state of the indexer: src/facehugger/state.py.       *)
(*                                                                         *)
(* There is one action per committed transaction, so that a method of      *)
(* IndexState that commits more than once (start_catalog_generation,       *)
(* finish_catalog_generation, complete_catalog_generation) is several      *)
(* actions, and a process that dies between two commits is a behaviour of  *)
(* whichever module calls them.  StateSpec lets any caller call any method *)
(* at any time its own checks accept; module Crawler is the caller the     *)
(* program has.                                                            *)
(*                                                                         *)
(* An operator directly before one it resembles, named for how it differs  *)
(* (WriteFilesKeepingArtifacts before WriteFiles), is a mistake the code   *)
(* could have made.  The specification does not use it: a property is      *)
(* shown to tell the two apart by checking that it fails with it.          *)
(***************************************************************************)
EXTENDS Integers, FiniteSets

CONSTANTS
    Repos,      \* repository identifiers, as numbers: repo_id is compared with <
    Revisions,  \* commit identifiers
    NoRev,      \* a NULL revision
    Paths,      \* candidate artifact paths
    Shas,       \* SHA-256 digests
    NoSha,      \* a file whose metadata has no exact digest
    Content,    \* Content[r][v]: the candidate files of repository r at commit v
    Legacy,     \* repositories indexed by an older release, with their revision
    Generations,\* catalog generation numbers, from 1: bounds the generations opened
    Stamps      \* modification times; a continuation URL is the time of the last
                \* repository its page listed: bounds the changes of the catalog

Revs == Revisions \union {NoRev}
File == [path : Paths, sha : Shas \union {NoSha}]

ASSUME ReposAssumption == Repos \subseteq Nat \ {0} /\ IsFiniteSet(Repos)
ASSUME BoundsAssumption == Generations \subseteq Nat \ {0} /\ Stamps \subseteq Nat \ {0}
ASSUME NullAssumption == NoRev \notin Revisions /\ NoSha \notin Shas
ASSUME ContentAssumption ==
    /\ Content \in [Repos -> [Revisions -> SUBSET File]]
    /\ \A r \in Repos, v \in Revisions : \A f, g \in Content[r][v] :
          f.path = g.path => f = g
ASSUME LegacyAssumption ==
    /\ DOMAIN Legacy \subseteq Repos
    /\ \A r \in DOMAIN Legacy : Legacy[r] \in Revisions

VARIABLES
    repos,               \* table repos: a function whose domain is the rows' repo_id
    files,               \* occurrences and candidate_files_without_sha256, by repository
    artifacts,           \* table artifacts: the digests it has a row for
    activeGeneration,    \* metadata active_catalog_generation, 0 when absent
    completedGeneration, \* metadata completed_catalog_generation, 0 when absent
    enumerated,          \* metadata catalog_generation_complete
    nextUrl              \* metadata catalog_next_url, 0 when absent

catalogVars  == <<repos, files, artifacts>>
metadataVars == <<activeGeneration, completedGeneration, enumerated, nextUrl>>
indexVars    == <<repos, files, artifacts, activeGeneration, completedGeneration,
                  enumerated, nextUrl>>

Status == {"pending", "indexed", "error", "excluded", "unavailable"}

Row == [rev : Revs, gated : BOOLEAN, catRev : Revs, catGated : BOOLEAN,
        eligible : BOOLEAN, gen : Generations \union {0}, status : Status]

\* One catalog observation: the revision and gate the catalog reports, and
\* whether the repository is public with at least one candidate path.
Entry == [rev : Revs, gated : BOOLEAN, eligible : BOOLEAN]

-----------------------------------------------------------------------------
(* Rows and files *)

\* The column defaults of a row that only its repo_id and a few columns were given for.
NewRow == [rev |-> NoRev, gated |-> FALSE, catRev |-> NoRev, catGated |-> FALSE,
           eligible |-> FALSE, gen |-> 0, status |-> "pending"]

\* The row of r, or the defaults an INSERT starts from.
Prior(r) == IF r \in DOMAIN repos THEN repos[r] ELSE NewRow

\* The file rows of r at a revision: each carries the revision it was read at.
FileRows(r, rev) == IF rev = NoRev THEN {} ELSE {rev} \X Content[r][rev]

Digests(rows) == {row[2].sha : row \in rows} \ {NoSha}

Referenced(table) == UNION {Digests(table[r]) : r \in Repos}

WriteFilesKeepingArtifacts(table, added) ==
    /\ files' = table
    /\ artifacts' = artifacts \union added

\* Files and artifacts after a transaction that leaves the file rows `table`,
\* adds the digests `added`, and last removes the artifacts nothing refers to.
WriteFiles(table, added) ==
    /\ files' = table
    /\ artifacts' = (artifacts \union added) \intersect Referenced(table)

-----------------------------------------------------------------------------
(* Queries *)

PendingRowIgnoringGate(row) ==
    /\ row.eligible
    /\ \/ row.status \notin {"indexed", "unavailable"}
       \/ row.rev # row.catRev

PendingRow(row) ==
    /\ row.eligible
    /\ \/ row.status \notin {"indexed", "unavailable"}
       \/ row.rev # row.catRev
       \/ row.gated # row.catGated

Pending == {r \in DOMAIN repos : PendingRow(repos[r])}

CatalogedAfter(cursor, limit) ==
    LET after == {r \in DOMAIN repos : r > cursor}
    IN {r \in after : Cardinality({q \in after : q < r}) < limit}

\* The `limit` first pending repositories after the cursor, in repo_id order.
PendingAfter(cursor, limit) ==
    LET after == {r \in Pending : r > cursor}
    IN {r \in after : Cardinality({q \in after : q < r}) < limit}

-----------------------------------------------------------------------------
(* Catalog generations *)

ReopenGeneration ==
    /\ activeGeneration = 0
    /\ completedGeneration + 1 \in Generations
    /\ activeGeneration' = IF completedGeneration = 0 THEN 1 ELSE completedGeneration
    /\ UNCHANGED <<catalogVars, completedGeneration, enumerated, nextUrl>>

\* start_catalog_generation without an active generation, first commit.
OpenGeneration ==
    /\ activeGeneration = 0
    /\ completedGeneration + 1 \in Generations
    /\ activeGeneration' = completedGeneration + 1
    /\ UNCHANGED <<catalogVars, completedGeneration, enumerated, nextUrl>>

\* start_catalog_generation, second commit.
ResetEnumerated ==
    /\ activeGeneration # 0
    /\ enumerated = "absent"
    /\ enumerated' = "false"
    /\ UNCHANGED <<catalogVars, activeGeneration, completedGeneration, nextUrl>>

\* The row of r after the catalog observed e for it in generation g.
ObservedKeepingStatus(r, e, g) ==
    [Prior(r) EXCEPT !.catRev = e.rev, !.catGated = e.gated,
                     !.eligible = e.eligible, !.gen = g]

ObservedKeepingGeneration(r, e, g) ==
    [Prior(r) EXCEPT
        !.catRev = e.rev, !.catGated = e.gated, !.eligible = e.eligible,
        !.status = IF ~e.eligible THEN "excluded"
                   ELSE IF Prior(r).status \in {"excluded", "unavailable"} THEN "pending"
                   ELSE Prior(r).status]

ObservedRow(r, e, g) ==
    [Prior(r) EXCEPT
        !.catRev = e.rev, !.catGated = e.gated, !.eligible = e.eligible, !.gen = g,
        !.status = IF ~e.eligible THEN "excluded"
                   ELSE IF Prior(r).status \in {"excluded", "unavailable"} THEN "pending"
                   ELSE Prior(r).status]

FilesKeptIfIneligible(seen) == files

\* The file rows left once the observed repositories that are not eligible lost theirs.
FilesAfterCatalog(seen) ==
    [r \in Repos |-> IF r \in DOMAIN seen /\ ~seen[r].eligible THEN {} ELSE files[r]]

\* record_catalog_repositories: one page of observations in one transaction.
RecordCatalogRepositories(seen, g) ==
    \/ /\ DOMAIN seen = {}
       /\ UNCHANGED indexVars
    \/ /\ DOMAIN seen # {}
       /\ repos' = [r \in DOMAIN repos \union DOMAIN seen |->
                       IF r \in DOMAIN seen THEN ObservedRow(r, seen[r], g) ELSE repos[r]]
       /\ WriteFiles(FilesAfterCatalog(seen), {})
       /\ UNCHANGED metadataVars

\* set_metadata("catalog_next_url", ...).
SetContinuation(url) ==
    /\ nextUrl' = url
    /\ UNCHANGED <<catalogVars, activeGeneration, completedGeneration, enumerated>>

ObservedIn(g) == {r \in DOMAIN repos : repos[r].gen = g}

ReconcileKeepingRows(g) ==
    /\ activeGeneration = g /\ g # 0
    /\ UNCHANGED indexVars

\* finish_catalog_generation, first commit: the rows of other generations go,
\* and their file rows by ON DELETE CASCADE.
ReconcileRemovals(g) ==
    /\ activeGeneration = g /\ g # 0
    /\ repos' = [r \in ObservedIn(g) |-> repos[r]]
    /\ WriteFiles([r \in Repos |-> IF r \in DOMAIN repos \ ObservedIn(g)
                                   THEN {} ELSE files[r]], {})
    /\ UNCHANGED metadataVars

\* finish_catalog_generation, second and third commits.
MarkEnumerated ==
    /\ activeGeneration # 0
    /\ enumerated' = "true"
    /\ UNCHANGED <<catalogVars, activeGeneration, completedGeneration, nextUrl>>

ClearContinuation ==
    /\ nextUrl' = 0
    /\ UNCHANGED <<catalogVars, activeGeneration, completedGeneration, enumerated>>

MarkCompletedRetiringFirst ==
    /\ enumerated = "true"
    /\ Pending = {}
    /\ activeGeneration # 0
    /\ activeGeneration' = 0
    /\ UNCHANGED <<catalogVars, completedGeneration, enumerated, nextUrl>>

\* complete_catalog_generation, first commit.
MarkCompleted ==
    /\ enumerated = "true"
    /\ Pending = {}
    /\ activeGeneration # 0
    /\ completedGeneration' = activeGeneration
    /\ UNCHANGED <<catalogVars, activeGeneration, enumerated, nextUrl>>

RetireKeepingActive ==
    /\ activeGeneration # 0
    /\ completedGeneration = activeGeneration
    /\ enumerated' = "absent"
    /\ UNCHANGED <<catalogVars, activeGeneration, completedGeneration, nextUrl>>

\* complete_catalog_generation, second commit: nextUrl is left as it is.
RetireGeneration ==
    /\ activeGeneration # 0
    /\ completedGeneration = activeGeneration
    /\ activeGeneration' = 0
    /\ enumerated' = "absent"
    /\ UNCHANGED <<catalogVars, completedGeneration, nextUrl>>

-----------------------------------------------------------------------------
(* Inspection results *)

RecordFailureDroppingFiles(r) ==
    /\ repos' = [q \in DOMAIN repos |->
                    IF q = r THEN [repos[q] EXCEPT !.status = "error"] ELSE repos[q]]
    /\ WriteFiles([q \in Repos |-> IF q = r THEN {} ELSE files[q]], {})
    /\ UNCHANGED metadataVars

\* record_inspection_failure: an UPDATE, without effect when there is no row.
RecordInspectionFailure(r) ==
    /\ repos' = [q \in DOMAIN repos |->
                    IF q = r THEN [repos[q] EXCEPT !.status = "error"] ELSE repos[q]]
    /\ UNCHANGED <<files, artifacts, metadataVars>>

\* record_repository_unavailable.
RecordRepositoryUnavailable(r, rev, gated) ==
    /\ repos' = [q \in DOMAIN repos |->
                    IF q = r THEN [repos[q] EXCEPT !.rev = rev, !.gated = gated,
                                      !.eligible = FALSE, !.status = "unavailable"]
                    ELSE repos[q]]
    /\ WriteFiles([q \in Repos |-> IF q = r /\ r \in DOMAIN repos THEN {} ELSE files[q]],
                  {})
    /\ UNCHANGED metadataVars

AddFiles(r, rev) ==
    [q \in Repos |-> IF q = r THEN files[r] \union FileRows(r, rev) ELSE files[q]]

\* The file rows after replace_repo: the old rows of r are deleted, all of them.
ReplaceFiles(r, rev) ==
    [q \in Repos |-> IF q = r THEN FileRows(r, rev) ELSE files[q]]

ReplaceKeepingGate(r, rev, gated) ==
    /\ repos' = [q \in DOMAIN repos \union {r} |->
                    IF q = r THEN [Prior(r) EXCEPT !.rev = rev, !.status = "indexed"]
                    ELSE repos[q]]
    /\ WriteFiles(ReplaceFiles(r, rev), Digests(FileRows(r, rev)))
    /\ UNCHANGED metadataVars

\* replace_repo: the row is inserted when absent; eligible and gen are kept.
ReplaceRepo(r, rev, gated) ==
    /\ repos' = [q \in DOMAIN repos \union {r} |->
                    IF q = r THEN [Prior(r) EXCEPT !.rev = rev, !.gated = gated,
                                                   !.status = "indexed"]
                    ELSE repos[q]]
    /\ WriteFiles(ReplaceFiles(r, rev), Digests(FileRows(r, rev)))
    /\ UNCHANGED metadataVars

-----------------------------------------------------------------------------
(* Any caller *)

\* A new database, or one the schema migration added the catalog columns to.
StateInit ==
    /\ \E gates \in [DOMAIN Legacy -> BOOLEAN] :
          repos = [r \in DOMAIN Legacy |->
                      [NewRow EXCEPT !.rev = Legacy[r], !.gated = gates[r],
                                     !.status = "indexed"]]
    /\ files = [r \in Repos |-> IF r \in DOMAIN Legacy THEN FileRows(r, Legacy[r]) ELSE {}]
    /\ artifacts = Referenced(files)
    /\ activeGeneration = 0
    /\ completedGeneration = 0
    /\ enumerated = "absent"
    /\ nextUrl = 0

GenerationNext ==
    \/ OpenGeneration
    \/ ResetEnumerated
    \/ \E S \in SUBSET Repos : \E seen \in [S -> Entry] :
          activeGeneration # 0 /\ RecordCatalogRepositories(seen, activeGeneration)
    \/ \E url \in Stamps : SetContinuation(url)
    \/ ReconcileRemovals(activeGeneration)
    \/ MarkEnumerated
    \/ ClearContinuation
    \/ MarkCompleted
    \/ RetireGeneration

InspectionNext ==
    \E r \in Repos :
        \/ RecordInspectionFailure(r)
        \/ \E rev \in Revs, gated \in BOOLEAN : RecordRepositoryUnavailable(r, rev, gated)
        \/ \E rev \in Revisions, gated \in BOOLEAN : ReplaceRepo(r, rev, gated)

StateNext == GenerationNext \/ InspectionNext

StateSpec == StateInit /\ [][StateNext]_indexVars

-----------------------------------------------------------------------------
(* Properties *)

\* Each table holds well-formed rows.
StateTypeOK ==
    /\ DOMAIN repos \subseteq Repos
    /\ \A r \in DOMAIN repos : repos[r] \in Row
    /\ files \in [Repos -> SUBSET (Revisions \X File)]
    /\ artifacts \subseteq Shas
    /\ activeGeneration \in Generations \union {0}
    /\ completedGeneration \in Generations \union {0}
    /\ enumerated \in {"absent", "false", "true"}
    /\ nextUrl \in Stamps \union {0}

\* What a repository is published with is one whole revision or nothing: never a
\* mixture of two inspections, whatever order observations, failures, removals and
\* replacements come in; and an "indexed" row has exactly the files of its revision.
WholeRevision ==
    /\ \A r \in DOMAIN repos :
          /\ files[r] \in {{}, FileRows(r, repos[r].rev)}
          /\ repos[r].status = "indexed" => files[r] = FileRows(r, repos[r].rev)
    /\ \A r \in Repos \ DOMAIN repos : files[r] = {}

\* The artifacts table is exactly the digests some file row refers to: none is
\* left behind by a removal, none is dropped that another repository still has.
NoOrphans == artifacts = Referenced(files)

\* A repository that the pending query skips while it is eligible is up to date:
\* its files are those of the revision the catalog last reported, its gate the
\* catalog's.  This is what lets the crawler skip unchanged repositories.
SettledIsCurrent ==
    \A r \in DOMAIN repos :
        repos[r].eligible /\ ~PendingRow(repos[r]) =>
            /\ repos[r].status = "indexed"
            /\ repos[r].gated = repos[r].catGated
            /\ files[r] = FileRows(r, repos[r].catRev)

\* Exclusion always clears eligibility: what SettledIsCurrent needs to be inductive.
EligibleStatus ==
    \A r \in DOMAIN repos :
        repos[r].eligible => repos[r].status \in {"pending", "indexed", "error"}

\* The inductive invariant of the tables.
StateInv == StateTypeOK /\ WholeRevision /\ NoOrphans /\ EligibleStatus
=============================================================================
