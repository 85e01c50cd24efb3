------------------------------ MODULE ProofRun ------------------------------
(***************************************************************************)
(* The bounded proof: src/facehugger/indexer/catalog.py and proof.py.  A   *)
(* run lists the catalog, keeps the best rows of three orders in heaps,    *)
(* inspects the repositories of its corpus one after the other, compiles   *)
(* their index, looks a digest up in the site, downloads a few files to    *)
(* verify the digests the Hub reported, and writes a report.  The database *)
(* outlives it: another run, or one after a kill, finds what it holds.     *)
(*                                                                         *)
(* Repositories are numbers in the order of their ids.  Occurrences belong *)
(* to one repository each; those without a digest are not in the index and *)
(* not in the model.  An operator directly before one it resembles is a    *)
(* mistake the properties are tried on.                                    *)
(***************************************************************************)
EXTENDS ShardFormat

CONSTANTS
    Repos,         \* the repositories
    Rows,          \* what the Hub may list: repo, downloads, score, private
    Rank,          \* _stable_rank of each repository
    CatalogLimit,  \* bounds the rows of a catalog
    Limits,        \* how many rows each source keeps
    RepoCap,       \* PROOF_REPO_CAP
    Extra,         \* the lines of proof-repos-extra.txt
    RepoOf,        \* the repository of each occurrence
    Snapshots,     \* Snapshots[r]: the sets of files an inspection of r may find
    Reported,      \* the digest the Hub reports for each occurrence
    Calculated,    \* the digest of the bytes that are downloaded
    Size,          \* its size
    FileCap,       \* VERIFICATION_FILE_CAP
    SizeCap,       \* VERIFICATION_SIZE_CAP
    TotalCap       \* VERIFICATION_TOTAL_CAP

Sources == {"popular", "random", "targeted"}

ASSUME CatalogAssumption ==
    /\ Repos \subseteq Nat /\ IsFiniteSet(Repos)
    /\ Rows \subseteq [repo : Repos, downloads : Nat, score : Nat, private : BOOLEAN]
    /\ Rank \in [Repos -> Nat] /\ Extra \in Seq(Repos)
    /\ CatalogLimit \in Nat
    /\ Limits \in [Sources -> Nat] /\ RepoCap \in Nat
    /\ Limits["popular"] + Limits["random"] + Limits["targeted"] <= RepoCap
ASSUME FileAssumption ==
    /\ RepoOf \in [Occurrences -> Repos]
    /\ Snapshots \in [Repos -> SUBSET SUBSET Occurrences]
    /\ \A r \in Repos : \A files \in Snapshots[r] : \A o \in files : RepoOf[o] = r
    /\ Reported \in [Occurrences -> Digests] /\ Calculated \in [Occurrences -> Digests]
    /\ Size \in [Occurrences -> Nat]
    /\ FileCap \in Nat /\ SizeCap \in Nat /\ TotalCap \in Nat

VARIABLES
    stored,       \* proof.sqlite: the occurrences it holds
    pc,           \* the statement of run_proof a run is at
    listed,       \* the rows listed so far
    heaps,        \* for each source the positions of the rows it keeps
    corpus,       \* the repositories selected
    composition,  \* how many of them each source gave
    pending,      \* those not inspected yet
    found,        \* history: what the inspections of this run found, by repository
    left,         \* the occurrences verification has not come to yet
    failed,       \* history: those whose download failed
    verified,     \* those downloaded, with the result
    bytes         \* verified_bytes

selection == <<listed, heaps, corpus, composition>>
inspection == <<pending, found>>
verification == <<left, failed, verified, bytes>>
vars == <<stored, pc, selection, inspection, verification>>

-----------------------------------------------------------------------------
(* Selection *)

\* What a row is ordered by; ties are broken by repository.
Keys(row) ==
    [popular  |-> <<row.downloads, row.repo, 0>>,
     random   |-> <<-Rank[row.repo], row.repo, 0>>,
     targeted |-> <<row.score, -Rank[row.repo], row.repo>>]

\* The comparison of tuples.
Above(k, l) ==
    \/ k[1] > l[1]
    \/ k[1] = l[1] /\ k[2] > l[2]
    \/ k[1] = l[1] /\ k[2] = l[2] /\ k[3] > l[3]

Outranks(rows, source, n, m) == Above(Keys(rows[n])[source], Keys(rows[m])[source])

Eligible(row) == ~row.private /\ row.score > 0

\* heap[0]
Lowest(rows, source, heap) ==
    CHOOSE n \in heap : \A m \in heap : ~Outranks(rows, source, n, m)

RetainedEvicting(rows, source, heap, n) ==
    IF Cardinality(heap) < Limits[source] THEN heap \union {n}
    ELSE IF heap # {} THEN (heap \ {Lowest(rows, source, heap)}) \union {n}
    ELSE heap

\* _retain_pair and _retain_triple: a full heap gives up its lowest row for a higher one.
Retained(rows, source, heap, n) ==
    IF Cardinality(heap) < Limits[source] THEN heap \union {n}
    ELSE IF heap # {} /\ Outranks(rows, source, n, Lowest(rows, source, heap))
    THEN (heap \ {Lowest(rows, source, heap)}) \union {n}
    ELSE heap

\* The Hub lists a row; rows may come in any order, and twice.
ListRow ==
    /\ pc = "catalog" /\ Len(listed) < CatalogLimit
    /\ \E row \in Rows :
          LET rows == Append(listed, row)
          IN /\ listed' = rows
             /\ heaps' = IF Eligible(row)
                         THEN [s \in Sources |-> Retained(rows, s, heaps[s], Len(rows))]
                         ELSE heaps
    /\ UNCHANGED <<stored, pc, corpus, composition, inspection, verification>>

AppendWithoutLimit(selected, candidates, limit) ==
    {candidates[i] : i \in DOMAIN candidates} \ selected

\* The candidates _append_unique adds: the first ones that are not selected yet.
AppendUnique(selected, candidates, limit) ==
    LET New(i) == {candidates[h] : h \in 1..(i - 1)} \ selected
    IN {candidates[i] : i \in {j \in DOMAIN candidates :
            candidates[j] \notin selected /\ Cardinality(New(j)) < limit}}

\* A heap is never larger than its limit, so that all of it is appended.
Kept(source) == {listed[n].repo : n \in heaps[source]}

Corpus ==
    LET selected == Kept("popular") \union Kept("random") \union Kept("targeted")
    IN selected \union AppendUnique(selected, Extra, RepoCap - Cardinality(selected))

Composition ==
    LET popular == Kept("popular")
        random == Kept("random") \ popular
        targeted == Kept("targeted") \ (popular \union random)
    IN [popular |-> Cardinality(popular), random |-> Cardinality(random),
        targeted |-> Cardinality(targeted),
        extra |-> Cardinality(Corpus \ (popular \union random \union targeted))]

NoHeaps == [s \in Sources |-> {}]

NoComposition == [s \in Sources \union {"extra"} |-> 0]

\* The catalog ends, at its limit or before.
Select ==
    /\ pc = "catalog" /\ pc' = "inspect"
    /\ corpus' = Corpus /\ composition' = Composition
    /\ pending' = corpus'
    /\ listed' = <<>> /\ heaps' = NoHeaps
    /\ UNCHANGED <<stored, found, verification>>

-----------------------------------------------------------------------------
(* Inspection, compilation and the local lookup *)

OfRepo(r) == {o \in Occurrences : RepoOf[o] = r}

AddFiles(r, files) == stored \union files

\* replace_repo
ReplaceFiles(r, files) == (stored \ OfRepo(r)) \union files

Current == Min(pending)

Inspect ==
    /\ pc = "inspect" /\ pending # {}
    /\ \E files \in Snapshots[Current] :
          /\ stored' = ReplaceFiles(Current, files)
          /\ found' = [r \in DOMAIN found \union {Current} |->
                          IF r = Current THEN files ELSE found[r]]
    /\ pending' = pending \ {Current}
    /\ UNCHANGED <<pc, selection, verification>>

\* Whatever the reason, the repository is passed over.
InspectionError ==
    /\ pc = "inspect" /\ pending # {}
    /\ pending' = pending \ {Current}
    /\ UNCHANGED <<stored, pc, selection, found, verification>>

\* iter_artifacts: the occurrences of each digest.
IndexOf(files) == [d \in Digests |-> {o \in files : Reported[o] = d}]

\* The database does not change any more: the site is what is compiled from it here.
Compile ==
    /\ pc = "inspect" /\ pending = {}
    /\ pc' = IF Compilable(IndexOf(stored)) THEN "measure" ELSE "ended"
    /\ UNCHANGED <<stored, selection, inspection, verification>>

\* What a client looks up in the site: the shard of the digest, parsed and bisected.
SiteShard(d) == Shard(IndexOf(stored), PrefixOf(d, PrefixLength(IndexOf(stored))))

SiteMatches(d) == Matches(SiteShard(d), SuffixOf(d, PrefixLength(IndexOf(stored))))

FirstDigest == Min({Reported[o] : o \in stored})

\* There has to be a digest, and the client has to accept its shard.
MeasureLocalLookup ==
    /\ pc = "measure"
    /\ IF stored # {} /\ Accepted(SiteShard(FirstDigest), SiteShard(FirstDigest).prefix)
       THEN pc' = "verify" /\ left' = stored
       ELSE pc' = "ended" /\ UNCHANGED left
    /\ UNCHANGED <<stored, selection, inspection, failed, verified, bytes>>

-----------------------------------------------------------------------------
(* Verification and the report *)

EligibleForgettingTotal(o) == Size[o] <= SizeCap

\* _eligible_verification_file
EligibleFile(o) == Size[o] <= SizeCap /\ bytes + Size[o] <= TotalCap

Candidates == {o \in left : EligibleFile(o)}

\* Digest by digest, and within one in the order of its occurrences.  What is not eligible
\* when it is passed does not become so, since the total only grows.
NextFile ==
    CHOOSE o \in Candidates : \A x \in Candidates :
        Reported[o] < Reported[x] \/ (Reported[o] = Reported[x] /\ o <= x)

Verifying == pc = "verify" /\ Candidates # {} /\ Cardinality(verified) < FileCap

LeftAfterGivingUp(o) == {x \in left : Reported[x] # Reported[o]}

\* The next occurrence of the same digest is tried.
LeftAfterFailure(o) == left \ {o}

DownloadFails ==
    /\ Verifying
    /\ failed' = failed \union {NextFile}
    /\ left' = LeftAfterFailure(NextFile)
    /\ UNCHANGED <<stored, pc, selection, inspection, verified, bytes>>

\* One file is enough for a digest.
LeftAfter(o) == {x \in left : Reported[x] # Reported[o]}

\* A mismatch ends the verification.
Download ==
    /\ Verifying
    /\ LET result == Calculated[NextFile] = Reported[NextFile]
       IN /\ verified' = verified \union {[file |-> NextFile, result |-> result]}
          /\ pc' = IF result THEN pc ELSE "report"
          /\ bytes' = IF result THEN bytes + Size[NextFile] ELSE bytes
    /\ left' = LeftAfter(NextFile)
    /\ UNCHANGED <<stored, selection, inspection, failed>>

VerificationEnds ==
    /\ pc = "verify" /\ ~Verifying
    /\ pc' = "report"
    /\ UNCHANGED <<stored, selection, inspection, verification>>

Mismatches == {v \in verified : ~v.result}

\* Whether _verify_small_files raised ProofStopError.
StopError == Mismatches # {} \/ Cardinality(verified) < FileCap

\* The report is written before the error is raised.
WriteReport ==
    /\ pc = "report" /\ pc' = "ended"
    /\ UNCHANGED <<stored, selection, inspection, verification>>

\* A run returns or raises, or is killed where it is, and another one begins.
Again ==
    /\ pc' = "catalog" /\ listed' = <<>> /\ heaps' = NoHeaps
    /\ corpus' = {} /\ composition' = NoComposition
    /\ pending' = {} /\ found' = <<>>
    /\ left' = {} /\ failed' = {} /\ verified' = {} /\ bytes' = 0
    /\ UNCHANGED stored

Init ==
    /\ stored = {} /\ pc = "catalog" /\ listed = <<>> /\ heaps = NoHeaps
    /\ corpus = {} /\ composition = NoComposition
    /\ pending = {} /\ found = <<>>
    /\ left = {} /\ failed = {} /\ verified = {} /\ bytes = 0

Next ==
    \/ ListRow \/ Select
    \/ Inspect \/ InspectionError \/ Compile \/ MeasureLocalLookup
    \/ DownloadFails \/ Download \/ VerificationEnds \/ WriteReport
    \/ Again

Spec == Init /\ [][Next]_vars

-----------------------------------------------------------------------------
(* Properties *)

\* The variables are well formed, and files are only of the repositories they are found in.
TypeOK ==
    /\ stored \subseteq Occurrences
    /\ pc \in {"catalog", "inspect", "measure", "verify", "report", "ended"}
    /\ listed \in Seq(Rows) /\ Len(listed) <= CatalogLimit
    /\ heaps \in [Sources -> SUBSET DOMAIN listed]
    /\ corpus \subseteq Repos /\ pending \subseteq corpus
    /\ DOMAIN found \subseteq corpus \ pending
    /\ \A r \in DOMAIN found : found[r] \in Snapshots[r]
    /\ left \subseteq stored /\ failed \subseteq stored \ left
    /\ verified \subseteq [file : stored \ left, result : BOOLEAN]
    /\ bytes \in Nat

EligibleRows == {n \in DOMAIN listed : Eligible(listed[n])}

\* In whatever order the catalog lists its rows, and however often, each source keeps as
\* many of them as it may, and none that ranks below one it has dropped.
TopKept ==
    \A s \in Sources :
        /\ heaps[s] \subseteq EligibleRows
        /\ \/ heaps[s] = EligibleRows
           \/ Cardinality(heaps[s]) = Limits[s]
        /\ Cardinality(heaps[s]) <= Limits[s]
        /\ \A n \in heaps[s] : \A m \in EligibleRows \ heaps[s] : ~Outranks(listed, s, m, n)

Total(c) == c["popular"] + c["random"] + c["targeted"] + c["extra"]

\* The corpus keeps to its cap (catalog.py:11) though its sources overlap and repeat
\* themselves; every repository is counted under one source; and an extra repository is
\* left out only when the corpus is full.
CorpusBounded ==
    /\ Cardinality(corpus) <= RepoCap
    /\ Cardinality(corpus) = Total(composition)
    /\ pc # "catalog" =>
          \A i \in DOMAIN Extra : Extra[i] \in corpus \/ Cardinality(corpus) = RepoCap

\* What the site is compiled from has of each repository inspected in this run exactly the
\* files of that inspection, whatever earlier runs left in the database.
SiteIsInspected == \A r \in DOMAIN found : stored \intersect OfRepo(r) = found[r]

\* Reading back what compile_site writes at the prefix length it chooses yields, for each
\* digest there is, the occurrences the index has for it, and none for a digest it has not:
\* no occurrence is lost to a partition, put into two, or found under another digest.
LookupExact ==
    pc = "measure" => \A d \in Digests : SiteMatches(d) = Ascending(IndexOf(stored)[d])

\* parse_shard accepts every shard compile_site writes, empty ones included.
ShardsParse ==
    pc = "measure" => \A k \in PrefixLengths : \A prefix \in Prefixes(k) :
        Accepted(Shard(IndexOf(stored), prefix), prefix)

VerifiedBytes == LET SizeOf(v) == Size[v.file] IN MapThenSumSet(SizeOf, verified)

\* Verification downloads few files and few bytes, and of each digest at most one; after a
\* mismatch it downloads no other.
DownloadsBounded ==
    /\ Cardinality(verified) <= FileCap /\ VerifiedBytes <= TotalCap
    /\ \A v, w \in verified : Reported[v.file] = Reported[w.file] => v = w
    /\ Mismatches # {} => Cardinality(Mismatches) = 1 /\ pc \in {"report", "ended"}

\* A run stops for want of verified files (proof.py:299) only when every other digest of
\* the site was given a try: no eligible occurrence of it is left that was not tried.
StopsForCause ==
    pc = "report" /\ Mismatches = {} /\ StopError =>
        \A o \in stored :
            \/ ~EligibleFile(o) \/ o \in failed
            \/ \E v \in verified : Reported[v.file] = Reported[o]

\* While files are verified, what is passed was passed for a reason.
PassedInv ==
    pc = "verify" => \A o \in stored :
        \/ o \in left \/ ~EligibleFile(o) \/ o \in failed
        \/ \E v \in verified : Reported[v.file] = Reported[o]

\* Before a mismatch the counter is the sum of what was downloaded, and no occurrence of a
\* digest that was downloaded is left.
BudgetInv ==
    /\ Mismatches = {} => bytes = VerifiedBytes
    /\ \A v \in verified : \A o \in left : Reported[v.file] # Reported[o]

\* What a run has not come to yet is empty, and only what can be compiled is looked up.
PhaseInv ==
    /\ pc = "catalog" => corpus = {} /\ found = <<>>
    /\ pc \in {"catalog", "inspect", "measure"} => left = {} /\ failed = {} /\ verified = {}
    /\ pc = "measure" => Compilable(IndexOf(stored))

\* The inductive invariant.
ProofInv ==
    /\ TypeOK /\ PhaseInv /\ TopKept /\ CorpusBounded /\ SiteIsInspected
    /\ PassedInv /\ StopsForCause /\ BudgetInv /\ DownloadsBounded
=============================================================================
