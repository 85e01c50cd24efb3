# Facehugger, specified in TLA+

Facehugger keeps an index from SHA-256 digests to the files of public model
repositories on the Hugging Face Hub. A crawler run by a scheduled workflow
keeps the index in a SQLite database, compiles it to static JSON shards when a
catalog generation is complete, and a client looks digests up in the shards.
This directory specifies the parts of it whose correctness depends on order,
interruption and time, checks them with TLC and proves the main results with
TLAPS. Line numbers refer to the sources in `src/`.

## The system

| Part | State it keeps | Operations | What makes it correct |
| --- | --- | --- | --- |
| `state.py`, the durable index | tables repos, occurrences, candidate files, artifacts; metadata keys for the active and the completed generation, the enumeration flag and the continuation | catalog pages, reconciliation, inspection results, start and end of a generation | a repository has the files of one revision; no orphaned artifacts; what is not pending is current |
| `indexer/crawl.py`, the full crawl | the locals of one invocation, the staging directory | enumerate, inspect, compile, complete | survives being killed anywhere; publishes exactly one catalog generation; gets there in the end |
| `indexer/metadata_sources.py` | none | one inspection in a worker thread | answers for the revision asked for |
| `indexer/rate_limit.py`, `hub.py` | the next slot, the pause | wait before each request, observe after each response | the rate is kept by all threads together; pauses are honoured |
| `shard_format.py` | the site | compile, parse | shallowest prefix within the limit; sorted, complete records |
| `client.py` | manifest and shard caches | lookup, refresh on 404 | answers from one index version |
| `.github/workflows/crawl.yml` | releases with checkpoints, the pages site | restore, crawl, package, checkpoint, retain, deploy, queue next | no progress lost, nothing unverified restored |
| `indexer/catalog.py` | three heaps | select a corpus | each source keeps its best rows in any order; the corpus keeps to its cap |
| `indexer/proof.py`, `reports.py`, `benchmarks.py` | a database of its own, the totals of verification | inspect, compile, look up, download, report | the site has what was inspected; few files and bytes; stops only for cause |
| `crawl_reports.py`, the badge action | the badges | write, publish | the badge tells the state of the crawl |
| `cli.py`, `models.py`, `filters.py`, `hashes.py`, `errors.py` | none | arguments, value types | |

How they interact: the workflow runs `facehugger crawl`, one invocation of
`run_full_crawl`, and queues another one if the report says so. The invocation
reads and writes the database from its main thread only. Inspections run in
eight threads; each calls the Hub, and every call of every thread first waits
for the shared `RateController`. Results come back to the main thread as
futures, which it consumes in submission order. Meanwhile the Hub changes. The
compiled site goes to `site-staging`, from where the workflow deploys it.

The hard behaviours are: a kill between two commits, since four methods commit
more than once; the Hub changing while it is enumerated; answers that no longer
agree with the catalog; inspections that fail, time out or finish out of order;
deadlines that end an invocation anywhere; threads that reserve, sleep and
are told to pause in any order; and a workflow of which every request can fail
and that can be run again. `PROJECT.json` lists each one under "hazards"
at its line.

## The modules

`IndexState` models `state.py`. The variables are the tables and the metadata
keys; `repos` is a function whose domain is the set of rows, so that an INSERT
extends it and a DELETE shrinks it. There is one action per *commit*, so
`start_catalog_generation` is `OpenGeneration` then `ResetEnumerated`,
`finish_catalog_generation` is `ReconcileRemovals`, `MarkEnumerated` and
`ClearContinuation`, and `complete_catalog_generation` is `MarkCompleted` and
`RetireGeneration`. File contents are a constant: `Content[r][v]` is the set of
candidate files of repository `r` at commit `v`, some without a digest. A
transaction always ends with the removal of orphaned artifacts, as in the code
(`WriteFiles`). `StateSpec` lets any caller call any method; it is the
abstract specification the crawl is shown to implement.

`Crawler` extends it with `run_full_crawl` as a process whose `pc` names the
next commit or request, and with the Hub: repositories that receive commits
(`HubPush`, which also gives the newest modification time), are gated or opened
(`HubGate`) and become private, vanish or return (`HubVisibility`). The catalog
is paged as the code asks for it, by modification time, newest first, and a
continuation stands for the time of the last repository of its page.
`FetchPage` is the request, the transaction and the look at the continuation;
`SaveContinuation` stores it. Inspection is `LoadBatch`, `SubmitGroup`, one
answer per worker at any time (`AnswerSuccess`, `AnswerUnavailable`,
`AnswerFailed`) and `Consume` in `repo_id` order. `Tally` decides about
publication, `CreateStaging` and `FillStaging` compile, `CompleteGeneration` and
`Retire` end the generation. `Crash` ends the process at any of these points;
`Stop` resets its locals. A deadline is a choice at the statements where the
code looks at the clock. `steady`, `present` and `cleanStart` are history
variables the code does not have, for the properties of enumeration.

`CrawlPromise` is the abstract specification of the crawl: rounds without pages,
continuations, commits, requests or crashes. A round is opened, notes any number
of repositories as the Hub lists them at that moment (`Note`), forgets those it
has not heard of (`ForgetUnheard`), settles once it has heard of all it knows, may
withdraw one (`Withdraw`), and is published with a site of exactly what is
noted (`Stage`, `Publish`, `Close`). `Crawler` implements it under a refinement
mapping (`Promise`): what is noted of a repository is the catalog columns of its
row, the phase is read off the metadata, the sites are the complete staging
directory. The files of inspected revisions are not in it: they appear only as
the content of the site. The Hub of `CrawlPromise` lists anything at any time, so
that nothing it promises depends on how the Hub of `Crawler` behaves.

`RateController` models `rate_limit.py`. `Wait` is the critical section of
`wait()`, after which the caller sleeps; `Send` is the end of its sleep;
`ObserveLimit` and `ObserveOther` are `observe()`; `Tick` lets time pass, with
sleeps ending late if `Late` is true. Slots are numbered by history variables;
`prompt` is history too, and false once a sleep ended late.
Time is a natural number that starts at the construction of the controller;
`datetime.now` being set back by the system is not modelled.

`ShardFormat` has `shard_format.py` and the bisection of `client.py` as
operators, without variables: `PrefixLength` is the choice of the shallowest
prefix whose shards fit, `Shard` what `compile_site` writes for a prefix,
`Accepted` the checks of `parse_shard`, `Matches` the bisection. Digests are
numbers in the order of their hexadecimal strings, cut by division into the
value of a prefix and a suffix; a prefix is a pair with its length, since it is
a string with leading zeros. A size counts records and occurrences in place of
bytes.

`StaticClient` extends it with `client.py`. Each client is a process whose
record in `lookup` holds the locals of `lookup()` and the step it is at: the
choice between cache and network (`ReadManifest`, `FetchManifest`), the two
halves of `write_text`, which first truncates the file (`OpenManifest`,
`WriteManifest`, `OpenShard`, `WriteShard`), the shard (`ReadShard`,
`FetchShard`), the refresh (`RefreshAfter404`), and the ways a lookup ends
without an answer. Two writers of one file leave a whole manifest or the
remains of two (`Garbled`). `Deploy` replaces the site by the next publication
at once and with a new version, `Expire` ends the lifetime of the manifest, and
`End` also stands for the death of the process. The answer of the network may be an
error at any time, and an error whose text contains "404" for another reason
(`Misleading`) is taken for a missing shard, as in the code. `refreshed` is the
position in the code before or after the `except`, `startedAt` is history.

`LookupPromise` is the abstract specification of a lookup: a client asks, and is
told all occurrences of its digest in one publication that has been served, or
that the index is missing, which may happen only if a publication came in
between. `StaticClient` implements it under a refinement mapping that hides all
but the state of a call, its digest, and the answer (`Calls`, `Promise`).

`Workflow` models `crawl.yml` and the badge action. A database is the set of the
batches it holds; a release is absent, broken or intact, has a database and
carries the date of the commit its tag is on, by which releases are sorted. One
workflow run is in progress at a time (the concurrency group), with a `pc` at
the step that comes next: `RestoreCheckpoint`, `RestoreLatest`, `StartFresh` and
`RestoreFails` are the outcomes of the restore step, `MarkRunning` and the badge
after it one step, `CrawlReports`, `CrawlRaises` and `CrawlCancelled` the ends
of a batch, then packaging, `KeepCheckpoint` or `WriteCheckpoint`, verification,
`Retain`, `SaveLatest`, badges, and `QueueNext`, `Deploy` or `EndRun`.
`StepFails` ends a step and skips to what always runs, `BreakCheckpoint` and
`BreakLatest` are uploads that fail in the middle, `LoseRunner` ends the run
anywhere. `Begin` may take an old number: a run that is run again keeps its
number, and with it the tag of its checkpoint and the version of its site.
`fallback` and `raised` are history.

`ProofRun` extends `ShardFormat` with `catalog.py` and `proof.py`. `ListRow` is
one row of the listing put into the three heaps, which hold positions in
`listed`; `Select` the union of the heaps and the extra repositories under the
cap; `Inspect` and `InspectionError` one repository; `Compile` and
`MeasureLocalLookup` the site and the lookup in it, with the operators of
`ShardFormat`; `Download`, `DownloadFails` and `VerificationEnds` the loops of
`_verify_small_files`, where `left` is what both loops have not come to. `stored`
is the database, which the next run (`Again`, also after a kill) finds as it is.

`CrawlerMC`, `RateControllerMC`, `StaticClientMC`, `WorkflowMC` and `ProofRunMC`
give the constants their values. The modules named `...Proofs` hold the proofs.
Operators such as `AddFiles`, directly before the definition they resemble
(`ReplaceFiles`), are mistakes the code could have made; no specification uses
them. "mutants" in `PROJECT.json` names the property that fails when one takes
the place of the definition.

## The runs

| Run | Shows | Bounds |
| --- | --- | --- |
| `crawler_safety` | storage, staging, enumeration, reports and generations of the crawl, with crashes | 2 repositories, 2 revisions, 2 generations, modification times up to 3, pages of 1, two workers |
| `crawler_liveness` | a generation is published in the end | 2 repositories, 1 generation, one worker, no commits, gate of 1 and visibility of 2 changing |
| `rate_controller` | spacing, long-run rate, bounded waits, pauses | 3 callers, interval 2, delays 0 and 3, 7 time units, late sleeps |
| `static_client` | lookups during publication, with a shared cache, and the promise they implement | 2 clients, 1 digest, 3 publications with prefixes of 1, 2 and 1 digits |
| `proof_run` | selection, the compiled index and verification, over runs on one database | 5 repositories, 6 rows of which 4 are listed, 8 digests of 3 binary digits, 8 occurrences, prefixes of 1 and 2 digits, 4 units to a shard, at most 3 files and 4 units verified |
| `workflow` | checkpoints, retention, deployment, with re-runs and failures | 3 runs, 2 batches, 2 commit dates, 2 checkpoints retained |
| `stale_continuation`, `touched_repository`, `gate_drift` | what the documentation says and the crawl does not keep | those of `crawler_safety` |
| `burst_after_pause`, `shortened_pause` | the same for request pacing | 3 callers, interval 2, delays 1 and 3, 9 time units, exact sleeps |
| `masked_failure` | the same for the badge | 2 runs, 2 batches |

The properties of the passing runs:

* `WholeRevision`: a repository has the files of one revision or none.
* `NoOrphans`: artifacts are exactly the digests some occurrence has.
* `SettledIsCurrent`: an eligible repository the pending query skips has the
  revision, gate and files its catalog record names.
* `StagedExact`: from compilation to the next invocation, the staged site is
  what the catalog generation promises, neither more nor less.
* `EnumeratesSteady`: before rows are removed, each repository that was listed
  and unmodified all the while was observed, if the enumeration began at the
  first page.
* `FreshGeneration`: a generation number is not used for two catalogs.
* `ReportIsTrue`: the report, from which the workflow decides, agrees with the
  database.
* `InFlightIsPending`: an answer is stored for the request the row still makes.
* `GenerationsComplete`, `VerifiedFilesKept`: generations end only by being
  completed with their site staged; verified files go only when the catalog or
  the Hub itself said so.
* `InspectionsSettle`: once a generation is enumerated nothing becomes pending
  any more, whatever is killed, resumed or answered late, and an answer settles its
  repository unless the request failed, or what was read differs from what the
  catalog had reported. It is the safe half of `GenerationPublishes`, and what
  the code keeps of the sentence `gate_drift` refutes.
* `KeepsPromise` of `crawler_safety`: every behaviour of the crawl is one of
  `CrawlPromise`.
* `GenerationPublishes`: liveness, see below.
* `SlotsSpaced`, `LongRunRate`, `PauseHonoured`, `BoundedWait`: slots are an
  interval apart; the number of requests since the start keeps to the rate even
  after late sleeps and bursts; a request sent during a pause had its slot
  before; nobody sleeps beyond the longest pause and one interval per sleeper.
* `IntervalUntilPaused`: until the Hub sets a pause for the first time or a sleep
  ends late, requests are an interval apart; `burst_after_pause` shows that a pause
  ends this for good.
* `LookupExact`, `ShardsParse`: what is compiled is accepted and read back, digest
  by digest, as the index has it.
* `TopKept`, `CorpusBounded`: in whatever order rows are listed and however
  often, each source has kept its best ones; the corpus keeps to its cap, counts
  each repository once, and leaves out an extra one only when it is full.
* `SiteIsInspected`: the site has of each repository inspected in this run
  exactly the files of that inspection, whatever earlier runs left.
* `DownloadsBounded`, `StopsForCause`: verification keeps to its caps on files
  and bytes, and gives up only when no eligible occurrence is left untried.
* `ProgressKept`: what the newest intact checkpoint holds, the next one holds.
  Two exceptions are part of the property because the code has them: a run that
  could not list or restore the newest checkpoint goes on from an older state and
  makes it the newest (`crawl.yml:112`), and a run that is run again keeps
  the checkpoint of its first attempt and drops what it did since (`crawl.yml:241`).
* `CheckpointedFirst`: a site is deployed and the next run queued only when all
  the run has done can be restored by another.
* `VersionsFresh`: no run deploys under the version of an earlier one; a re-run
  of a run that has deployed may.
* `AnswersItsVersion`: an answer is that of the index version it names.
* `RefreshSuffices`, `RefreshedIsCurrent`: a lookup ends in a second 404 only if
  the site was replaced during it, and an answer after the refresh is at least
  as new as what was served when the lookup began.
* `KeepsPromise` of `static_client`: every behaviour of the clients, with caches, refreshes and
  publications, is one of `LookupPromise`; its caller never meets a rejected shard.
* `StateInv`, `TypeOK`, `CrawlerInv`, `RateInv`, `ClientInv`, `WorkflowInv`, `ProofInv`:
  the inductive invariants the proofs use and the type invariant of the crawl.

Why the bounds are enough. Two repositories are what the interactions of the
crawl need: one on the page and one behind it, one answered and one in flight,
one sharing the other's digest. Two generations make leftovers of the first
visible in the second, three modification times let either repository move to
the front. A page of one repository makes every enumeration have continuations.
Tables under arbitrary calls of `IndexState`, not only the crawl's, are left to
the proof (`StateTyped`), for which no bound is needed. `crawler_liveness` has no
commits: with them the graph of the liveness check grows beyond what TLC goes
through in minutes, and a commit acts on publication only by a drift, which gates
already give.

Three callers are the least of whom two sleep while the third is told to pause.
One digest is enough for `static_client`: clients meet in the manifest and in
files of one path, answers to different digests are a matter of `ShardFormat`;
three publications let the site be replaced between the two attempts of a lookup,
with prefixes that grow and shrink. In `proof_run` four units force the longer
prefix for some indexes, and neighbours in a shard, first, last and missing
suffixes all occur; that any index is read back is proved (`LookupFinds`,
`ShardsAccepted`). Its rows rank differently in the three sources, one repeats a
repository with another number of downloads, and the sizes of the files reach
the caps in some orders of failures only. Three workflow runs exceed the two
checkpoints retained by one, so that something is deleted while an older state
may be restored; two batches tell a state that lost one from one that did not;
two dates let runs of one commit and of two be compared.

The bounds are constants named in the modules: `Generations`, `Stamps`, `Pushed`,
`Regated`, `Hidden`, `Horizon`, `Versions`, `CatalogLimit`, `Runs`, `Batches`.
`CHECK_DEADLOCK FALSE` is set where they let the system stop: at the horizon of
`RateControllerMC`. `Crawler` has the explicit stuttering step `Exhausted` instead,
and a workflow or proof run can always begin again.

## Fairness

`Fairness` in `Crawler` says that a running invocation takes its next step and
that another one follows it: the workflow queues it, or its schedule does. The
strong parts are for the steps a deadline, a failure or a busy Hub may take
the place of every now and then: fetching a page, loading and submitting a
batch, compiling, and a definite answer of the Hub for each repository. They
say that these do not always lose. An invocation has 240 minutes, a page takes
seconds, and only three transient failures in a row end the enumeration. There
is no fairness for crashes, deadlines, failures and changes of the Hub.
`GenerationPublishes` assumes besides that kills end, and that no pending
repository stays *drifted*: at odds with its catalog record about the gate, or
recorded without a revision. The second condition is not the code's merit; the
run `gate_drift` shows the state it excludes, in which a generation is never
published.

The other modules state no fairness: their properties are about safety, and
nothing in the code makes a request to GitHub or the Hub succeed.

## What is proved

For every value of the constants that satisfies the assumptions of the modules:

* `StateTyped`: `StateSpec => []StateInv`. `StateInv` is inductive: to
  `WholeRevision` and `NoOrphans` it adds the types and `EligibleStatus`, that
  exclusion always clears eligibility, without which `SettledIsCurrent` would
  not follow. There is one lemma per method; those about the metadata share one.
* `Invariance`: `Spec => []CrawlerInv`. The invariant has layers. `StateInv` is
  inherited: `StepIsStateStep` shows that every step of the crawl is a step of
  `StateNext` or leaves the database alone, which is also `ImplementsState`,
  the refinement theorem. `PhaseInv` says what the metadata can be at each
  statement, `FlightInv` and `InFlightIsPending` what the answers belong to,
  `RowsInv` which generation rows are of. With these `StagedExact` is
  inductive: when nothing is pending, `SettledIsCurrent` for every eligible row
  makes the snapshot equal to the promise (`SnapshotIsPromised`). `SteadyInv`
  says that a steady repository not yet observed lies ahead of both
  continuations, the stored one and the one in use; it needs that a page leaves
  out only what is older than everything on it (`PageOrder`).
* The properties of `crawler_safety` follow as theorems, the three action
  properties from the invariant by one step lemma each.
* `ImplementsPromise` of `CrawlerProofs` (`Spec => Promise!Spec`) maps each step of the
  crawl to a step of `CrawlPromise` or to a stutter: a page to `Note`, the three
  commits of the reconciliation to `ForgetUnheard`, `Settle` and a stutter, an
  answer to `Withdraw` or a stutter, and a kill to a stutter, wherever it comes. `RowsInv`
  has two parts for it alone: all rows are of the open generation between
  reconciliation and flag, and nothing is pending after a kill between the two
  commits of the completion, when the generation is compiled a second time.
* `RateInvariance`, `SlotsAreSpaced`, `PausesHonoured`, `WaitsBounded`, `ApartUntilPaused`
  and `NeverAboveRate`. `ApartUntilPaused` needs that before the first pause no
  slot that is slept for has passed (`PacedInv`): the caller whose slot has come
  has the earliest one, and the others are an interval behind it. `WaitsBounded` needs the chain (`ChainInv`): every slot that is
  held, and the next one, lies within an interval of the present or of the end of
  the longest pause, or an interval after the previous slot, which another caller
  still sleeps for. Following the chain back meets each caller asleep at most
  once. `NeverAboveRate` counts: the n-th slot is no earlier than n - 1
  intervals after the start, and every request sent had a slot that was due. If k
  were too many for the time that has passed, all numbers sent would be below k.
* `ShardsAccepted`, `LookupFinds`: `parse_shard` accepts every compiled shard, and
  bisection in the shard of a digest finds exactly its occurrences, for any set
  of digests and any prefix lengths. That a finite set can be sorted is proved
  by a least counterexample in the strict subset ordering (`CanBeSorted`); a
  suffix and a prefix determine their digest (`PrefixAndSuffix`).
* `ShardsHoldIndex`: the shards of a site are a partition of the index. Every record
  is that of one digest that occurs, in the shard of its prefix and with all its
  occurrences, and every such digest has one record in all of them. The prefix
  length is the shallowest that fits (`ShallowestThatFits`).
* `ClientInvariance`: `Spec => []ClientInv`. The invariant says that a client's
  prefix fits its version, that its shard fits both, and that each cached shard
  is the one of its path, whatever else happened to the files. With the two
  theorems above, answers are right (`NeverMixesVersions`); that a refreshed
  version is no older than `startedAt` gives `OneRefreshSuffices` and
  `RefreshNeverOld`. `ImplementsPromise` (`Spec => Promise!Spec`) maps every step to
  `Ask`, `Answer`, `Miss`, `Leave`, `Publish` or to a stutter.
* `WorkflowInvariance`: `Spec => []WorkflowInv`. Besides types it says: a run
  that runs for the first time has the highest number and date, so that its
  release is the newest (`NumbersInv`); its intact release holds its database,
  and is there after verification (`ReleaseInv`); its database includes what can
  be restored, unless it fell back (`RestoredInv`). From these follow
  `ProgressIsKept`, with one step lemma for uploads and one for retention,
  `CheckpointsFirst` and `VersionsAreFresh`.
* `ProofInvariance`: `Spec => []ProofInv`, which has `TopKept`, `CorpusBounded`,
  `SiteIsInspected` and `StopsForCause` as conjuncts. That a full heap gives up
  its lowest row for a higher one keeps the top is a lemma about a strict total
  order on positions up to equal keys; the count of the corpus adds up disjoint
  parts; `PassedInv` says why each occurrence verification has passed was passed.
  `DownloadsStayBounded` is the claim about sums: `BudgetInv` says that the
  counter of the code is the sum of the sizes of the files verified, and that no
  occurrence of a digest already downloaded is left. The sum is a fold, whose
  induction the prover cannot do; but its recursion has a solution that can be
  written down, the cardinality of the set of all units of all files
  (`SumCounts`), and it has only one solution, so that adding a file adds its size
  (`SumOfOneMore`). `LookupIsExact` and `ShardsAlwaysParse` follow from `LookupFinds` and
  `ShardsAccepted` for the prefix length that was chosen.

The assumptions are those on the constants: repository numbers are a finite
set of positive naturals, NULL values are no values, paths are unique within a
revision, modification times are distinct, page sizes, workers and the interval
are positive, a number of digests shares each prefix, publications are numbered
from 1 and fit some prefix length, the limits of the sources add up to no more
than the cap of the corpus, and an inspection finds files of its own repository
only. `Workflow` takes from GitHub that the date of a release is that of its
commit and that commits of the main branch have ascending dates.

Only model-checked: `GenerationPublishes`, since liveness under fairness and
ENABLED are beyond the prover; its safe half is proved (`PendingOnlyShrinks`). And
everything about the sizes of the sets of a page or a batch beyond what `PageOrder`
needs.

## What the documentation says and the code does not keep

Each has a run that ends with a counterexample, and an entry under "findings".

* `state.py:151`: the enumeration flag is committed before the continuation is
  deleted; a kill in between lets the next generation start from the middle of
  the catalog and delete the rest of the index.
* `crawl.py:204`: the catalog is read in an order that commits change, so that a
  repository can be missed and deleted because it was touched.
* `state.py:71`: the gate read by an inspection is compared with the one the
  catalog reported; if they differ the repository stays pending.
* `rate_limit.py:68`: after a pause, time lost is caught up in a burst.
* `rate_limit.py:80`: a shorter pause overwrites a longer one.
* `crawl.yml:150`: a crawl that raises is masked by the pipe into `tee`: its step
  succeeds, and the badge goes on saying that it is running.

## What is not modelled

* Data: normalization of Hub records, digest parsing, JSON and HTML output.
  Eligibility and candidate files are in `Content`.
* The Hub expiring a continuation or ending the catalog early, and database
  errors: the hazards say what follows from them.
* SQLite's own crash safety is assumed: a commit is atomic and durable.
* `reports.py`, `benchmarks.py`, the counts of `crawl_reports.py` and of
  `state.py:204`, `cli.py`: measurement and output. In `proof.py`, the comparison
  of strategies and the metrics.
* `proof.yml`: it deploys the site of a proof run over the complete one, under a
  version its user chooses; the hazards say what follows.
* In `shard_format.py`, the manifest fields that no decision depends on, and the
  older schema versions. In `client.py`, caches of the content network between
  the site and the client: a deployment is seen by all at once, and has a version
  of its own; when `crawl.yml` keeps to that is `VersionsFresh`.
* In `crawl.yml`, the checks before the crawl, the parts a checkpoint is split into
  and their digests (a release is intact or broken), and the fallback to the
  older form of archive.

## Plan

1. done: `IndexState`, `Crawler`, `RateController` and their proofs.
2. done: `ShardFormat`, `StaticClient`, `LookupPromise` and their proofs.
3. done: `Workflow` and its proofs.
4. done: `ProofRun` and its proofs.
5. done: `CrawlPromise`, the abstract rounds that `Crawler` implements, and the
   proofs of `DownloadsBounded`, `InspectionsSettle` and `IntervalUntilPaused`.
6. Left: the composition of `Workflow` and `CrawlPromise`, so that a batch is
   a part of a round and not a number.
