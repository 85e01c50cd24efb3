------------------------------ MODULE Crawler -------------------------------
(***************************************************************************)
(* The full crawl, src/facehugger/indexer/crawl.py: bounded invocations of *)
(* run_full_crawl over the durable state of module IndexState, against a   *)
(* Hub whose repositories change at any moment.  An invocation may die     *)
(* between any two commits; its locals are lost, the database and the      *)
(* staging directory are not.  Deadlines are choices: monotonic() may have *)
(* passed the deadline whenever the code looks.                            *)
(***************************************************************************)
EXTENDS IndexState

CONSTANTS
    PageSize,     \* CATALOG_PAGE_SIZE
    PendingPage,  \* PENDING_REPOSITORY_PAGE_SIZE
    Workers,      \* INSPECTION_WORKERS
    InitialHubs,  \* the contents of the Hub before the first invocation
    Unsha,        \* repositories whose catalog record carries no sha
    Pushed,       \* bounds: the repositories that receive commits,
    Regated,      \* whose gate is turned on or off,
    Hidden        \* and that are withdrawn, made private or made public again

ASSUME SizesAssumption == {PageSize, PendingPage, Workers} \subseteq Nat \ {0}

Visibility == {"public", "private", "gone"}
HubRepo == [vis : Visibility, rev : Revisions, gated : BOOLEAN, stamp : Stamps]

\* No two repositories have the same modification time.
DistinctStamps(h) == \A r, q \in Repos : h[r].stamp = h[q].stamp => r = q

ASSUME HubAssumption ==
    /\ InitialHubs \subseteq [Repos -> HubRepo]
    /\ \A h \in InitialHubs : DistinctStamps(h)

VARIABLES
    hub,        \* the Hub
    pc,         \* the next statement of run_full_crawl; "down" between invocations
    url,        \* next_url of advance_catalog
    cursor,     \* cursor of _inspect_pending, 0 for None
    batch,      \* the part of pending_batch whose futures are not consumed yet
    group,      \* the submitted repositories not yet consumed
    answers,    \* the futures that are done
    outcome,    \* what the last invocation reported; "none" while running or failed
    staging,    \* the site-staging directory
    steady,     \* history: listed and not modified since the generation opened,
    present,    \* history: listed ever since the generation opened,
    cleanStart  \* history: the generation opened without a continuation

locals      == <<url, cursor, batch, group, answers>>
processVars == <<pc, locals, outcome>>
historyVars == <<steady, present, cleanStart>>
vars == <<indexVars, hub, pc, url, cursor, batch, group, answers, outcome, staging,
          steady, present, cleanStart>>

Request == [rev : Revs, gated : BOOLEAN]
Result == [kind : {"ok", "unavailable", "failed"}, rev : Revs, gated : BOOLEAN]
NoFunction == [r \in {} |-> NoRev]

-----------------------------------------------------------------------------
(* The Hub *)

Listed == {r \in Repos : hub[r].vis # "gone"}

\* The catalog's record of a repository, normalized, with its eligibility.
CatalogEntry(r) ==
    [rev |-> IF r \in Unsha THEN NoRev ELSE hub[r].rev,
     gated |-> hub[r].gated,
     eligible |-> hub[r].vis = "public" /\ Content[r][hub[r].rev] # {}]

\* The repositories a request answers from: all, or those after the continuation,
\* most recently modified first.
Remaining == {r \in Listed : url = 0 \/ hub[r].stamp < url}
Page == {r \in Remaining :
            Cardinality({q \in Remaining : hub[q].stamp > hub[r].stamp}) < PageSize}

\* The modification time the continuation after this page names.
LastStampOf(page, t) ==
    \E r \in page : t = hub[r].stamp /\ \A q \in page : t <= hub[q].stamp

HubPush(r) ==
    /\ r \in Pushed
    /\ \E rev \in Revisions \ {hub[r].rev}, t \in Stamps :
          /\ \A q \in Repos : hub[q].stamp < t
          /\ \E q \in Repos : t = hub[q].stamp + 1
          /\ hub' = [hub EXCEPT ![r].rev = rev, ![r].stamp = t]
    /\ steady' = steady \ {r}
    /\ UNCHANGED <<indexVars, processVars, staging, present, cleanStart>>

HubGate(r) ==
    /\ r \in Regated
    /\ hub' = [hub EXCEPT ![r].gated = ~hub[r].gated]
    /\ UNCHANGED <<indexVars, processVars, staging, historyVars>>

HubVisibility(r) ==
    /\ r \in Hidden
    /\ \E vis \in Visibility \ {hub[r].vis} :
          /\ hub' = [hub EXCEPT ![r].vis = vis]
          /\ IF vis = "gone"
             THEN /\ steady' = steady \ {r}
                  /\ present' = present \ {r}
             ELSE UNCHANGED <<steady, present>>
    /\ UNCHANGED <<indexVars, processVars, staging, cleanStart>>

HubNext == \E r \in Repos : HubPush(r) \/ HubGate(r) \/ HubVisibility(r)

-----------------------------------------------------------------------------
(* Starting and ending an invocation *)

\* The process ends, by returning, raising or being killed.
Stop(report) ==
    /\ pc' = "down"
    /\ outcome' = report
    /\ url' = 0
    /\ cursor' = 0
    /\ batch' = NoFunction
    /\ group' = {}
    /\ answers' = NoFunction

\* start_catalog_generation finds an active generation.
ResumeGeneration ==
    /\ pc = "down"
    /\ activeGeneration # 0
    /\ outcome' = "none"
    /\ \/ enumerated = "true" /\ pc' = "inspect" /\ UNCHANGED url
       \/ enumerated # "true" /\ pc' = "catalog" /\ url' = nextUrl
    /\ UNCHANGED <<indexVars, hub, cursor, batch, group, answers, staging, historyVars>>

\* start_catalog_generation opens one, in two commits.
StartGeneration ==
    /\ pc = "down"
    /\ OpenGeneration
    /\ pc' = "reset"
    /\ outcome' = "none"
    /\ steady' = Listed
    /\ present' = Listed
    /\ cleanStart' = (nextUrl = 0)
    /\ UNCHANGED <<hub, locals, staging>>

ResetFlag ==
    /\ pc = "reset"
    /\ ResetEnumerated
    /\ pc' = "catalog"
    /\ url' = nextUrl
    /\ UNCHANGED <<hub, cursor, batch, group, answers, outcome, staging, historyVars>>

Crash ==
    /\ pc # "down"
    /\ Stop("none")
    /\ UNCHANGED <<indexVars, hub, staging, historyVars>>

\* A deployed or discarded workspace: the next invocation has no staging directory.
NoSite == [state |-> "none", occurrences |-> {}]
ClearWorkspace ==
    /\ pc = "down"
    /\ staging # NoSite
    /\ staging' = NoSite
    /\ UNCHANGED <<indexVars, hub, processVars, historyVars>>

-----------------------------------------------------------------------------
(* advance_catalog *)

\* The deadline passed, or the Hub kept failing for CATALOG_RETRY_ATTEMPTS.
LeaveCatalog ==
    /\ pc = "catalog"
    /\ pc' = "tally"
    /\ outcome' \in {"none", "stalled"}
    /\ UNCHANGED <<indexVars, hub, locals, staging, historyVars>>

\* One page: its observations are committed, then the continuation is looked at.
\* The Hub ends the catalog only with its last repository; it may give a
\* continuation after which nothing is left.
FetchPage ==
    /\ pc = "catalog"
    /\ RecordCatalogRepositories([r \in Page |-> CatalogEntry(r)], activeGeneration)
    /\ \/ \E t \in Stamps : LastStampOf(Page, t) /\ url' = t /\ pc' = "save"
       \/ Page = Remaining /\ pc' = "finish" /\ UNCHANGED url
    /\ UNCHANGED <<hub, cursor, batch, group, answers, outcome, staging, historyVars>>

KeepContinuationInMemory ==
    /\ pc = "save"
    /\ pc' = "catalog"
    /\ UNCHANGED <<indexVars, hub, locals, outcome, staging, historyVars>>

SaveContinuation ==
    /\ pc = "save"
    /\ SetContinuation(url)
    /\ pc' = "catalog"
    /\ UNCHANGED <<hub, locals, outcome, staging, historyVars>>

\* finish_catalog_generation, in its three commits.
Reconcile ==
    /\ pc = "finish"
    /\ ReconcileRemovals(activeGeneration)
    /\ pc' = "flag"
    /\ UNCHANGED <<hub, locals, outcome, staging, historyVars>>

FlagEnumerated ==
    /\ pc = "flag"
    /\ MarkEnumerated
    /\ pc' = "clear"
    /\ steady' = {}
    /\ present' = {}
    /\ cleanStart' = TRUE
    /\ UNCHANGED <<hub, locals, outcome, staging>>

DropContinuation ==
    /\ pc = "clear"
    /\ ClearContinuation
    /\ pc' = "inspect"
    /\ url' = 0
    /\ UNCHANGED <<hub, cursor, batch, group, answers, outcome, staging, historyVars>>

-----------------------------------------------------------------------------
(* _inspect_pending *)

Idle == pc = "inspect" /\ group = {}

LoadBatch ==
    /\ Idle
    /\ DOMAIN batch = {}
    /\ LET found == PendingAfter(cursor, PendingPage)
       IN \/ /\ found = {}
             /\ pc' = "tally"
             /\ UNCHANGED <<batch, cursor>>
          \/ /\ found # {}
             /\ batch' = [r \in found |-> [rev |-> repos[r].catRev,
                                           gated |-> repos[r].catGated]]
             /\ \E last \in found : cursor' = last /\ \A r \in found : r <= last
             /\ UNCHANGED pc
    /\ UNCHANGED <<indexVars, hub, url, group, answers, outcome, staging, historyVars>>

InspectionDeadline ==
    /\ Idle
    /\ pc' = "tally"
    /\ batch' = NoFunction
    /\ UNCHANGED <<indexVars, hub, url, cursor, group, answers, outcome, staging,
                   historyVars>>

\* The next group of at most Workers repositories, in repo_id order.
SubmitGroup ==
    /\ Idle
    /\ DOMAIN batch # {}
    /\ group' = {r \in DOMAIN batch : Cardinality({q \in DOMAIN batch : q < r}) < Workers}
    /\ UNCHANGED <<indexVars, hub, pc, url, cursor, batch, answers, outcome, staging,
                   historyVars>>

\* inspect_repo in a worker: the Hub's answer at this moment.  A repository that is
\* not public, or a revision that is no longer its head, may or may not be found; any
\* request may fail.  The revision read is the requested one; the gate is the live one.
Failed == [kind |-> "failed", rev |-> NoRev, gated |-> FALSE]
Unavailable == [kind |-> "unavailable", rev |-> NoRev, gated |-> FALSE]
Success(r) == [kind |-> "ok", gated |-> hub[r].gated,
               rev |-> IF batch[r].rev = NoRev THEN hub[r].rev ELSE batch[r].rev]
MayBeUnavailable(r) ==
    hub[r].vis # "public" \/ batch[r].rev \notin {NoRev, hub[r].rev}

Answer(r, result) ==
    /\ pc = "inspect"
    /\ r \in group \ DOMAIN answers
    /\ answers' = [q \in DOMAIN answers \union {r} |->
                      IF q = r THEN result ELSE answers[q]]
    /\ UNCHANGED <<indexVars, hub, pc, url, cursor, batch, group, outcome, staging,
                   historyVars>>

AnswerSuccess(r) == hub[r].vis # "gone" /\ Answer(r, Success(r))
AnswerUnavailable(r) == MayBeUnavailable(r) /\ Answer(r, Unavailable)
AnswerFailed(r) == Answer(r, Failed)

AnswerNext ==
    \E r \in group : AnswerSuccess(r) \/ AnswerUnavailable(r) \/ AnswerFailed(r)

\* What the main thread commits for one finished future.
StoreResult(r) ==
    \/ answers[r].kind = "ok" /\ ReplaceRepo(r, answers[r].rev, answers[r].gated)
    \/ /\ answers[r].kind = "unavailable"
       /\ RecordRepositoryUnavailable(r, batch[r].rev, batch[r].gated)
    \/ answers[r].kind = "failed" /\ RecordInspectionFailure(r)

ConsumeKeepingFuture ==
    /\ pc = "inspect"
    /\ \E r \in group :
          /\ \A q \in group : r <= q
          /\ r \in DOMAIN answers
          /\ StoreResult(r)
          /\ group' = group \ {r}
          /\ batch' = [q \in DOMAIN batch \ {r} |-> batch[q]]
    /\ UNCHANGED <<hub, pc, url, cursor, answers, outcome, staging, historyVars>>

\* The futures are consumed in repo_id order, whatever order they finish in.
Consume ==
    /\ pc = "inspect"
    /\ \E r \in group :
          /\ \A q \in group : r <= q
          /\ r \in DOMAIN answers
          /\ StoreResult(r)
          /\ group' = group \ {r}
          /\ batch' = [q \in DOMAIN batch \ {r} |-> batch[q]]
          /\ answers' = [q \in DOMAIN answers \ {r} |-> answers[q]]
    /\ UNCHANGED <<hub, pc, url, cursor, outcome, staging, historyVars>>

-----------------------------------------------------------------------------
(* The end of run_full_crawl *)

CanPublish == enumerated = "true" /\ outcome # "stalled" /\ Pending = {}

Tally ==
    /\ pc = "tally"
    /\ \/ /\ CanPublish
          /\ pc' = "compile"
          /\ UNCHANGED <<locals, outcome>>
       \/ /\ ~CanPublish
          /\ Stop(IF outcome = "stalled" THEN "stalled" ELSE "continue")
    /\ UNCHANGED <<indexVars, hub, staging, historyVars>>

\* What compile_site writes: every occurrence, with its repository's gate.
Snapshot ==
    UNION {{<<r, repos[r].gated, row>> : row \in {f \in files[r] : f[2].sha # NoSha}} :
              r \in DOMAIN repos}

\* _compile_staged_site: the directory is created, then filled; an existing one is
\* refused, one that is too large is left behind.
RefuseStaging ==
    /\ pc = "compile"
    /\ staging # NoSite
    /\ Stop("none")
    /\ UNCHANGED <<indexVars, hub, staging, historyVars>>

CreateStaging ==
    /\ pc = "compile"
    /\ staging = NoSite
    /\ staging' = [state |-> "partial", occurrences |-> {}]
    /\ pc' = "write"
    /\ UNCHANGED <<indexVars, hub, locals, outcome, historyVars>>

FillStaging ==
    /\ pc = "write"
    /\ staging' = [state |-> "complete", occurrences |-> Snapshot]
    /\ \/ pc' = "complete" /\ UNCHANGED <<locals, outcome>>
       \/ Stop("none")
    /\ UNCHANGED <<indexVars, hub, historyVars>>

\* complete_catalog_generation, in its two commits; the reports are written after it.
CompleteGeneration ==
    /\ pc = "complete"
    /\ MarkCompleted
    /\ pc' = "retire"
    /\ UNCHANGED <<hub, locals, outcome, staging, historyVars>>

Retire ==
    /\ pc = "retire"
    /\ RetireGeneration
    /\ Stop("published") \/ Stop("none")
    /\ UNCHANGED <<hub, staging, historyVars>>

-----------------------------------------------------------------------------
Init ==
    /\ StateInit
    /\ hub \in InitialHubs
    /\ pc = "down"
    /\ url = 0
    /\ cursor = 0
    /\ batch = NoFunction
    /\ group = {}
    /\ answers = NoFunction
    /\ outcome = "none"
    /\ staging = NoSite
    /\ steady = {}
    /\ present = {}
    /\ cleanStart = TRUE

CatalogNext ==
    \/ LeaveCatalog \/ FetchPage \/ SaveContinuation
    \/ Reconcile \/ FlagEnumerated \/ DropContinuation

InspectNext ==
    \/ LoadBatch \/ InspectionDeadline \/ SubmitGroup
    \/ AnswerNext
    \/ Consume

PublishNext ==
    \/ Tally \/ RefuseStaging \/ CreateStaging \/ FillStaging
    \/ CompleteGeneration \/ Retire

LifeNext == ResumeGeneration \/ StartGeneration \/ ResetFlag \/ Crash \/ ClearWorkspace

\* The bound on generations is used up and the last one is published.
Exhausted ==
    /\ pc = "down"
    /\ activeGeneration = 0
    /\ completedGeneration + 1 \notin Generations
    /\ UNCHANGED vars

Next == LifeNext \/ CatalogNext \/ InspectNext \/ PublishNext \/ HubNext \/ Exhausted

Spec == Init /\ [][Next]_vars

\* A running invocation takes its next step, and the workflow starts another one after
\* it, in a fresh workspace.  Where a deadline or a failing Hub can come instead
\* of progress, it does not come every time: each invocation has 240 minutes, and the
\* Hub in the end answers for every repository.
ProgressStep ==
    \/ SaveContinuation \/ Reconcile \/ FlagEnumerated \/ DropContinuation
    \/ LoadBatch \/ Consume \/ Tally \/ RefuseStaging \/ CreateStaging \/ FillStaging
    \/ CompleteGeneration \/ Retire
    \/ ResumeGeneration \/ StartGeneration \/ ResetFlag

AnswerDefinite(r) == r \in group /\ (AnswerSuccess(r) \/ AnswerUnavailable(r))

Fairness ==
    /\ WF_vars(ProgressStep)
    /\ SF_vars(ClearWorkspace)
    /\ SF_vars(FetchPage)
    /\ SF_vars(LoadBatch)
    /\ SF_vars(SubmitGroup)
    /\ SF_vars(FillStaging /\ pc' = "complete")
    /\ \A r \in Repos : SF_vars(AnswerDefinite(r))

FairSpec == Spec /\ Fairness

-----------------------------------------------------------------------------
(* Properties *)

\* The locals are well formed; a group is a part of the batch, and answers belong to
\* requests of the group that are not consumed yet.
TypeOK ==
    /\ StateTypeOK
    /\ hub \in [Repos -> HubRepo]
    /\ pc \in {"down", "reset", "catalog", "save", "finish", "flag", "clear", "inspect",
               "tally", "compile", "write", "complete", "retire"}
    /\ url \in Stamps \union {0}
    /\ cursor \in Nat
    /\ DOMAIN batch \subseteq Repos
    /\ \A r \in DOMAIN batch : batch[r] \in Request
    /\ group \subseteq DOMAIN batch
    /\ DOMAIN answers \subseteq group
    /\ \A r \in DOMAIN answers : answers[r] \in Result
    /\ outcome \in {"none", "stalled", "continue", "published"}
    /\ staging.state \in {"none", "partial", "complete"}
    /\ steady \subseteq Repos
    /\ present \subseteq Repos
    /\ cleanStart \in BOOLEAN

\* The occurrences the catalog promises: of each eligible repository, the files with a
\* digest at the revision the catalog reported, under the gate it reported.
Promised ==
    UNION {{<<r, repos[r].catGated, row>> :
                row \in {f \in FileRows(r, repos[r].catRev) : f[2].sha # NoSha}} :
              r \in {q \in DOMAIN repos : repos[q].eligible}}

\* From the compilation to the next invocation, through crashes and gate changes on the
\* Hub, the site staged for publication is exactly what the catalog generation promises:
\* nothing of a withdrawn, excluded or failed repository, of an earlier revision or of an
\* earlier generation, and nothing missing.
StagedExact ==
    pc \in {"complete", "retire"} \/ (outcome = "published" /\ staging # NoSite) =>
        /\ staging.state = "complete"
        /\ staging.occurrences = Promised
        /\ \A r \in DOMAIN repos :
              repos[r].gen = IF pc = "down" THEN completedGeneration ELSE activeGeneration

\* A repository that is in the catalog all the while and is not modified since the
\* generation opened has been observed in it when the others' rows are removed, whatever
\* else is pushed, hidden or interrupted in between; provided the generation did not
\* open with a continuation left over from an earlier one.
EnumeratesSteady ==
    pc \in {"finish", "flag"} /\ cleanStart => steady \subseteq ObservedIn(activeGeneration)

\* A generation number is never used twice: rows of an earlier generation, also one that
\* was abandoned half way or published twice, never pass for observations of this one.
FreshGeneration ==
    /\ activeGeneration = 0 =>
          \A r \in DOMAIN repos : repos[r].gen <= completedGeneration
    /\ pc = "reset" => \A r \in DOMAIN repos : repos[r].gen < activeGeneration
    /\ activeGeneration # 0 =>
          activeGeneration \in {completedGeneration, completedGeneration + 1}

\* What an invocation reports is what it left behind: "published" leaves no generation
\* open, "continue" leaves enumeration or inspections for the next invocation, and
\* "stalled" leaves the enumeration unfinished.
ReportIsTrue ==
    /\ outcome = "published" => activeGeneration = 0 /\ enumerated = "absent"
    /\ outcome = "continue" => activeGeneration # 0 /\ (enumerated # "true" \/ Pending # {})
    /\ outcome = "stalled" => activeGeneration # 0 /\ enumerated # "true"

\* An inspection result is stored for the request it answers: no row is replaced,
\* excluded or marked failed unless the row was pending on exactly that revision.
InFlightIsPending ==
    \A r \in DOMAIN batch :
        /\ r \in Pending
        /\ batch[r].rev = repos[r].catRev /\ batch[r].gated = repos[r].catGated
        /\ r <= cursor

\* The catalog's record of a repository and the live answer about it disagree for good:
\* the gate changed after the catalog reported it, or the catalog reported no revision.
Drifted ==
    \E r \in Pending : repos[r].catGated # hub[r].gated \/ repos[r].catRev = NoRev

\* If invocations are killed only finitely often and no pending repository stays drifted,
\* every generation that opens is completed, through any number of deadlines, stalls,
\* failed inspections and changes of the Hub.
GenerationPublishes ==
    <>[][~Crash]_vars /\ <>[]~Drifted =>
        \A g \in Generations : activeGeneration = g ~> completedGeneration >= g

\* The parts of the inductive invariant.  Where the process stands decides what the
\* metadata can say ...
PhaseInv ==
    /\ pc # "down" => activeGeneration # 0
    /\ activeGeneration = 0 => enumerated = "absent"
    /\ pc = "reset" => enumerated = "absent"
    /\ pc \in {"catalog", "save", "finish", "flag"} => enumerated # "true"
    /\ pc \in {"clear", "inspect", "compile", "write", "complete", "retire"} =>
          enumerated = "true"
    /\ outcome = "stalled" => pc \in {"down", "tally"}
    /\ outcome \in {"continue", "published"} => pc = "down"
    /\ pc = "retire" => completedGeneration = activeGeneration
    /\ pc \in {"save"} => url # 0

\* ... requests are in flight only while inspecting, and their answers keep the revision
\* asked for ...
FlightInv ==
    /\ pc # "inspect" => DOMAIN batch = {}
    /\ \A r \in DOMAIN answers : answers[r].kind = "ok" =>
          /\ answers[r].rev \in Revisions
          /\ batch[r].rev \in {NoRev, answers[r].rev}

\* ... rows belong to generations up to the open one, to that one alone once it is
\* enumerated, ineligible rows of a generation have no files, and nothing is pending from the
\* compilation on, nor after a kill between the two commits of the completion ...
RowsInv ==
    /\ \A r \in DOMAIN repos :
          /\ repos[r].gen <= activeGeneration \/ repos[r].gen <= completedGeneration
          /\ ~repos[r].eligible /\ repos[r].gen # 0 => files[r] = {}
    /\ enumerated = "true" \/ pc = "flag" =>
          \A r \in DOMAIN repos : repos[r].gen = activeGeneration
    /\ pc \in {"compile", "write", "complete", "retire"} => Pending = {}
    /\ activeGeneration # 0 /\ completedGeneration = activeGeneration =>
          enumerated = "true" /\ Pending = {}

\* ... and a steady repository not yet observed lies ahead of the continuation, the
\* stored one and the one in use.
Ahead(r, u) == u = 0 \/ hub[r].stamp < u

SteadyInv ==
    /\ activeGeneration = 0 \/ enumerated = "true" => steady = {}
    /\ cleanStart =>
          \A r \in steady :
              /\ hub[r].vis # "gone"
              /\ r \in ObservedIn(activeGeneration) \/ Ahead(r, nextUrl)
              /\ pc \in {"catalog", "save"} =>
                    r \in ObservedIn(activeGeneration) \/ Ahead(r, url)
              /\ pc \in {"finish", "flag"} => r \in ObservedIn(activeGeneration)

\* The inductive invariant.
CrawlerInv ==
    /\ TypeOK /\ StateInv /\ PhaseInv /\ FlightInv /\ InFlightIsPending /\ RowsInv
    /\ FreshGeneration /\ StagedExact /\ ReportIsTrue /\ SteadyInv

\* A generation, once opened, is never abandoned: it ends only by being completed, and
\* completion happens only with the site of that generation staged.
GenerationsComplete ==
    [][/\ activeGeneration' # activeGeneration => completedGeneration = activeGeneration
                                                 \/ activeGeneration = 0
       /\ completedGeneration' # completedGeneration =>
             /\ completedGeneration' = completedGeneration + 1
             /\ staging.state = "complete"]_vars

\* A row goes away only by the reconciliation of a fully enumerated generation, and
\* verified files only by that, by exclusion from the catalog, by the Hub's word that they
\* are gone, or by replacement with the files of the revision the catalog names: a failed
\* inspection, a deadline or a crash costs nothing that was verified.
VerifiedFilesKept ==
    [][\A r \in DOMAIN repos : files[r] # {} /\ files'[r] # files[r] =>
          \/ r \notin DOMAIN repos' /\ repos[r].gen # activeGeneration /\ pc = "finish"
          \/ r \in DOMAIN repos' /\ ~repos'[r].eligible
          \/ r \in DOMAIN repos' /\ r \in group /\ repos[r].catRev \in {NoRev, repos'[r].rev}]_vars

\* Once a generation is enumerated, no step, kill, resumption or late answer adds to what is
\* left to inspect, and an answer takes its repository off that list: unless the request
\* failed, or what was read is not what the catalog reported (no revision, another gate).
InspectionsSettle ==
    [][activeGeneration # 0 /\ enumerated = "true" =>
          /\ Pending' \subseteq Pending
          /\ \A r \in group \ group' : pc' = "inspect" /\ r \in Pending' =>
                \/ answers[r].kind = "failed"
                \/ /\ answers[r].kind = "ok"
                   /\ batch[r].rev = NoRev \/ answers[r].gated # batch[r].gated]_vars

Phase ==
    IF activeGeneration = 0 THEN "idle"
    ELSE IF completedGeneration = activeGeneration THEN "published"
    ELSE IF enumerated = "true" THEN "settling"
    ELSE "listing"

\* What is published of a repository at a revision: its files with a digest.
Exact(r, v) == {row \in FileRows(r, v) : row[2].sha # NoSha}

Noted(row) == [rev |-> row.catRev, gated |-> row.catGated, eligible |-> row.eligible]

Promise == INSTANCE CrawlPromise WITH
    Files  <- [r \in Repos |-> [v \in Revs |-> Exact(r, v)]],
    hub    <- [r \in Listed |-> CatalogEntry(r)],
    noted  <- [r \in DOMAIN repos |-> Noted(repos[r])],
    heard  <- IF activeGeneration = 0 THEN {} ELSE ObservedIn(activeGeneration),
    phase  <- Phase,
    round  <- completedGeneration,
    sites  <- IF staging.state = "complete" THEN {staging.occurrences} ELSE {}

\* With all its commits, kills, deadlines, stalls, and failed and late answers, the crawl
\* does no more than a round does: it notes repositories as the Hub lists them, forgets
\* only those it has not heard of, goes on only when it has heard of all that are left,
\* and completes each round once, with the site of what it noted (crawl.py:88).
KeepsPromise == Promise!Spec

-----------------------------------------------------------------------------
(* What the documentation says, and the code does not keep *)

\* crawl.py:88 "Advance one crash-safe catalog generation" and README.md "A complete
\* catalog generation reconciles repositories no longer returned by the Hub": a
\* repository that is in the catalog all the while is not removed, whatever was killed.
CrashSafeEnumeration ==
    pc \in {"finish", "flag"} => steady \subseteq ObservedIn(activeGeneration)

\* crawl.py:205 "the complete deterministic public model catalog request": a repository
\* that is in the catalog all the while is not removed, also when it receives a commit.
CompleteEnumeration ==
    pc \in {"finish", "flag"} /\ cleanStart => present \subseteq ObservedIn(activeGeneration)

\* README.md "inspects only repositories that are new, revision changed, or whose indexed
\* gate state changed": a repository just inspected with success is not queued again in
\* the generation it was inspected for.
InspectedOnce ==
    [][\A r \in group : r \notin group' /\ pc' = "inspect" /\ answers[r].kind = "ok"
          => r \notin Pending']_vars
=============================================================================
