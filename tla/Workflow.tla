------------------------------ MODULE Workflow ------------------------------
(***************************************************************************)
(* The scheduled crawl: .github/workflows/crawl.yml.  A run restores the   *)
(* database from a release, advances the crawl by a batch, publishes the   *)
(* database as its checkpoint, prunes old checkpoints, copies it to the    *)
(* mutable release full-crawl-state, and queues the next run or deploys    *)
(* the site.  Runs are serialized; any of them can be run again under its  *)
(* number, whenever none is in progress.  Every request to GitHub can      *)
(* fail, an upload in the middle, and the runner can be lost anywhere.     *)
(*                                                                         *)
(* A database is the set of the batches it holds.  An operator directly    *)
(* before one it resembles is a mistake the properties are tried on.       *)
(***************************************************************************)
EXTENDS Integers, FiniteSets

CONSTANTS
    Runs,     \* 1..n, the workflow runs: bounds their number
    Batches,  \* 1..n, the invocations of the crawl: bounds their number
    Stamps,   \* the dates of the commits a release can be tagged with
    Keep,     \* how many checkpoints are retained
    None      \* no database on the runner

ASSUME WorkflowAssumption ==
    /\ Runs \subseteq Nat \ {0} /\ Batches \subseteq Nat
    /\ Stamps \subseteq Nat \ {0} /\ Keep \in Nat \ {0}
    /\ \A db \in SUBSET Batches : db # None

VARIABLES
    checkpoints,  \* the release full-crawl-checkpoint-<run> of each run
    latest,       \* the release full-crawl-state
    site,         \* the version of the site that is deployed, 0 before the first
    badge,        \* the state badge on the branch badge-data
    queued,       \* whether the last run has queued another one
    started,      \* the number of the newest run
    batches,      \* the number of batches begun
    run           \* the run in progress

vars == <<checkpoints, latest, site, badge, queued, started, batches, run>>

Absent == [state |-> "absent", db |-> {}, created |-> 0]

NoRun == [pc |-> "idle", id |-> 0, rerun |-> FALSE, db |-> None, failed |-> FALSE,
          status |-> "none", published |-> FALSE, continue |-> FALSE,
          fallback |-> FALSE, raised |-> FALSE]

At(step) == run.pc = step

Steps == {"idle", "restore", "status", "crawl", "mark", "package", "checkpoint", "verify",
          "retain", "latest", "badges", "follow-up"}

Databases == SUBSET Batches

-----------------------------------------------------------------------------
(* Releases *)

Tags == {i \in Runs : checkpoints[i].state # "absent"}

Intact == {i \in Runs : checkpoints[i].state = "intact"}

OlderFirst(i, j) ==
    \/ checkpoints[i].created < checkpoints[j].created
    \/ checkpoints[i].created = checkpoints[j].created /\ i < j

\* sort --reverse of dates and tags.  The date of a release is that of the commit its tag
\* is on; runs of one commit are told apart by their numbers.
Newer(i, j) ==
    \/ checkpoints[i].created > checkpoints[j].created
    \/ checkpoints[i].created = checkpoints[j].created /\ i > j

\* The one the loop comes to first, if there is any.
Newest(S) == {i \in S : \A j \in S \ {i} : Newer(i, j)}

Own == checkpoints[run.id]

\* The main branch may have moved since the last release; a tag that is there stays put.
CreatedAt ==
    IF Own.created # 0 THEN {Own.created}
    ELSE {c \in Stamps : \A i \in Runs : checkpoints[i].created <= c}

Save(id, release) == checkpoints' = [checkpoints EXCEPT ![id] = release]

\* The batches of the newest checkpoint that can be restored.
Recoverable == UNION {checkpoints[i].db : i \in Newest(Intact)}

Holds(db) == IF db = None THEN {} ELSE db

-----------------------------------------------------------------------------
(* Restoring *)

Begin ==
    /\ At("idle")
    /\ \E id \in Runs :
          /\ id <= started + 1
          /\ run' = [NoRun EXCEPT !.pc = "restore", !.id = id, !.rerun = id <= started]
          /\ started' = IF id <= started THEN started ELSE id
    /\ queued' = FALSE
    /\ UNCHANGED <<checkpoints, latest, site, badge, batches>>

\* `fallback` is history: what is restored lacks something that could be.
Restored(db) ==
    [run EXCEPT !.pc = "status", !.db = db, !.fallback = ~(Recoverable \subseteq Holds(db))]

\* The first checkpoint that can be downloaded and verified; a newer one is broken, or was
\* out of reach five times.
RestoreCheckpoint ==
    /\ At("restore")
    /\ \E i \in Intact : run' = Restored(checkpoints[i].db)
    /\ UNCHANGED <<checkpoints, latest, site, badge, queued, started, batches>>

\* No checkpoint was listed, or none of them restored.
RestoreLatest ==
    /\ At("restore") /\ latest.state = "intact"
    /\ run' = Restored(latest.db)
    /\ UNCHANGED <<checkpoints, latest, site, badge, queued, started, batches>>

\* No checkpoint was listed, because there is none or the request failed, and
\* full-crawl-state was not to be had either: the crawl starts from nothing.
StartFresh ==
    /\ At("restore")
    /\ run' = Restored(None)
    /\ UNCHANGED <<checkpoints, latest, site, badge, queued, started, batches>>

\* An earlier step failed, or checkpoints were listed and nothing was restored.
RestoreFails ==
    /\ At("restore")
    /\ run' = [run EXCEPT !.pc = "mark", !.failed = TRUE]
    /\ UNCHANGED <<checkpoints, latest, site, badge, queued, started, batches>>

-----------------------------------------------------------------------------
(* The crawl *)

\* The badge record of the checkout; a step of its own publishes it.
WriteStatus(r, status) == [r EXCEPT !.status = status]

MarkRunning ==
    /\ At("status")
    /\ run' = [WriteStatus(run, "running") EXCEPT !.pc = "crawl"]
    /\ badge' = "running"
    /\ UNCHANGED <<checkpoints, latest, site, queued, started, batches>>

\* Publishing the badge fails, or the time budget after it is no number.
MarkRunningFails ==
    /\ At("status")
    /\ run' = [WriteStatus(run, "running") EXCEPT !.pc = "mark", !.failed = TRUE]
    /\ badge' \in {badge, "running"}
    /\ UNCHANGED <<checkpoints, latest, site, queued, started, batches>>

\* What the database holds after a batch, and after one that committed nothing.
Advanced == Holds(run.db) \union {batches + 1}

AfterFailure == {Holds(run.db), Advanced}

\* Without a database there is nothing to package.
Packaged(r) == [r EXCEPT !.pc = IF r.db = None THEN "badges" ELSE "package"]

BeginsBatch == At("crawl") /\ batches + 1 \in Batches /\ batches' = batches + 1

\* next_invocation_ready
Ready(published, stalled) == ~published /\ ~stalled

CrawlReports ==
    /\ BeginsBatch
    /\ \E published, stalled \in BOOLEAN :
          /\ ~(published /\ stalled)
          /\ run' = [WriteStatus(run, "idle") EXCEPT !.pc = "package", !.db = Advanced,
                        !.published = published, !.continue = Ready(published, stalled)]
    /\ UNCHANGED <<checkpoints, latest, site, badge, queued, started>>

\* The exit status of the step is that of tee, and both outputs are empty.  The crawl may
\* not have come to the database.
CrawlRaises ==
    /\ BeginsBatch
    /\ \E db \in AfterFailure \union {run.db} :
          run' = Packaged([run EXCEPT !.db = db, !.raised = TRUE])
    /\ UNCHANGED <<checkpoints, latest, site, badge, queued, started>>

\* By a user, or by the deadline of the job.
CrawlCancelled ==
    /\ BeginsBatch
    /\ \E db \in AfterFailure \union {run.db} :
          run' = [run EXCEPT !.pc = "mark", !.db = db, !.failed = TRUE]
    /\ UNCHANGED <<checkpoints, latest, site, badge, queued, started>>

\* The step may fail itself.
MarkFailed ==
    /\ At("mark")
    /\ \E r \in {WriteStatus(run, "failed"), run} : run' = Packaged(r)
    /\ UNCHANGED <<checkpoints, latest, site, badge, queued, started, batches>>

-----------------------------------------------------------------------------
(* The checkpoint *)

\* A step that fails: of those that follow, only the ones that always run do.
StepFails ==
    /\ run.pc \in {"package", "checkpoint", "verify", "latest", "badges"}
    /\ run' = IF At("badges") THEN NoRun ELSE [run EXCEPT !.pc = "badges", !.failed = TRUE]
    /\ UNCHANGED <<checkpoints, latest, site, badge, queued, started, batches>>

PackageState ==
    /\ At("package")
    /\ run' = [run EXCEPT !.pc = "checkpoint"]
    /\ UNCHANGED <<checkpoints, latest, site, badge, queued, started, batches>>

\* The run has a checkpoint that verifies: what is in it stays, whatever the database holds.
KeepCheckpoint ==
    /\ At("checkpoint") /\ Own.state = "intact"
    /\ run' = [run EXCEPT !.pc = "verify"]
    /\ UNCHANGED <<checkpoints, latest, site, badge, queued, started, batches>>

\* There is none, it is broken, or it could not be verified.
WriteCheckpoint ==
    /\ At("checkpoint")
    /\ \E c \in CreatedAt : Save(run.id, [state |-> "intact", db |-> run.db, created |-> c])
    /\ run' = [run EXCEPT !.pc = "verify"]
    /\ UNCHANGED <<latest, site, badge, queued, started, batches>>

\* An upload fails in the middle and is tried again, or leaves what does not verify.
BreakCheckpoint ==
    /\ At("checkpoint")
    /\ \E c \in CreatedAt : Save(run.id, [state |-> "broken", db |-> {}, created |-> c])
    /\ \E step \in {"checkpoint", "verify"} : run' = [run EXCEPT !.pc = step]
    /\ UNCHANGED <<latest, site, badge, queued, started, batches>>

VerifyUnread == At("verify") /\ run' = [run EXCEPT !.pc = "retain"]

Verify == At("verify") /\ Own.state = "intact" /\ run' = [run EXCEPT !.pc = "retain"]

VerifyCheckpoint ==
    /\ Verify
    /\ UNCHANGED <<checkpoints, latest, site, badge, queued, started, batches>>

ExcessOfOldest == {i \in Tags : Cardinality({j \in Tags : OlderFirst(j, i)}) >= Keep}

\* tail --lines=+9: broken releases are counted with the others.
Excess == {i \in Tags : Cardinality({j \in Tags : Newer(j, i)}) >= Keep}

\* A checkpoint that cannot be deleted stays; if they cannot be listed, all do.
Retain ==
    /\ At("retain")
    /\ \E deleted \in SUBSET Excess :
          checkpoints' = [i \in Runs |->
              IF i \in deleted THEN [Absent EXCEPT !.created = checkpoints[i].created]
              ELSE checkpoints[i]]
    /\ run' = [run EXCEPT !.pc = "latest"]
    /\ UNCHANGED <<latest, site, badge, queued, started, batches>>

SaveLatest ==
    /\ At("latest")
    /\ latest' = [state |-> "intact", db |-> run.db]
    /\ run' = [run EXCEPT !.pc = "badges"]
    /\ UNCHANGED <<checkpoints, site, badge, queued, started, batches>>

BreakLatest ==
    /\ At("latest")
    /\ latest' = [state |-> "broken", db |-> {}]
    /\ UNCHANGED <<checkpoints, site, badge, queued, started, batches, run>>

PublishBadges ==
    /\ At("badges")
    /\ badge' = IF run.status = "none" THEN badge ELSE run.status
    /\ run' = [run EXCEPT !.pc = "follow-up"]
    /\ UNCHANGED <<checkpoints, latest, site, queued, started, batches>>

-----------------------------------------------------------------------------
(* What follows a successful run *)

SucceedsAlways == TRUE

Succeeds == ~run.failed

QueueNext ==
    /\ At("follow-up") /\ Succeeds /\ run.continue
    /\ queued' = TRUE
    /\ run' = NoRun
    /\ UNCHANGED <<checkpoints, latest, site, badge, started, batches>>

ConstantVersion(id) == 1

\* INDEX_VERSION is full-<run>.
IndexVersion(id) == id

Deploy ==
    /\ At("follow-up") /\ Succeeds /\ run.published
    /\ site' = IndexVersion(run.id)
    /\ run' = NoRun
    /\ UNCHANGED <<checkpoints, latest, badge, queued, started, batches>>

\* There is nothing to do, or it fails: nothing is tried again.
EndRun ==
    /\ At("follow-up")
    /\ run' = NoRun
    /\ UNCHANGED <<checkpoints, latest, site, badge, queued, started, batches>>

LoseRunner ==
    /\ ~At("idle")
    /\ run' = NoRun
    /\ UNCHANGED <<checkpoints, latest, site, badge, queued, started, batches>>

Init ==
    /\ checkpoints = [i \in Runs |-> Absent]
    /\ latest = [state |-> "absent", db |-> {}]
    /\ site = 0
    /\ badge = "none" /\ queued = FALSE
    /\ started = 0 /\ batches = 0
    /\ run = NoRun

Next ==
    \/ Begin
    \/ RestoreCheckpoint \/ RestoreLatest \/ StartFresh \/ RestoreFails
    \/ MarkRunning \/ MarkRunningFails
    \/ CrawlReports \/ CrawlRaises \/ CrawlCancelled \/ MarkFailed
    \/ PackageState \/ KeepCheckpoint \/ WriteCheckpoint \/ BreakCheckpoint
    \/ VerifyCheckpoint \/ Retain \/ SaveLatest \/ BreakLatest \/ PublishBadges
    \/ StepFails \/ QueueNext \/ Deploy \/ EndRun \/ LoseRunner

Spec == Init /\ [][Next]_vars

-----------------------------------------------------------------------------
(* Properties *)

Release == [state : {"absent", "broken", "intact"}, db : Databases, created : Stamps \union {0}]

Statuses == {"none", "running", "idle", "failed"}

Run == [pc : Steps, id : {0} \union Runs, rerun : BOOLEAN, db : Databases \union {None},
        failed : BOOLEAN, status : Statuses, published : BOOLEAN, continue : BOOLEAN,
        fallback : BOOLEAN, raised : BOOLEAN]

\* The variables are well formed.
TypeOK ==
    /\ checkpoints \in [Runs -> Release]
    /\ latest \in [state : {"absent", "broken", "intact"}, db : Databases]
    /\ site \in {0} \union Runs
    /\ badge \in Statuses /\ queued \in BOOLEAN
    /\ started \in {0} \union Runs /\ batches \in {0} \union Batches
    /\ run \in Run

\* No batch is lost (README.md:36 "a verified immutable SQLite checkpoint for every bounded
\* invocation"): what the newest intact checkpoint holds, the next one holds, through
\* failed uploads, retention and lost runners.  There are two exceptions: a run that could
\* not restore the newest intact checkpoint, and one that is run again.
ProgressKept == [][run.fallback \/ run.rerun \/ Recoverable \subseteq Recoverable']_vars

\* Whenever the site is replaced or the next run is queued, a run that takes over can
\* restore all that this run has done: nothing goes on from a state that could be lost.
CheckpointedFirst ==
    [][(site' # site \/ (queued' /\ ~queued)) =>
          run.rerun \/ Holds(run.db) \subseteq Recoverable]_vars

\* The version of a site is newer than that of all sites before it, so that clients do not
\* take a shard they have in their caches for one of it; a run that is run again may
\* replace the site by another one of the same version.
VersionsFresh == [][Deploy => run.rerun \/ site < site']_vars

BeforeUpload == {"restore", "status", "crawl", "mark", "package", "checkpoint"}

HasDatabase == {"package", "checkpoint", "verify", "retain", "latest"}

AfterVerification == {"retain", "latest"}

First == ~At("idle") /\ ~run.rerun

\* Runs that did not begin have no releases; one that runs for the first time is the
\* newest, and so is its release.
NumbersInv ==
    /\ site <= started
    /\ ~At("idle") => run.id \in Runs /\ run.id <= started
    /\ \A i \in Runs : checkpoints[i].created = 0 => checkpoints[i].state = "absent"
    /\ \A i \in Runs : i > started => checkpoints[i] = Absent
    /\ First =>
          /\ run.id = started /\ site < started
          /\ Own.created # 0 => \A i \in Runs : checkpoints[i].created <= Own.created

\* An intact release of such a run holds its database; before the upload there is none,
\* and after the verification it is there, unless the run fails.
ReleaseInv ==
    /\ run.pc \in HasDatabase => run.db # None
    /\ At("mark") => run.failed
    /\ First =>
          /\ run.pc \in BeforeUpload => Own.state # "intact"
          /\ Own.state = "intact" => run.db # None /\ Own.db = run.db
          /\ run.pc \in AfterVerification => Own.state = "intact"
          /\ run.pc \in {"badges", "follow-up"} /\ ~run.failed /\ run.db # None
             => Own.state = "intact"

\* Such a run builds on what can be restored, unless it could not.
RestoredInv ==
    /\ First /\ ~run.fallback
    /\ run.pc \in {"status", "crawl"} \/ (run.pc \in BeforeUpload /\ run.db # None)
    => Recoverable \subseteq Holds(run.db)

\* The inductive invariant.
WorkflowInv == TypeOK /\ NumbersInv /\ ReleaseInv /\ RestoredInv

\* The state badge updates when a batch fails (README.md:51-52): it does after a crawl that
\* raised, once the last badges are published.
FailureShown == At("follow-up") /\ run.raised => badge = "failed"
=============================================================================
