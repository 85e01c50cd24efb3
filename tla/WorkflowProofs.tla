--------------------------- MODULE WorkflowProofs ---------------------------
(***************************************************************************)
(* Proofs about the scheduled crawl, for any number of runs, batches and   *)
(* retained checkpoints.                                                   *)
(***************************************************************************)
EXTENDS Workflow, FiniteSetTheorems, TLAPS

-----------------------------------------------------------------------------
(* The newest checkpoint *)

LEMMA DatesAreNumbers ==
    ASSUME TypeOK, NEW i \in Runs
    PROVE  checkpoints[i].created \in Nat /\ i \in Nat \ {0}
<1>1. checkpoints[i] \in Release
  BY DEF TypeOK
<1>2. checkpoints[i].created \in Stamps \union {0}
  BY <1>1 DEF Release
<1>3. \A x \in Stamps \union {0} : x \in Nat
  BY WorkflowAssumption
<1>4. checkpoints[i].created \in Nat
  BY <1>2, <1>3
<1> QED
  BY <1>4, WorkflowAssumption

LEMMA NewerOnlyOneWay ==
    ASSUME TypeOK, NEW i \in Runs, NEW j \in Runs, Newer(i, j)
    PROVE  ~Newer(j, i)
<1>1. checkpoints[i].created \in Nat /\ checkpoints[j].created \in Nat /\ i \in Nat /\ j \in Nat
  BY DatesAreNumbers
<1> QED
  BY <1>1 DEF Newer

\* What is newer than all others is the only newest.
LEMMA NewestIs ==
    ASSUME TypeOK, NEW S \in SUBSET Runs, NEW i \in S, \A j \in S \ {i} : Newer(i, j)
    PROVE  Newest(S) = {i}
BY NewerOnlyOneWay DEF Newest

\* The release of the run in progress, if it is the first run of its number and its
\* release is intact, is what would be restored.
LEMMA OwnIsNewest ==
    ASSUME TypeOK, NumbersInv, First, Own.state = "intact"
    PROVE  Recoverable = Own.db /\ \A i \in Runs \ {run.id} : Newer(run.id, i)
<1>1. run.id \in Runs /\ run.id = started /\ Own.created # 0
      /\ \A i \in Runs : checkpoints[i].created <= Own.created
  BY DEF NumbersInv, First, Own
<1>2. ASSUME NEW i \in Runs, i # run.id PROVE Newer(run.id, i)
  <2>1. i \in Nat /\ run.id \in Nat
    BY <1>1, WorkflowAssumption
  <2>2. checkpoints[i].created \in Nat /\ Own.created \in Nat
    BY <1>1, DatesAreNumbers DEF Own
  <2>3. checkpoints[i].created <= Own.created
    BY <1>1
  <2>4. CASE i < run.id
    BY <2>1, <2>2, <2>3, <2>4 DEF Newer, Own
  <2>5. CASE i > run.id
    <3>1. checkpoints[i].created = 0
      BY <1>1, <2>5 DEF NumbersInv, Absent
    <3> QED
      BY <1>1, <2>2, <3>1 DEF Newer, Own
  <2> QED
    BY <1>2, <2>1, <2>4, <2>5
<1>3. run.id \in Intact /\ Intact \in SUBSET Runs
  BY <1>1 DEF Intact, Own
<1>4. Newest(Intact) = {run.id}
  BY <1>2, <1>3, NewestIs
<1> QED
  BY <1>2, <1>3, <1>4 DEF Recoverable, Own

LEMMA OwnIsRecoverable ==
    TypeOK /\ NumbersInv /\ First /\ Own.state = "intact" => Recoverable = Own.db
BY OwnIsNewest

LEMMA OwnIsRecoverableNext ==
    TypeOK' /\ NumbersInv' /\ First' /\ Own'.state = "intact" => Recoverable' = Own'.db
<1>1. (TypeOK /\ NumbersInv /\ First /\ Own.state = "intact" => Recoverable = Own.db)'
  BY OwnIsRecoverable, PTL
<1> QED
  BY <1>1

LEMMA SameCheckpoints ==
    ASSUME checkpoints' = checkpoints
    PROVE  Recoverable' = Recoverable
BY DEF Recoverable, Newest, Newer, Intact

\* Releases that are not intact do not matter.
LEMMA SameIntact ==
    ASSUME Intact' = Intact, \A i \in Intact : checkpoints'[i] = checkpoints[i]
    PROVE  Recoverable' = Recoverable
<1>1. Newest(Intact)' = Newest(Intact)
  BY DEF Newest, Newer
<1> QED
  BY <1>1 DEF Recoverable, Newest

-----------------------------------------------------------------------------
(* Types *)

\* What a step makes of the run in progress.
LEMMA RunTyped ==
    ASSUME TypeOK, Next
    PROVE  run' \in Run
<1>1. run \in Run /\ NoRun \in Run /\ batches \in {0} \union Batches
  BY DEF TypeOK, Run, NoRun, Steps, Statuses
<1>2. \A i \in Runs : checkpoints[i].db \in Databases
  BY DEF TypeOK, Release
<1>3. latest.db \in Databases
  BY DEF TypeOK
<1>4. Holds(run.db) \in Databases
  BY <1>1 DEF Run, Holds, Databases
<1>5. CASE Begin
  <2>1. PICK id \in Runs :
            run' = [NoRun EXCEPT !.pc = "restore", !.id = id, !.rerun = id <= started]
    BY <1>5 DEF Begin
  <2>2. (id <= started) \in BOOLEAN
    OBVIOUS
  <2>3. [NoRun EXCEPT !.id = id] \in Run
    BY <1>1 DEF Run
  <2> QED
    BY <1>1, <2>1, <2>2, <2>3 DEF Run, Steps
<1>6. CASE RestoreCheckpoint \/ RestoreLatest \/ StartFresh \/ RestoreFails
  <2>1. ASSUME NEW db \in Databases \union {None} PROVE Restored(db) \in Run
    BY <1>1 DEF Restored, Run, Steps
  <2>2. CASE RestoreCheckpoint
    BY <1>2, <2>1, <2>2 DEF RestoreCheckpoint, Intact
  <2>3. CASE RestoreLatest \/ StartFresh
    BY <1>3, <2>1, <2>3 DEF RestoreLatest, StartFresh
  <2>4. CASE RestoreFails
    BY <1>1, <2>4 DEF RestoreFails, Run, Steps
  <2> QED
    BY <1>6, <2>2, <2>3, <2>4
<1>7. CASE MarkRunning \/ MarkRunningFails \/ MarkFailed
  <2>1. MarkFailed => \E r \in Run : run' = Packaged(r)
    BY <1>1 DEF MarkFailed, WriteStatus, Run, Statuses
  <2>2. \A r \in Run : Packaged(r) \in Run
    BY DEF Packaged, Run, Steps
  <2>3. MarkRunning \/ MarkRunningFails => run' \in Run
    BY <1>1 DEF MarkRunning, MarkRunningFails, WriteStatus, Run, Statuses, Steps
  <2> QED
    BY <1>7, <2>1, <2>2, <2>3
<1>8. CASE CrawlReports \/ CrawlRaises \/ CrawlCancelled
  <2>1. Advanced \in Databases
    BY <1>4, <1>8
    DEF CrawlReports, CrawlRaises, CrawlCancelled, BeginsBatch, Advanced, Databases
  <2>2. \A db \in AfterFailure \union {run.db} : db \in Databases \union {None}
    BY <1>1, <1>4, <2>1 DEF AfterFailure, Run
  <2>3. CASE CrawlReports
    BY <1>1, <2>1, <2>3 DEF CrawlReports, Ready, WriteStatus, Run, Steps, Statuses
  <2>4. CASE CrawlRaises
    <3>1. PICK db \in AfterFailure \union {run.db} :
              run' = Packaged([run EXCEPT !.db = db, !.raised = TRUE])
      BY <2>4 DEF CrawlRaises
    <3>2. [run EXCEPT !.db = db, !.raised = TRUE] \in Run
      BY <1>1, <2>2 DEF Run
    <3> QED
      BY <3>1, <3>2 DEF Packaged, Run, Steps
  <2>5. CASE CrawlCancelled
    BY <1>1, <2>2, <2>5 DEF CrawlCancelled, Run, Steps
  <2> QED
    BY <1>8, <2>3, <2>4, <2>5
<1>9. CASE \/ PackageState \/ KeepCheckpoint \/ WriteCheckpoint \/ BreakCheckpoint
           \/ VerifyCheckpoint \/ Retain \/ SaveLatest \/ BreakLatest \/ PublishBadges
           \/ StepFails
  <2>1. ASSUME NEW step \in Steps PROVE [run EXCEPT !.pc = step] \in Run
    BY <1>1 DEF Run
  <2>2. [run EXCEPT !.pc = "badges", !.failed = TRUE] \in Run
    BY <1>1 DEF Run, Steps
  <2>3. CASE StepFails
    BY <1>1, <2>2, <2>3 DEF StepFails
  <2>4. CASE BreakCheckpoint
    BY <2>1, <2>4 DEF BreakCheckpoint, Steps
  <2>5. CASE PackageState \/ KeepCheckpoint \/ WriteCheckpoint
    BY <2>1, <2>5 DEF PackageState, KeepCheckpoint, WriteCheckpoint, Steps
  <2>6. CASE VerifyCheckpoint \/ Retain \/ SaveLatest \/ BreakLatest \/ PublishBadges
    BY <1>1, <2>1, <2>6
    DEF VerifyCheckpoint, Verify, Retain, SaveLatest, BreakLatest, PublishBadges, Steps
  <2> QED
    BY <1>9, <2>3, <2>4, <2>5, <2>6
<1>10. CASE QueueNext \/ Deploy \/ EndRun \/ LoseRunner
  BY <1>1, <1>10 DEF QueueNext, Deploy, EndRun, LoseRunner
<1> QED
  BY <1>5, <1>6, <1>7, <1>8, <1>9, <1>10 DEF Next

\* What it makes of the releases.
LEMMA CheckpointsTyped ==
    ASSUME TypeOK, NumbersInv, ReleaseInv, Next
    PROVE  checkpoints' \in [Runs -> Release]
<1>1. checkpoints \in [Runs -> Release] /\ run \in Run
  BY DEF TypeOK
<1>2. ASSUME NEW release \in Release, Save(run.id, release)
      PROVE  checkpoints' \in [Runs -> Release]
  BY <1>1, <1>2 DEF Save
<1>3. ~At("idle") => CreatedAt \subseteq Stamps \union {0}
  BY <1>1 DEF CreatedAt, Own, NumbersInv, Release
<1>4. CASE WriteCheckpoint
  <2>1. run.db \in Databases
    BY <1>1, <1>4 DEF WriteCheckpoint, At, Run, ReleaseInv, HasDatabase
  <2> QED
    BY <1>2, <1>3, <1>4, <2>1 DEF WriteCheckpoint, Release, At
<1>5. CASE BreakCheckpoint
  BY <1>2, <1>3, <1>5 DEF BreakCheckpoint, Release, At, Databases
<1>6. CASE Retain
  <2>1. PICK deleted \in SUBSET Excess :
            checkpoints' = [i \in Runs |->
                IF i \in deleted THEN [Absent EXCEPT !.created = checkpoints[i].created]
                ELSE checkpoints[i]]
    BY <1>6 DEF Retain
  <2>2. \A i \in Runs : [Absent EXCEPT !.created = checkpoints[i].created] \in Release
    BY <1>1 DEF Absent, Release, Databases
  <2> QED
    BY <1>1, <2>1, <2>2
<1>7. CASE checkpoints' = checkpoints
  BY <1>1, <1>7
<1> QED
  BY <1>4, <1>5, <1>6, <1>7
  DEF Next, Begin, RestoreCheckpoint, RestoreLatest, StartFresh, RestoreFails, MarkRunning,
      MarkRunningFails, CrawlReports, CrawlRaises, CrawlCancelled, MarkFailed, PackageState,
      KeepCheckpoint, VerifyCheckpoint, SaveLatest, BreakLatest, PublishBadges, StepFails,
      QueueNext, Deploy, EndRun, LoseRunner

\* A step keeps the variables well formed.
LEMMA StepTyped ==
    ASSUME TypeOK, NumbersInv, ReleaseInv, Next
    PROVE  TypeOK'
<1>1. run' \in Run /\ checkpoints' \in [Runs -> Release]
  BY RunTyped, CheckpointsTyped
<1>2. run \in Run /\ run.status \in Statuses /\ run.db \in Databases \union {None}
  BY DEF TypeOK, Run
<1>3. latest' \in [state : {"absent", "broken", "intact"}, db : Databases]
  <2>1. CASE SaveLatest
    <3>1. run.db \in Databases
      BY <1>2, <2>1 DEF SaveLatest, At, ReleaseInv, HasDatabase
    <3> QED
      BY <2>1, <3>1 DEF SaveLatest
  <2>2. CASE BreakLatest
    BY <2>2 DEF BreakLatest, Databases
  <2>3. CASE latest' = latest
    BY <2>3 DEF TypeOK
  <2> QED
    BY <2>1, <2>2, <2>3
    DEF Next, Begin, RestoreCheckpoint, RestoreLatest, StartFresh, RestoreFails, MarkRunning,
        MarkRunningFails, CrawlReports, CrawlRaises, CrawlCancelled, MarkFailed, PackageState,
        KeepCheckpoint, WriteCheckpoint, BreakCheckpoint, VerifyCheckpoint, Retain,
        PublishBadges, StepFails, QueueNext, Deploy, EndRun, LoseRunner
<1>4. site' \in {0} \union Runs
  <2>1. CASE Deploy
    BY <2>1 DEF Deploy, IndexVersion, At, NumbersInv
  <2>2. CASE site' = site
    BY <2>2 DEF TypeOK
  <2> QED
    BY <2>1, <2>2
    DEF Next, Begin, RestoreCheckpoint, RestoreLatest, StartFresh, RestoreFails, MarkRunning,
        MarkRunningFails, CrawlReports, CrawlRaises, CrawlCancelled, MarkFailed, PackageState,
        KeepCheckpoint, WriteCheckpoint, BreakCheckpoint, VerifyCheckpoint, Retain, SaveLatest,
        BreakLatest, PublishBadges, StepFails, QueueNext, EndRun, LoseRunner
<1>5. badge' \in Statuses /\ queued' \in BOOLEAN
  BY <1>2
  DEF TypeOK, Statuses,
      Next, Begin, RestoreCheckpoint, RestoreLatest, StartFresh, RestoreFails, MarkRunning,
      MarkRunningFails, CrawlReports, CrawlRaises, CrawlCancelled, MarkFailed, PackageState,
      KeepCheckpoint, WriteCheckpoint, BreakCheckpoint, VerifyCheckpoint, Retain, SaveLatest,
      BreakLatest, PublishBadges, StepFails, QueueNext, Deploy, EndRun, LoseRunner
<1>6. started' \in {0} \union Runs /\ batches' \in {0} \union Batches
  BY DEF TypeOK, BeginsBatch,
      Next, Begin, RestoreCheckpoint, RestoreLatest, StartFresh, RestoreFails, MarkRunning,
      MarkRunningFails, CrawlReports, CrawlRaises, CrawlCancelled, MarkFailed, PackageState,
      KeepCheckpoint, WriteCheckpoint, BreakCheckpoint, VerifyCheckpoint, Retain, SaveLatest,
      BreakLatest, PublishBadges, StepFails, QueueNext, Deploy, EndRun, LoseRunner
<1> QED
  BY <1>1, <1>3, <1>4, <1>5, <1>6 DEF TypeOK

-----------------------------------------------------------------------------
(* The invariant: runs that begin, go on and end *)

StepInv == NumbersInv /\ ReleaseInv /\ RestoredInv

\* A run that is over leaves only the numbers to be right.
LEMMA RunEnds ==
    ASSUME WorkflowInv, checkpoints' = checkpoints, started' = started, run' = NoRun,
           site' \in {site} \union (IF At("idle") THEN {} ELSE {run.id})
    PROVE  StepInv'
<1>1. At("idle")' /\ ~First' /\ run'.pc = "idle"
  BY DEF At, First, NoRun
<1>2. NumbersInv'
  <2>1. site' <= started'
    BY DEF WorkflowInv, NumbersInv
  <2> QED
    BY <1>1, <2>1 DEF WorkflowInv, NumbersInv
<1>3. ReleaseInv'
  BY <1>1 DEF ReleaseInv, HasDatabase, At
<1>4. RestoredInv'
  BY <1>1 DEF RestoredInv
<1> QED
  BY <1>2, <1>3, <1>4 DEF StepInv

\* A run for the first time has the next number, of which there is no release.
LEMMA RunBegins ==
    ASSUME WorkflowInv, Begin
    PROVE  StepInv'
<1>1. PICK id \in Runs :
          /\ id <= started + 1
          /\ run' = [NoRun EXCEPT !.pc = "restore", !.id = id, !.rerun = id <= started]
          /\ started' = IF id <= started THEN started ELSE id
  BY DEF Begin
<1>2. /\ run'.pc = "restore" /\ run'.id = id /\ run'.db = None
      /\ run'.rerun = (id <= started)
  BY <1>1 DEF NoRun
<1>3. started \in Nat /\ site \in Nat /\ site <= started /\ \A i \in Runs : i \in Nat \ {0}
  BY WorkflowAssumption DEF WorkflowInv, TypeOK, NumbersInv
<1>4. checkpoints' = checkpoints /\ site' = site
  BY DEF Begin
<1>5. started <= started' /\ id <= started'
  BY <1>1, <1>3
<1>6. ~At("idle")' /\ At("restore")' /\ First' = ~(id <= started)
  BY <1>2 DEF At, First
<1>7. ASSUME ~(id <= started)
      PROVE  id = started' /\ site < started' /\ checkpoints[id] = Absent
  BY <1>1, <1>3, <1>7 DEF WorkflowInv, NumbersInv
<1>8. First' => Own' = Absent
  <2>1. First' => ~(id <= started)
    BY <1>2 DEF First
  <2>2. Own' = checkpoints[id]
    BY <1>2, <1>4 DEF Own
  <2> QED
    BY <1>7, <2>1, <2>2
<1>9. NumbersInv'
  <2>1. \A i \in Runs : i > started' => checkpoints'[i] = Absent
    BY <1>3, <1>4, <1>1 DEF WorkflowInv, NumbersInv
  <2>2. First' => Own'.created = 0
    BY <1>8 DEF Absent
  <2>3. site' <= started'
    BY <1>1, <1>3, <1>4
  <2>4. \A i \in Runs : checkpoints'[i].created = 0 => checkpoints'[i].state = "absent"
    BY <1>4 DEF WorkflowInv, NumbersInv
  <2> QED
    BY <1>2, <1>4, <1>5, <1>6, <1>7, <2>1, <2>2, <2>3, <2>4 DEF NumbersInv
<1>10. ReleaseInv'
  <2>1. First' => Own'.state = "absent"
    BY <1>8 DEF Absent
  <2> QED
    BY <1>2, <2>1 DEF ReleaseInv, HasDatabase, AfterVerification, At
<1>11. RestoredInv'
  BY <1>2 DEF RestoredInv
<1> QED
  BY <1>9, <1>10, <1>11 DEF StepInv

\* A step between those that touches no release.
Moves ==
    /\ checkpoints' = checkpoints /\ started' = started /\ site' = site
    /\ ~At("idle") /\ run'.pc # "idle" /\ run'.id = run.id /\ run'.rerun = run.rerun

LEMMA RunMoves ==
    ASSUME WorkflowInv, Moves
    PROVE  /\ First' = First /\ Own' = Own /\ Recoverable' = Recoverable
           /\ NumbersInv'
<1>1. First' = First
  BY DEF Moves, First, At
<1>2. Own' = Own
  BY DEF Moves, Own
<1>3. Recoverable' = Recoverable
  BY SameCheckpoints DEF Moves
<1>4. NumbersInv'
  BY <1>1, <1>2 DEF NumbersInv, Moves, WorkflowInv, At
<1> QED
  BY <1>1, <1>2, <1>3, <1>4

LEMMA RestoreKeeps ==
    ASSUME WorkflowInv, RestoreCheckpoint \/ RestoreLatest \/ StartFresh \/ RestoreFails
    PROVE  StepInv'
<1>1. At("restore") /\ run \in Run
  BY DEF RestoreCheckpoint, RestoreLatest, StartFresh, RestoreFails, WorkflowInv, TypeOK
<1>2. CASE RestoreFails
  <2>1. run' = [run EXCEPT !.pc = "mark", !.failed = TRUE] /\ Moves
    BY <1>1, <1>2 DEF RestoreFails, Moves, At, Run
  <2>2. run'.pc = "mark" /\ run'.failed /\ run'.db = run.db /\ run'.fallback = run.fallback
    BY <1>1, <2>1 DEF Run
  <2>3. ReleaseInv'
    BY <1>1, <2>1, <2>2, RunMoves
    DEF ReleaseInv, HasDatabase, AfterVerification, BeforeUpload, At, WorkflowInv
  <2>4. RestoredInv'
    BY <1>1, <2>1, <2>2, RunMoves DEF RestoredInv, BeforeUpload, At, WorkflowInv
  <2> QED
    BY <2>1, <2>3, <2>4, RunMoves DEF StepInv
<1>3. CASE RestoreCheckpoint \/ RestoreLatest \/ StartFresh
  <2>1. PICK db : run' = Restored(db)
    BY <1>3 DEF RestoreCheckpoint, RestoreLatest, StartFresh
  <2>2. /\ run'.pc = "status" /\ run'.db = db
        /\ run'.fallback = ~(Recoverable \subseteq Holds(db))
        /\ run'.id = run.id /\ run'.rerun = run.rerun
    BY <1>1, <2>1 DEF Restored, Run
  <2>3. Moves
    BY <1>1, <1>3, <2>2 DEF RestoreCheckpoint, RestoreLatest, StartFresh, Moves, At
  <2>4. ReleaseInv'
    BY <1>1, <2>2, <2>3, RunMoves
    DEF ReleaseInv, HasDatabase, AfterVerification, BeforeUpload, At, WorkflowInv
  <2>5. RestoredInv'
    <3>1. Holds(db)' = Holds(db)
      BY DEF Holds
    <3> QED
      BY <2>2, <2>3, RunMoves DEF RestoredInv, Holds
  <2> QED
    BY <2>3, <2>4, <2>5, RunMoves DEF StepInv
<1> QED
  BY <1>2, <1>3

\* Of the crawl, all that matters is that the database loses nothing.
LEMMA CrawlKeeps ==
    ASSUME WorkflowInv, NEW db, NEW step,
           Moves, run.pc \in {"status", "crawl"}, step \in {"crawl", "package", "mark", "badges"},
           run'.pc = step, run'.db = db, run'.fallback = run.fallback,
           step = "mark" => run'.failed, step = "package" => db # None,
           step = "badges" => db = None,
           Holds(run.db) \subseteq Holds(db)
    PROVE  StepInv'
<1>1. ReleaseInv'
  BY RunMoves DEF ReleaseInv, HasDatabase, AfterVerification, BeforeUpload, At, WorkflowInv
<1>2. RestoredInv'
  <2>1. First /\ ~run.fallback => Recoverable \subseteq Holds(run.db)
    BY DEF WorkflowInv, RestoredInv
  <2> QED
    BY <2>1, RunMoves DEF RestoredInv, Holds
<1> QED
  BY <1>1, <1>2, RunMoves DEF StepInv

LEMMA CrawlSteps ==
    ASSUME WorkflowInv,
           MarkRunning \/ MarkRunningFails \/ CrawlReports \/ CrawlRaises \/ CrawlCancelled
    PROVE  StepInv'
<1>1. run \in Run /\ run.db \in Databases \union {None} /\ batches \in {0} \union Batches
  BY DEF WorkflowInv, TypeOK, Run
<1>2. None \notin Databases
  BY WorkflowAssumption DEF Databases
<1>3. Holds(run.db) \in Databases
  BY <1>1 DEF Holds, Databases
<1>4. \A db \in Databases : Holds(db) = db
  BY <1>2 DEF Holds
<1>5. CASE MarkRunning
  <2>1. run' = [WriteStatus(run, "running") EXCEPT !.pc = "crawl"] /\ At("status")
    BY <1>5 DEF MarkRunning
  <2>2. /\ run'.pc = "crawl" /\ run'.db = run.db /\ run'.fallback = run.fallback
        /\ run'.id = run.id /\ run'.rerun = run.rerun
    BY <1>1, <2>1 DEF WriteStatus, Run
  <2>3. Moves
    BY <1>5, <2>1, <2>2 DEF MarkRunning, Moves, At
  <2> QED
    BY <2>1, <2>2, <2>3, CrawlKeeps DEF At
<1>6. CASE MarkRunningFails
  <2>1. /\ run' = [WriteStatus(run, "running") EXCEPT !.pc = "mark", !.failed = TRUE]
        /\ At("status")
    BY <1>6 DEF MarkRunningFails
  <2>2. /\ run'.pc = "mark" /\ run'.db = run.db /\ run'.fallback = run.fallback /\ run'.failed
        /\ run'.id = run.id /\ run'.rerun = run.rerun
    BY <1>1, <2>1 DEF WriteStatus, Run
  <2>3. Moves
    BY <1>6, <2>1, <2>2 DEF MarkRunningFails, Moves, At
  <2> QED
    BY <2>1, <2>2, <2>3, CrawlKeeps DEF At
<1>7. CASE CrawlReports \/ CrawlRaises \/ CrawlCancelled
  <2>1. At("crawl") /\ batches + 1 \in Batches
    BY <1>7 DEF CrawlReports, CrawlRaises, CrawlCancelled, BeginsBatch
  <2>2. Advanced \in Databases /\ Holds(run.db) \subseteq Advanced
    BY <1>3, <2>1 DEF Advanced, Databases
  <2>3. PICK db \in {Advanced, Holds(run.db), run.db} :
            /\ run'.db = db /\ run'.id = run.id /\ run'.rerun = run.rerun
            /\ run'.fallback = run.fallback
            /\ \/ run'.pc = "package" /\ db \in Databases
               \/ run'.pc = "mark" /\ run'.failed
               \/ run'.pc = "badges" /\ db = None
    <3>1. CASE CrawlReports
      <4>1. PICK published \in BOOLEAN, stalled \in BOOLEAN :
                run' = [WriteStatus(run, "idle") EXCEPT !.pc = "package", !.db = Advanced,
                           !.published = published, !.continue = Ready(published, stalled)]
        BY <3>1 DEF CrawlReports
      <4>2. /\ run'.db = Advanced /\ run'.id = run.id /\ run'.rerun = run.rerun
            /\ run'.fallback = run.fallback /\ run'.pc = "package"
        BY <1>1, <4>1 DEF WriteStatus, Run
      <4> QED
        BY <2>2, <4>2
    <3>2. CASE CrawlRaises
      <4>1. PICK db \in AfterFailure \union {run.db} :
                run' = Packaged([run EXCEPT !.db = db, !.raised = TRUE])
        BY <3>2 DEF CrawlRaises
      <4>2. /\ run'.db = db /\ run'.id = run.id /\ run'.rerun = run.rerun
            /\ run'.fallback = run.fallback
            /\ run'.pc = IF db = None THEN "badges" ELSE "package"
        BY <1>1, <4>1 DEF Packaged, Run
      <4>3. db \in {Advanced, Holds(run.db), run.db}
        BY <4>1 DEF AfterFailure
      <4>4. db \in Databases \union {None}
        BY <1>1, <1>3, <2>2, <4>3
      <4> QED
        BY <4>2, <4>3, <4>4
    <3>3. CASE CrawlCancelled
      <4>1. PICK db \in AfterFailure \union {run.db} :
                run' = [run EXCEPT !.pc = "mark", !.db = db, !.failed = TRUE]
        BY <3>3 DEF CrawlCancelled
      <4>2. /\ run'.db = db /\ run'.id = run.id /\ run'.rerun = run.rerun
            /\ run'.fallback = run.fallback /\ run'.pc = "mark" /\ run'.failed
        BY <1>1, <4>1 DEF Run
      <4> QED
        BY <4>1, <4>2 DEF AfterFailure
    <3> QED
      BY <1>7, <3>1, <3>2, <3>3
  <2>4. Moves
    BY <1>7, <2>1, <2>3
    DEF CrawlReports, CrawlRaises, CrawlCancelled, Moves, At
  <2>5. Holds(run.db) \subseteq Holds(db)
    BY <1>3, <1>4, <2>2, <2>3
  <2> QED
    BY <1>2, <2>1, <2>3, <2>4, <2>5, CrawlKeeps DEF At
<1> QED
  BY <1>5, <1>6, <1>7

LEMMA MarkKeeps ==
    ASSUME WorkflowInv, MarkFailed
    PROVE  StepInv'
<1>1. At("mark") /\ run \in Run /\ run.failed
  BY DEF MarkFailed, WorkflowInv, TypeOK, ReleaseInv
<1>2. /\ run'.db = run.db /\ run'.id = run.id /\ run'.rerun = run.rerun
      /\ run'.fallback = run.fallback /\ run'.failed
      /\ run'.pc = IF run.db = None THEN "badges" ELSE "package"
  <2>1. PICK r \in {WriteStatus(run, "failed"), run} : run' = Packaged(r)
    BY DEF MarkFailed
  <2>2. /\ r \in Run /\ r.db = run.db /\ r.id = run.id /\ r.rerun = run.rerun
        /\ r.fallback = run.fallback /\ r.failed
    BY <1>1 DEF WriteStatus, Run, Statuses
  <2> QED
    BY <2>1, <2>2 DEF Packaged, Run
<1>3. Moves
  BY <1>1, <1>2 DEF MarkFailed, Moves, At
<1>4. ReleaseInv'
  BY <1>1, <1>2, <1>3, RunMoves
  DEF ReleaseInv, HasDatabase, AfterVerification, BeforeUpload, At, WorkflowInv
<1>5. RestoredInv'
  <2>1. First /\ ~run.fallback /\ run.db # None => Recoverable \subseteq Holds(run.db)
    BY <1>1 DEF WorkflowInv, RestoredInv, BeforeUpload, At
  <2> QED
    BY <1>2, <1>3, <2>1, RunMoves DEF RestoredInv, BeforeUpload, Holds
<1> QED
  BY <1>3, <1>4, <1>5, RunMoves DEF StepInv

-----------------------------------------------------------------------------
(* The invariant: the checkpoint *)

\* After the crawl the run keeps its database.
Goes(step) ==
    /\ started' = started /\ site' = site
    /\ run'.pc = step /\ run'.id = run.id /\ run'.rerun = run.rerun /\ run'.db = run.db
    /\ run'.fallback = run.fallback /\ run'.failed = run.failed

LEMMA TailSteps ==
    ASSUME WorkflowInv,
           \/ PackageState \/ KeepCheckpoint \/ VerifyCheckpoint \/ SaveLatest \/ BreakLatest
           \/ PublishBadges \/ (StepFails /\ ~At("badges"))
    PROVE  StepInv'
<1>1. run \in Run
  BY DEF WorkflowInv, TypeOK
<1>2. run.pc \in HasDatabase \union {"badges"}
  BY DEF PackageState, KeepCheckpoint, VerifyCheckpoint, Verify, SaveLatest, BreakLatest,
         PublishBadges, StepFails, At, HasDatabase
<1>3. /\ run'.pc # "idle" /\ run'.id = run.id /\ run'.rerun = run.rerun /\ run'.db = run.db
      /\ run'.fallback = run.fallback
      /\ \/ run.pc = "package" /\ run'.pc = "checkpoint" /\ run'.failed = run.failed
         \/ run.pc = "checkpoint" /\ run'.pc = "verify" /\ Own.state = "intact"
         \/ run.pc = "verify" /\ run'.pc = "retain" /\ Own.state = "intact"
         \/ run.pc = "latest" /\ run'.pc \in {"latest", "badges"}
         \/ run.pc = "badges" /\ run'.pc = "follow-up" /\ run'.failed = run.failed
         \/ run'.pc = "badges" /\ run'.failed
  <2>1. CASE PackageState
    BY <1>1, <2>1 DEF PackageState, At, Run
  <2>2. CASE KeepCheckpoint
    BY <1>1, <2>2 DEF KeepCheckpoint, At, Run
  <2>3. CASE VerifyCheckpoint
    BY <1>1, <2>3 DEF VerifyCheckpoint, Verify, At, Run
  <2>4. CASE SaveLatest
    BY <1>1, <2>4 DEF SaveLatest, At, Run
  <2>5. CASE BreakLatest
    BY <1>1, <2>5 DEF BreakLatest, At, Run
  <2>6. CASE PublishBadges
    BY <1>1, <2>6 DEF PublishBadges, At, Run
  <2>7. CASE StepFails /\ ~At("badges")
    BY <1>1, <2>7 DEF StepFails, At, Run
  <2> QED
    BY <2>1, <2>2, <2>3, <2>4, <2>5, <2>6, <2>7
<1>4. checkpoints' = checkpoints /\ started' = started /\ site' = site
  BY DEF PackageState, KeepCheckpoint, VerifyCheckpoint, SaveLatest, BreakLatest,
         PublishBadges, StepFails
<1>5. Moves
  BY <1>2, <1>3, <1>4 DEF Moves, At, HasDatabase
<1>6. ReleaseInv'
  <2>1. run'.pc \in HasDatabase => run'.db # None
    BY <1>3 DEF WorkflowInv, ReleaseInv, HasDatabase
  <2>2. ~At("mark")'
    BY <1>3 DEF At
  <2>3. CASE ~First
    BY <2>1, <2>2, <2>3, <1>5, RunMoves DEF ReleaseInv
  <2>4. CASE First
    <3>1. run'.pc \in BeforeUpload => Own.state # "intact"
      BY <1>3, <2>4 DEF WorkflowInv, ReleaseInv, BeforeUpload
    <3>2. Own.state = "intact" => run'.db # None /\ Own.db = run'.db
      BY <1>3, <2>4 DEF WorkflowInv, ReleaseInv
    <3>3. run'.pc \in AfterVerification => Own.state = "intact"
      BY <1>3, <2>4 DEF WorkflowInv, ReleaseInv, AfterVerification
    <3>4. run'.pc \in {"badges", "follow-up"} /\ ~run'.failed /\ run'.db # None
             => Own.state = "intact"
      BY <1>3, <2>4 DEF WorkflowInv, ReleaseInv, AfterVerification
    <3> QED
      BY <2>1, <2>2, <3>1, <3>2, <3>3, <3>4, <1>5, RunMoves DEF ReleaseInv
  <2> QED
    BY <2>3, <2>4
<1>7. RestoredInv'
  <2>1. CASE run.pc = "package" /\ run'.pc = "checkpoint"
    <3>1. First /\ ~run.fallback => Recoverable \subseteq Holds(run.db)
      BY <2>1 DEF WorkflowInv, RestoredInv, ReleaseInv, HasDatabase, BeforeUpload
    <3> QED
      BY <1>3, <1>5, <2>1, <3>1, RunMoves DEF RestoredInv, Holds
  <2>2. CASE run'.pc \notin BeforeUpload
    BY <2>2 DEF RestoredInv, BeforeUpload
  <2> QED
    BY <1>3, <2>1, <2>2 DEF BeforeUpload
<1> QED
  BY <1>5, <1>6, <1>7, RunMoves DEF StepInv

\* What saving a release of the run in progress leaves right.
LEMMA SaveKeepsNumbers ==
    ASSUME WorkflowInv, At("checkpoint"), NEW step \in {"checkpoint", "verify"}, Goes(step),
           NEW created \in CreatedAt, NEW state, NEW db,
           Save(run.id, [state |-> state, db |-> db, created |-> created])
    PROVE  NumbersInv' /\ Own'.state = state /\ Own'.db = db
<1>1. run.id \in Runs /\ run.id <= started /\ started \in Nat /\ \A i \in Runs : i \in Nat
  BY WorkflowAssumption DEF WorkflowInv, TypeOK, NumbersInv, At
<1>2. checkpoints \in [Runs -> Release]
  BY DEF WorkflowInv, TypeOK
<1>3. /\ \A i \in Runs \ {run.id} : checkpoints'[i] = checkpoints[i]
      /\ checkpoints'[run.id] = [state |-> state, db |-> db, created |-> created]
  BY <1>1, <1>2 DEF Save
<1>4. Own' = [state |-> state, db |-> db, created |-> created]
  BY <1>3 DEF Own, Goes
<1>5. created \in Nat \ {0} /\ (Own.created # 0 => created = Own.created)
      /\ (Own.created = 0 => \A i \in Runs : checkpoints[i].created <= created)
  <2>1. Own.created \in Nat
    BY <1>1, DatesAreNumbers DEF Own, WorkflowInv
  <2>2. \A c \in Stamps : c \in Nat \ {0}
    BY WorkflowAssumption
  <2>3. CASE Own.created # 0
    BY <2>1, <2>3 DEF CreatedAt
  <2>4. CASE Own.created = 0
    BY <2>2, <2>4 DEF CreatedAt
  <2> QED
    BY <2>3, <2>4
<1>6. \A i \in Runs : checkpoints'[i].created = 0 => checkpoints'[i].state = "absent"
  <2> SUFFICES ASSUME NEW i \in Runs, checkpoints'[i].created = 0
               PROVE  checkpoints'[i].state = "absent"
    OBVIOUS
  <2>1. i # run.id
    BY <1>3, <1>5
  <2> QED
    BY <1>3, <2>1 DEF WorkflowInv, NumbersInv
<1>7. \A i \in Runs : i > started' => checkpoints'[i] = Absent
  BY <1>1, <1>3 DEF WorkflowInv, NumbersInv, Goes
<1>8. First => \A i \in Runs : checkpoints'[i].created <= Own'.created
  <2> SUFFICES ASSUME First, NEW i \in Runs
               PROVE  checkpoints'[i].created <= created
    BY <1>4
  <2>1. checkpoints[i].created <= created
    BY <1>5 DEF WorkflowInv, NumbersInv
  <2>2. CASE i = run.id
    BY <1>3, <1>5, <2>2
  <2>3. CASE i # run.id
    BY <1>3, <2>1, <2>3
  <2> QED
    BY <2>2, <2>3
<1>9. First' = First /\ ~At("idle")'
  BY DEF First, At, Goes
<1>10. First => run.id = started /\ site < started
  BY DEF WorkflowInv, NumbersInv
<1>11. NumbersInv'
  BY <1>1, <1>6, <1>7, <1>8, <1>9, <1>10 DEF NumbersInv, Goes, WorkflowInv
<1> QED
  BY <1>4, <1>11

LEMMA WriteKeeps ==
    ASSUME WorkflowInv, WriteCheckpoint
    PROVE  StepInv' /\ (First => Own'.state = "intact" /\ Own'.db = run.db) /\ First' = First
<1>1. PICK created \in CreatedAt :
          Save(run.id, [state |-> "intact", db |-> run.db, created |-> created])
  BY DEF WriteCheckpoint
<1>2. Goes("verify") /\ At("checkpoint")
  BY DEF WriteCheckpoint, Goes, WorkflowInv, TypeOK, Run
<1>3. NumbersInv' /\ Own'.state = "intact" /\ Own'.db = run.db
  BY <1>1, <1>2, SaveKeepsNumbers
<1>4. run'.pc = "verify" /\ run'.db = run.db /\ run.db # None
  BY <1>2 DEF Goes, WorkflowInv, ReleaseInv, HasDatabase, At
<1>5. ReleaseInv'
  BY <1>3, <1>4 DEF ReleaseInv, HasDatabase, BeforeUpload, AfterVerification, At
<1>6. RestoredInv'
  BY <1>4 DEF RestoredInv, BeforeUpload
<1>7. First' = First
  BY <1>2 DEF First, At, Goes
<1> QED
  BY <1>3, <1>5, <1>6, <1>7 DEF StepInv

LEMMA BreakKeeps ==
    ASSUME WorkflowInv, BreakCheckpoint
    PROVE  StepInv' /\ (First => Recoverable' = Recoverable)
<1>1. PICK created \in CreatedAt :
          Save(run.id, [state |-> "broken", db |-> {}, created |-> created])
  BY DEF BreakCheckpoint
<1>2. PICK step \in {"checkpoint", "verify"} : Goes(step)
  BY DEF BreakCheckpoint, Goes, WorkflowInv, TypeOK, Run
<1>3. At("checkpoint")
  BY DEF BreakCheckpoint
<1>4. NumbersInv' /\ Own'.state = "broken"
  BY <1>1, <1>2, <1>3, SaveKeepsNumbers
<1>5. First' = First
  BY <1>2, <1>3 DEF First, At, Goes
<1>6. First => Recoverable' = Recoverable
  <2> SUFFICES ASSUME First PROVE Recoverable' = Recoverable
    OBVIOUS
  <2>1. Own.state # "intact"
    BY <1>3 DEF WorkflowInv, ReleaseInv, BeforeUpload, At
  <2>2. /\ \A i \in Runs \ {run.id} : checkpoints'[i] = checkpoints[i]
        /\ checkpoints'[run.id].state = "broken"
    BY <1>1, <1>3 DEF Save, WorkflowInv, TypeOK, NumbersInv, At
  <2>3. \A i \in Runs : checkpoints'[i].state = "intact" <=> checkpoints[i].state = "intact"
    BY <2>1, <2>2 DEF Own
  <2>4. Intact' = Intact /\ \A i \in Intact : checkpoints'[i] = checkpoints[i]
    BY <2>1, <2>2, <2>3 DEF Intact, Own
  <2> QED
    BY <2>4, SameIntact
<1>7. run'.pc = step /\ run'.db = run.db /\ run.db # None
  BY <1>2, <1>3 DEF Goes, WorkflowInv, ReleaseInv, HasDatabase, At
<1>8. ReleaseInv'
  BY <1>4, <1>7 DEF ReleaseInv, HasDatabase, BeforeUpload, AfterVerification, At
<1>9. RestoredInv'
  <2>1. First /\ ~run.fallback => Recoverable \subseteq Holds(run.db)
    BY <1>3, <1>7 DEF WorkflowInv, RestoredInv, BeforeUpload, At
  <2>2. run'.fallback = run.fallback
    BY <1>2 DEF Goes
  <2> QED
    BY <1>5, <1>6, <1>7, <2>1, <2>2 DEF RestoredInv, Holds
<1> QED
  BY <1>4, <1>6, <1>8, <1>9 DEF StepInv

\* A release that no other is newer than is not deleted.
LEMMA RetainKeeps ==
    ASSUME WorkflowInv, Retain
    PROVE  StepInv' /\ (First => Own'.state = "intact" /\ Own' = Own) /\ First' = First
<1>1. PICK deleted \in SUBSET Excess :
          checkpoints' = [i \in Runs |->
              IF i \in deleted THEN [Absent EXCEPT !.created = checkpoints[i].created]
              ELSE checkpoints[i]]
  BY DEF Retain
<1>2. Goes("latest") /\ At("retain")
  BY DEF Retain, Goes, WorkflowInv, TypeOK, Run
<1>3. First' = First /\ run.id \in Runs /\ run'.id = run.id
  BY <1>2 DEF First, At, Goes, WorkflowInv, NumbersInv
<1>4. \A i \in Runs :
          /\ checkpoints'[i].created = checkpoints[i].created
          /\ i \in deleted => checkpoints'[i].state = "absent" /\ checkpoints[i].state # "absent"
          /\ i \notin deleted => checkpoints'[i] = checkpoints[i]
  BY <1>1 DEF Absent, Excess, Tags
<1>5. First => run.id \notin deleted /\ Own.state = "intact"
  <2> SUFFICES ASSUME First PROVE run.id \notin Excess /\ Own.state = "intact"
    OBVIOUS
  <2>1. Own.state = "intact"
    BY <1>2 DEF WorkflowInv, ReleaseInv, AfterVerification, At
  <2>2. \A i \in Runs \ {run.id} : Newer(run.id, i)
    BY <2>1, OwnIsNewest DEF WorkflowInv
  <2>3. ~Newer(run.id, run.id)
    BY <1>3, NewerOnlyOneWay DEF WorkflowInv
  <2>4. {j \in Tags : Newer(j, run.id)} = {}
    BY <1>3, <2>2, <2>3, NewerOnlyOneWay DEF Tags, WorkflowInv
  <2>5. Cardinality({j \in Tags : Newer(j, run.id)}) = 0
    BY <2>4, FS_EmptySet
  <2> QED
    BY <2>1, <2>5, WorkflowAssumption DEF Excess
<1>6. First => Own' = Own
  BY <1>3, <1>4, <1>5 DEF Own
<1>7. NumbersInv'
  <2>1. \A i \in Runs : checkpoints'[i].created = 0 => checkpoints'[i].state = "absent"
    BY <1>4 DEF WorkflowInv, NumbersInv
  <2>2. \A i \in Runs : i > started' => checkpoints'[i] = Absent
    <3> SUFFICES ASSUME NEW i \in Runs, i > started PROVE checkpoints'[i] = Absent
      BY <1>2 DEF Goes
    <3>1. checkpoints[i] = Absent
      BY DEF WorkflowInv, NumbersInv
    <3> QED
      BY <1>4, <3>1 DEF Absent
  <2>3. First => /\ run.id = started /\ site < started
                 /\ Own'.created # 0 => \A i \in Runs : checkpoints'[i].created <= Own'.created
    BY <1>4, <1>6 DEF WorkflowInv, NumbersInv
  <2> QED
    BY <1>2, <1>3, <2>1, <2>2, <2>3 DEF NumbersInv, Goes, WorkflowInv, At
<1>8. run'.pc = "latest" /\ run'.db = run.db /\ run.db # None
  BY <1>2 DEF Goes, WorkflowInv, ReleaseInv, HasDatabase, At
<1>9. ReleaseInv'
  BY <1>3, <1>5, <1>6, <1>8
  DEF ReleaseInv, HasDatabase, BeforeUpload, AfterVerification, At, WorkflowInv
<1>10. RestoredInv'
  BY <1>8 DEF RestoredInv, BeforeUpload
<1> QED
  BY <1>3, <1>5, <1>6, <1>7, <1>9, <1>10 DEF StepInv

-----------------------------------------------------------------------------
(* Theorems *)

LEMMA InitInv == Init => WorkflowInv
<1> SUFFICES ASSUME Init PROVE WorkflowInv
  OBVIOUS
<1>1. Absent \in Release /\ NoRun \in Run
  BY DEF Absent, Release, NoRun, Run, Steps, Statuses, Databases
<1>2. TypeOK
  BY <1>1 DEF Init, TypeOK, Databases, Statuses
<1>3. At("idle") /\ ~First /\ run.pc = "idle"
  BY DEF Init, At, First, NoRun
<1>4. NumbersInv
  BY <1>3 DEF Init, NumbersInv, Absent
<1>5. ReleaseInv /\ RestoredInv
  BY <1>3 DEF ReleaseInv, RestoredInv, HasDatabase, At
<1> QED
  BY <1>2, <1>4, <1>5 DEF WorkflowInv

LEMMA NextInv ==
    ASSUME WorkflowInv, [Next]_vars
    PROVE  WorkflowInv'
<1>1. CASE Next
  <2>1. TypeOK'
    BY <1>1, StepTyped DEF WorkflowInv
  <2>2. StepInv'
    <3>1. CASE Begin
      BY <3>1, RunBegins
    <3>2. CASE RestoreCheckpoint \/ RestoreLatest \/ StartFresh \/ RestoreFails
      BY <3>2, RestoreKeeps
    <3>3. CASE MarkRunning \/ MarkRunningFails \/ CrawlReports \/ CrawlRaises \/ CrawlCancelled
      BY <3>3, CrawlSteps
    <3>4. CASE MarkFailed
      BY <3>4, MarkKeeps
    <3>5. CASE \/ PackageState \/ KeepCheckpoint \/ VerifyCheckpoint \/ SaveLatest
               \/ BreakLatest \/ PublishBadges \/ (StepFails /\ ~At("badges"))
      BY <3>5, TailSteps
    <3>6. CASE WriteCheckpoint \/ BreakCheckpoint \/ Retain
      BY <3>6, WriteKeeps, BreakKeeps, RetainKeeps
    <3>7. CASE QueueNext \/ Deploy \/ EndRun \/ LoseRunner \/ (StepFails /\ At("badges"))
      <4>1. run' = NoRun /\ checkpoints' = checkpoints /\ started' = started
        BY <3>7 DEF QueueNext, Deploy, EndRun, LoseRunner, StepFails
      <4>2. site' \in {site} \union (IF At("idle") THEN {} ELSE {run.id})
        BY <3>7 DEF QueueNext, Deploy, EndRun, LoseRunner, StepFails, IndexVersion, At
      <4> QED
        BY <4>1, <4>2, RunEnds
    <3> QED
      BY <1>1, <3>1, <3>2, <3>3, <3>4, <3>5, <3>6, <3>7 DEF Next
  <2> QED
    BY <2>1, <2>2 DEF StepInv, WorkflowInv
<1>2. CASE UNCHANGED vars
  <2>1. First' = First /\ Own' = Own /\ Recoverable' = Recoverable
    BY <1>2, SameCheckpoints DEF vars, First, At, Own
  <2>2. TypeOK'
    BY <1>2 DEF vars, WorkflowInv, TypeOK
  <2>3. NumbersInv'
    BY <1>2, <2>1 DEF vars, WorkflowInv, NumbersInv, At
  <2>4. ReleaseInv'
    BY <1>2, <2>1 DEF vars, WorkflowInv, ReleaseInv, At
  <2>5. RestoredInv'
    BY <1>2, <2>1 DEF vars, WorkflowInv, RestoredInv, Holds
  <2> QED
    BY <2>2, <2>3, <2>4, <2>5 DEF WorkflowInv
<1> QED
  BY <1>1, <1>2

\* The numbers of the runs, their releases and their databases belong together in every
\* state, however many runs, batches and retained checkpoints there are.
THEOREM WorkflowInvariance == Spec => []WorkflowInv
<1>1. Init => WorkflowInv
  BY InitInv
<1>2. WorkflowInv /\ [Next]_vars => WorkflowInv'
  BY NextInv
<1> QED
  BY <1>1, <1>2, PTL DEF Spec

\* Only these three change a release, and a run is in progress when they do.
LEMMA ReleasesChange ==
    ASSUME [Next]_vars, checkpoints' # checkpoints
    PROVE  (WriteCheckpoint \/ BreakCheckpoint \/ Retain) /\ ~At("idle")
BY DEF Next, vars, Begin, RestoreCheckpoint, RestoreLatest, StartFresh, RestoreFails,
       MarkRunning, MarkRunningFails, CrawlReports, CrawlRaises, CrawlCancelled, MarkFailed,
       PackageState, KeepCheckpoint, WriteCheckpoint, BreakCheckpoint, VerifyCheckpoint,
       Retain, SaveLatest, BreakLatest, PublishBadges, StepFails, QueueNext, Deploy, EndRun,
       LoseRunner, At

\* No batch is lost by uploads that fail in the middle, by retention or by a lost runner
\* (the checkpoint steps of crawl.yml), unless the run could not restore the newest
\* checkpoint or is run again.
THEOREM ProgressIsKept == Spec => ProgressKept
<1>1. WorkflowInv /\ WorkflowInv' /\ [Next]_vars
      => [run.fallback \/ run.rerun \/ Recoverable \subseteq Recoverable']_vars
  <2> SUFFICES ASSUME WorkflowInv, WorkflowInv', [Next]_vars, ~run.fallback, ~run.rerun
               PROVE  Recoverable \subseteq Recoverable'
    OBVIOUS
  <2>1. CASE checkpoints' = checkpoints
    BY <2>1, SameCheckpoints
  <2>2. CASE checkpoints' # checkpoints
    <3>1. First /\ (WriteCheckpoint \/ BreakCheckpoint \/ Retain)
      BY <2>2, ReleasesChange DEF First
    <3>2. CASE WriteCheckpoint
      <4>1. First' /\ Own'.state = "intact" /\ Own'.db = run.db
        BY <3>1, <3>2, WriteKeeps
      <4>2. Recoverable' = Own'.db
        BY <4>1, OwnIsRecoverableNext DEF WorkflowInv
      <4>3. run.pc = "checkpoint" /\ run.db # None
        BY <3>2 DEF WriteCheckpoint, At, WorkflowInv, ReleaseInv, HasDatabase
      <4>4. Recoverable \subseteq run.db
        BY <3>1, <4>3 DEF WorkflowInv, RestoredInv, BeforeUpload, Holds
      <4> QED
        BY <4>1, <4>2, <4>4
    <3>3. CASE BreakCheckpoint
      BY <3>1, <3>3, BreakKeeps
    <3>4. CASE Retain
      <4>1. First' /\ Own'.state = "intact" /\ Own' = Own
        BY <3>1, <3>4, RetainKeeps
      <4>2. Recoverable' = Own'.db
        BY <4>1, OwnIsRecoverableNext DEF WorkflowInv
      <4>3. Recoverable = Own.db
        BY <3>1, <4>1, OwnIsNewest DEF WorkflowInv
      <4> QED
        BY <4>1, <4>2, <4>3
    <3> QED
      BY <3>1, <3>2, <3>3, <3>4
  <2> QED
    BY <2>1, <2>2
<1>2. Spec => []WorkflowInv
  BY WorkflowInvariance
<1> QED
  BY <1>1, <1>2, PTL DEF Spec, ProgressKept

\* In a run that succeeds, the newest checkpoint holds what the run has done.
LEMMA SuccessIsSaved ==
    ASSUME WorkflowInv, At("follow-up"), Succeeds, ~run.rerun
    PROVE  Holds(run.db) \subseteq Recoverable
<1> SUFFICES ASSUME run.db # None PROVE Holds(run.db) \subseteq Recoverable
  BY DEF Holds
<1>1. First /\ Own.state = "intact"
  BY DEF First, At, Succeeds, WorkflowInv, ReleaseInv
<1>2. Own.db = run.db /\ run.db # None
  BY <1>1 DEF WorkflowInv, ReleaseInv
<1> QED
  BY <1>1, <1>2, OwnIsNewest DEF WorkflowInv, Holds

\* The site is replaced, and the next run queued, only after the database is in a checkpoint
\* that the next run can restore (the order of the steps of crawl.yml).
THEOREM CheckpointsFirst == Spec => CheckpointedFirst
<1>1. WorkflowInv /\ [Next]_vars
      => [(site' # site \/ (queued' /\ ~queued)) =>
             run.rerun \/ Holds(run.db) \subseteq Recoverable]_vars
  <2> SUFFICES ASSUME WorkflowInv, [Next]_vars, site' # site \/ (queued' /\ ~queued), ~run.rerun
               PROVE  Holds(run.db) \subseteq Recoverable
    OBVIOUS
  <2>1. Deploy \/ QueueNext
    <3>1. CASE site' # site
      BY <3>1
      DEF Next, vars, Begin, RestoreCheckpoint, RestoreLatest, StartFresh, RestoreFails,
          MarkRunning, MarkRunningFails, CrawlReports, CrawlRaises, CrawlCancelled,
          MarkFailed, PackageState, KeepCheckpoint, WriteCheckpoint, BreakCheckpoint,
          VerifyCheckpoint, Retain, SaveLatest, BreakLatest, PublishBadges, StepFails, EndRun,
          LoseRunner
    <3>2. CASE queued' = TRUE /\ queued # TRUE
      BY <3>2
      DEF Next, vars, Begin, RestoreCheckpoint, RestoreLatest, StartFresh, RestoreFails,
          MarkRunning, MarkRunningFails, CrawlReports, CrawlRaises, CrawlCancelled,
          MarkFailed, PackageState, KeepCheckpoint, WriteCheckpoint, BreakCheckpoint,
          VerifyCheckpoint, Retain, SaveLatest, BreakLatest, PublishBadges, StepFails, EndRun,
          LoseRunner, Deploy
    <3> QED
      BY <3>1, <3>2
  <2>2. At("follow-up") /\ Succeeds
    BY <2>1 DEF Deploy, QueueNext
  <2> QED
    BY <2>2, SuccessIsSaved
<1> QED
  BY <1>1, WorkflowInvariance, PTL DEF Spec, CheckpointedFirst

\* A site that replaces another one has a newer version (INDEX_VERSION of crawl.yml), unless
\* the run is run again.
THEOREM VersionsAreFresh == Spec => VersionsFresh
<1>1. WorkflowInv /\ [Next]_vars => [Deploy => run.rerun \/ site < site']_vars
  <2> SUFFICES ASSUME WorkflowInv, Deploy, ~run.rerun PROVE site < site'
    OBVIOUS
  <2>1. site' = run.id /\ At("follow-up")
    BY DEF Deploy, IndexVersion
  <2>2. First
    BY <2>1 DEF First, At
  <2> QED
    BY <2>1, <2>2 DEF WorkflowInv, NumbersInv
<1> QED
  BY <1>1, WorkflowInvariance, PTL DEF Spec, VersionsFresh
=============================================================================
