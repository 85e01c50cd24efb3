--------------------------- MODULE CrawlerProofs ----------------------------
(* Proofs about the full crawl, for every value of the constants of Crawler. *)
EXTENDS Crawler, IndexStateProofs, FiniteSetTheorems

-----------------------------------------------------------------------------
(* What the larger steps do *)

\* The record the catalog gives of a repository is an entry.
LEMMA EntryType ==
    ASSUME hub \in [Repos -> HubRepo], NEW r \in Repos
    PROVE  CatalogEntry(r) \in Entry
BY DEF CatalogEntry, Entry, HubRepo, Revs

\* The Hub changes no state of the crawler and makes no repository steady or present.
LEMMA HubSteps ==
    ASSUME hub \in [Repos -> HubRepo], HubNext
    PROVE  /\ hub' \in [Repos -> HubRepo]
           /\ UNCHANGED <<indexVars, pc, url, cursor, batch, group, answers, outcome,
                          staging, cleanStart>>
           /\ steady' \subseteq steady
           /\ present' \subseteq present
<1> PICK r \in Repos : HubPush(r) \/ HubGate(r) \/ HubVisibility(r)
  BY DEF HubNext
<1>1. CASE HubPush(r)
  <2>1. PICK rev \in Revisions, t \in Stamps : hub' = [hub EXCEPT ![r].rev = rev, ![r].stamp = t]
    BY <1>1 DEF HubPush
  <2>2. hub' \in [Repos -> HubRepo]
    BY <2>1 DEF HubRepo
  <2> QED
    BY <1>1, <2>2 DEF HubPush, processVars, locals
<1>2. CASE HubGate(r)
  BY <1>2 DEF HubGate, HubRepo, processVars, locals, historyVars
<1>3. CASE HubVisibility(r)
  BY <1>3 DEF HubVisibility, HubRepo, processVars, locals
<1> QED
  BY <1>1, <1>2, <1>3

\* An answer changes only the answers.
LEMMA AnswerSteps ==
    ASSUME TypeOK, AnswerNext
    PROVE  /\ UNCHANGED <<indexVars, hub, pc, url, cursor, batch, group, outcome, staging,
                          steady, present, cleanStart>>
           /\ pc = "inspect"
           /\ \E r \in group, result \in Result :
                 /\ answers' = [q \in DOMAIN answers \union {r} |->
                                   IF q = r THEN result ELSE answers[q]]
                 /\ result.kind = "ok" => /\ result.rev \in Revisions
                                          /\ batch[r].rev \in {NoRev, result.rev}
<1> PICK r \in group : AnswerSuccess(r) \/ AnswerUnavailable(r) \/ AnswerFailed(r)
  BY DEF AnswerNext
<1>1. r \in Repos /\ batch[r] \in Request /\ hub[r] \in HubRepo
  BY DEF TypeOK
<1>2. CASE AnswerSuccess(r)
  <2>1. /\ Success(r) \in Result
        /\ Success(r).rev \in Revisions
        /\ batch[r].rev \in {NoRev, Success(r).rev}
    BY <1>1 DEF Success, Result, Request, HubRepo, Revs
  <2> QED
    BY <1>2, <2>1 DEF AnswerSuccess, Answer, historyVars
<1>3. CASE AnswerUnavailable(r)
  <2>1. Unavailable \in Result /\ Unavailable.kind # "ok"
    BY DEF Unavailable, Result, Revs
  <2> QED
    BY <1>3, <2>1 DEF AnswerUnavailable, Answer, historyVars
<1>4. CASE AnswerFailed(r)
  <2>1. Failed \in Result /\ Failed.kind # "ok"
    BY DEF Failed, Result, Revs
  <2> QED
    BY <1>4, <2>1 DEF AnswerFailed, Answer, historyVars
<1> QED
  BY <1>2, <1>3, <1>4

\* A stored result changes one row, which was in flight and keeps what the catalog said,
\* and that repository's files.
LEMMA ConsumeSteps ==
    ASSUME TypeOK, FlightInv, InFlightIsPending, Consume
    PROVE  \E r \in group :
             /\ r \in DOMAIN answers
             /\ group' = group \ {r}
             /\ batch' = [q \in DOMAIN batch \ {r} |-> batch[q]]
             /\ answers' = [q \in DOMAIN answers \ {r} |-> answers[q]]
             /\ \/ /\ answers[r].kind = "ok"
                   /\ answers[r].rev \in Revisions
                   /\ answers[r].gated \in BOOLEAN
                   /\ ReplaceRepo(r, answers[r].rev, answers[r].gated)
                \/ /\ answers[r].kind = "unavailable"
                   /\ batch[r].rev \in Revs
                   /\ batch[r].gated \in BOOLEAN
                   /\ RecordRepositoryUnavailable(r, batch[r].rev, batch[r].gated)
                \/ answers[r].kind = "failed" /\ RecordInspectionFailure(r)
             /\ DOMAIN repos' = DOMAIN repos
             /\ r \in DOMAIN repos
             /\ \A q \in DOMAIN repos : q # r => repos'[q] = repos[q]
             /\ \A q \in Repos : q # r => files'[q] = files[q]
             /\ repos'[r].gen = repos[r].gen
             /\ repos'[r].catRev = repos[r].catRev
             /\ repos'[r].catGated = repos[r].catGated
             /\ ~repos'[r].eligible => files'[r] = {}
             /\ UNCHANGED metadataVars
<1>1. PICK r \in group :
         /\ r \in DOMAIN answers
         /\ StoreResult(r)
         /\ group' = group \ {r}
         /\ batch' = [q \in DOMAIN batch \ {r} |-> batch[q]]
         /\ answers' = [q \in DOMAIN answers \ {r} |-> answers[q]]
  BY DEF Consume
<1>2. /\ r \in Repos
      /\ r \in DOMAIN repos
      /\ repos[r] \in Row
      /\ repos[r].eligible
      /\ batch[r].rev \in Revs
      /\ batch[r].gated \in BOOLEAN
      /\ answers[r] \in Result
      /\ files \in [Repos -> SUBSET (Revisions \X File)]
  BY <1>1 DEF TypeOK, StateTypeOK, InFlightIsPending, Pending, PendingRow, Request
<1>3. CASE answers[r].kind = "ok" /\ ReplaceRepo(r, answers[r].rev, answers[r].gated)
  <2>1. answers[r].rev \in Revisions /\ answers[r].gated \in BOOLEAN
    BY <1>1, <1>2, <1>3 DEF FlightInv, Result
  <2>2. /\ DOMAIN repos' = DOMAIN repos
        /\ \A q \in DOMAIN repos : q # r => repos'[q] = repos[q]
        /\ repos'[r] = [repos[r] EXCEPT !.rev = answers[r].rev, !.gated = answers[r].gated,
                                        !.status = "indexed"]
    BY <1>2, <1>3 DEF ReplaceRepo, Prior
  <2>3. \A q \in Repos : q # r => files'[q] = files[q]
    BY <1>2, <1>3 DEF ReplaceRepo, WriteFiles, ReplaceFiles
  <2>4. /\ repos'[r].gen = repos[r].gen
        /\ repos'[r].catRev = repos[r].catRev
        /\ repos'[r].catGated = repos[r].catGated
        /\ repos'[r].eligible
    BY <1>2, <2>2 DEF Row
  <2> QED
    BY <1>1, <1>2, <1>3, <2>1, <2>2, <2>3, <2>4 DEF ReplaceRepo
<1>4. CASE /\ answers[r].kind = "unavailable"
           /\ RecordRepositoryUnavailable(r, batch[r].rev, batch[r].gated)
  <2>1. /\ DOMAIN repos' = DOMAIN repos
        /\ \A q \in DOMAIN repos : q # r => repos'[q] = repos[q]
        /\ repos'[r] = [repos[r] EXCEPT !.rev = batch[r].rev, !.gated = batch[r].gated,
                                        !.eligible = FALSE, !.status = "unavailable"]
    BY <1>2, <1>4 DEF RecordRepositoryUnavailable
  <2>2. /\ \A q \in Repos : q # r => files'[q] = files[q]
        /\ files'[r] = {}
    BY <1>2, <1>4 DEF RecordRepositoryUnavailable, WriteFiles
  <2>3. /\ repos'[r].gen = repos[r].gen
        /\ repos'[r].catRev = repos[r].catRev
        /\ repos'[r].catGated = repos[r].catGated
    BY <1>2, <2>1 DEF Row
  <2> QED
    BY <1>1, <1>2, <1>4, <2>1, <2>2, <2>3 DEF RecordRepositoryUnavailable
<1>5. CASE answers[r].kind = "failed" /\ RecordInspectionFailure(r)
  <2>1. /\ DOMAIN repos' = DOMAIN repos
        /\ \A q \in DOMAIN repos : q # r => repos'[q] = repos[q]
        /\ repos'[r] = [repos[r] EXCEPT !.status = "error"]
        /\ files' = files
    BY <1>2, <1>5 DEF RecordInspectionFailure
  <2>2. /\ repos'[r].gen = repos[r].gen
        /\ repos'[r].catRev = repos[r].catRev
        /\ repos'[r].catGated = repos[r].catGated
        /\ repos'[r].eligible
    BY <1>2, <2>1 DEF Row
  <2> QED
    BY <1>1, <1>2, <1>5, <2>1, <2>2 DEF RecordInspectionFailure
<1> QED
  BY <1>1, <1>3, <1>4, <1>5 DEF StoreResult

\* The generations of the metadata and of the rows are numbers.
LEMMA GenerationsAreNumbers ==
    ASSUME StateTypeOK
    PROVE  /\ \A r \in DOMAIN repos : repos[r].gen \in Nat /\ r \in Repos
           /\ activeGeneration \in Nat /\ completedGeneration \in Nat
<1>1. \A g \in Generations \union {0} : g \in Nat
  BY BoundsAssumption
<1>2. \A row \in Row : row.gen \in Generations \union {0}
  BY DEF Row
<1> QED
  BY <1>1, <1>2 DEF StateTypeOK

\* What a page leaves out was modified before everything on it.
LEMMA PageOrder ==
    ASSUME hub \in [Repos -> HubRepo], PageSize \in Nat,
           NEW r \in Remaining \ Page, NEW p \in Page
    PROVE  hub[r].stamp < hub[p].stamp
<1> DEFINE newer(q) == {x \in Remaining : hub[x].stamp > hub[q].stamp}
<1>1. /\ r \in Remaining /\ ~(Cardinality(newer(r)) < PageSize)
      /\ p \in Remaining /\ Cardinality(newer(p)) < PageSize
  BY DEF Page
<1>2. Remaining \subseteq Repos /\ \A x \in Remaining : hub[x].stamp \in Nat
  BY BoundsAssumption DEF Remaining, Listed, HubRepo
<1>3. SUFFICES ASSUME hub[r].stamp >= hub[p].stamp PROVE FALSE
  BY <1>1, <1>2
<1>4. newer(r) \subseteq newer(p) /\ newer(p) \subseteq Repos
  BY <1>1, <1>2, <1>3
<1>5. IsFiniteSet(newer(p))
  BY <1>4, ReposAssumption, FS_Subset
<1>6. /\ IsFiniteSet(newer(r))
      /\ Cardinality(newer(r)) <= Cardinality(newer(p))
  BY <1>4, <1>5, FS_Subset
<1>7. Cardinality(newer(r)) \in Nat /\ Cardinality(newer(p)) \in Nat
  BY <1>5, <1>6, FS_CardinalityType
<1> HIDE DEF newer
<1> QED
  BY <1>1, <1>6, <1>7

\* A page of the catalog records its repositories in the open generation and leaves the
\* other rows alone; what it leaves out lies behind the continuation it gives.
LEMMA FetchSteps ==
    ASSUME TypeOK, PhaseInv, FetchPage
    PROVE  /\ activeGeneration \in Generations
           /\ Page \in SUBSET Repos
           /\ [r \in Page |-> CatalogEntry(r)] \in [Page -> Entry]
           /\ DOMAIN repos' = DOMAIN repos \union Page
           /\ \A r \in Page :
                 /\ repos'[r].gen = activeGeneration
                 /\ ~repos'[r].eligible => files'[r] = {}
           /\ \A r \in DOMAIN repos \ Page : repos'[r] = repos[r]
           /\ \A r \in Repos \ Page : files'[r] = files[r]
           /\ UNCHANGED metadataVars
           /\ \/ /\ pc' = "save"
                 /\ url' \in Stamps
                 /\ \A r \in Remaining \ Page : hub[r].stamp < url'
              \/ pc' = "finish" /\ Page = Remaining /\ url' = url
<1> DEFINE seen == [r \in Page |-> CatalogEntry(r)]
<1>1. activeGeneration \in Generations
  BY DEF FetchPage, TypeOK, StateTypeOK, PhaseInv
<1>2. Page \in SUBSET Repos
  BY DEF Page, Remaining, Listed
<1>3. hub \in [Repos -> HubRepo]
  BY DEF TypeOK
<1>4. seen \in [Page -> Entry]
  BY <1>2, <1>3, EntryType
<1>5. RecordCatalogRepositories(seen, activeGeneration)
  BY DEF FetchPage
<1>6. /\ DOMAIN repos' = DOMAIN repos \union Page
      /\ \A r \in Page :
            /\ repos'[r].gen = activeGeneration
            /\ ~repos'[r].eligible => files'[r] = {}
      /\ \A r \in DOMAIN repos \ Page : repos'[r] = repos[r]
      /\ \A r \in Repos \ Page : files'[r] = files[r]
      /\ UNCHANGED metadataVars
  <2>1. CASE DOMAIN seen = {} /\ UNCHANGED indexVars
    BY <2>1 DEF indexVars, metadataVars
  <2>2. CASE DOMAIN seen # {} /\ ~(DOMAIN seen = {} /\ UNCHANGED indexVars)
    <3>1. /\ repos' = [r \in DOMAIN repos \union Page |->
                          IF r \in Page THEN ObservedRow(r, seen[r], activeGeneration)
                          ELSE repos[r]]
          /\ files' = FilesAfterCatalog(seen)
          /\ UNCHANGED metadataVars
      BY <1>5, <2>2 DEF RecordCatalogRepositories, WriteFiles
    <3>2. \A r \in Page :
             /\ ObservedRow(r, seen[r], activeGeneration).gen = activeGeneration
             /\ ObservedRow(r, seen[r], activeGeneration).eligible = seen[r].eligible
      BY <1>1, <1>2, <1>4, ObservedRowType DEF TypeOK
    <3>3. /\ \A r \in Page : ~seen[r].eligible => files'[r] = {}
          /\ \A r \in Repos \ Page : files'[r] = files[r]
      BY <1>2, <3>1 DEF FilesAfterCatalog
    <3> HIDE DEF seen
    <3> QED
      BY <3>1, <3>2, <3>3
  <2> QED
    BY <1>5, <2>1, <2>2 DEF RecordCatalogRepositories
<1>7. \/ /\ pc' = "save"
         /\ url' \in Stamps
         /\ \A r \in Remaining \ Page : hub[r].stamp < url'
      \/ pc' = "finish" /\ Page = Remaining /\ url' = url
  <2>1. CASE Page = Remaining /\ pc' = "finish" /\ UNCHANGED url
    BY <2>1
  <2>2. ASSUME NEW t \in Stamps, LastStampOf(Page, t), url' = t, pc' = "save"
        PROVE  \A r \in Remaining \ Page : hub[r].stamp < url'
    <3>1. PICK p \in Page : t = hub[p].stamp
      BY <2>2 DEF LastStampOf
    <3> QED
      BY <1>3, <2>2, <3>1, PageOrder, SizesAssumption
  <2> QED
    BY <2>1, <2>2 DEF FetchPage
<1> QED
  BY <1>1, <1>2, <1>4, <1>6, <1>7

-----------------------------------------------------------------------------
(* The crawler only ever calls the methods of IndexState *)

\* Every step of the crawl is one transaction of the durable state, called as its own
\* checks allow, or leaves the durable state alone.
LEMMA StepIsStateStep ==
    ASSUME TypeOK, PhaseInv, FlightInv, InFlightIsPending, [Next]_vars
    PROVE  [StateNext]_indexVars
<1> USE DEF StateNext, GenerationNext
<1>1. CASE LifeNext
  BY <1>1 DEF LifeNext, ResumeGeneration, StartGeneration, ResetFlag, Crash, ClearWorkspace
<1>2. CASE CatalogNext
  <2>1. CASE FetchPage
    BY <2>1, FetchSteps DEF FetchPage, PhaseInv
  <2>2. CASE SaveContinuation
    BY <2>2 DEF SaveContinuation, TypeOK, PhaseInv
  <2>3. CASE LeaveCatalog \/ Reconcile \/ FlagEnumerated \/ DropContinuation
    BY <2>3 DEF LeaveCatalog, Reconcile, FlagEnumerated, DropContinuation
  <2> QED
    BY <1>2, <2>1, <2>2, <2>3 DEF CatalogNext
<1>3. CASE InspectNext
  <2>1. CASE LoadBatch \/ InspectionDeadline \/ SubmitGroup
    BY <2>1 DEF LoadBatch, InspectionDeadline, SubmitGroup
  <2>2. CASE AnswerNext
    BY <2>2, AnswerSteps
  <2>3. CASE Consume
    <3>1. PICK r \in group :
             \/ /\ answers[r].rev \in Revisions
                /\ answers[r].gated \in BOOLEAN
                /\ ReplaceRepo(r, answers[r].rev, answers[r].gated)
             \/ /\ batch[r].rev \in Revs
                /\ batch[r].gated \in BOOLEAN
                /\ RecordRepositoryUnavailable(r, batch[r].rev, batch[r].gated)
             \/ RecordInspectionFailure(r)
      BY <2>3, ConsumeSteps
    <3>2. r \in Repos
      BY DEF TypeOK
    <3>3. InspectionNext
      BY <3>1, <3>2 DEF InspectionNext
    <3> QED
      BY <3>3
  <2> QED
    BY <1>3, <2>1, <2>2, <2>3 DEF InspectNext
<1>4. CASE PublishNext
  BY <1>4 DEF PublishNext, Tally, RefuseStaging, CreateStaging, FillStaging,
              CompleteGeneration, Retire
<1>5. CASE HubNext
  BY <1>5, HubSteps DEF TypeOK
<1>6. CASE Exhausted \/ UNCHANGED vars
  BY <1>6 DEF Exhausted, vars
<1> QED
  BY <1>1, <1>2, <1>3, <1>4, <1>5, <1>6 DEF Next
-----------------------------------------------------------------------------
(* The parts of the invariant *)

\* Locals are reset when an invocation ends.
LEMMA StopType ==
    ASSUME NEW report, Stop(report)
    PROVE  /\ pc' = "down" /\ outcome' = report /\ url' = 0 /\ cursor' = 0
           /\ DOMAIN batch' = {} /\ group' = {} /\ DOMAIN answers' = {}
BY DEF Stop, NoFunction

\* Every step keeps the variables well formed.
LEMMA TypePreserved ==
    ASSUME CrawlerInv, StateInv', [Next]_vars
    PROVE  TypeOK'
<1> USE DEF historyVars, locals, processVars
<1>t. TypeOK /\ StateTypeOK /\ StateTypeOK'
  BY DEF CrawlerInv, StateInv
<1>1. CASE ResumeGeneration \/ ResetFlag \/ ClearWorkspace
  BY <1>t, <1>1 DEF ResumeGeneration, ResetFlag, ClearWorkspace, NoSite, TypeOK, StateTypeOK
<1>2. CASE StartGeneration
  BY <1>t, <1>2 DEF StartGeneration, Listed, TypeOK
<1>3. CASE Crash \/ RefuseStaging
  BY <1>t, <1>3, StopType DEF Crash, RefuseStaging, TypeOK
<1>4. CASE LeaveCatalog \/ SaveContinuation \/ Reconcile \/ FlagEnumerated \/ DropContinuation
  BY <1>t, <1>4 DEF LeaveCatalog, SaveContinuation, Reconcile, FlagEnumerated,
                    DropContinuation, TypeOK
<1>5. CASE FetchPage
  <2>1. url' \in Stamps \union {0} /\ pc' \in {"save", "finish"}
    BY <1>t, <1>5, FetchSteps DEF CrawlerInv, TypeOK
  <2> QED
    BY <1>t, <1>5, <2>1 DEF FetchPage, TypeOK
<1>6. CASE LoadBatch
  <2> DEFINE found == PendingAfter(cursor, PendingPage)
  <2>1. found \subseteq DOMAIN repos /\ DOMAIN repos \subseteq Repos
    BY <1>t DEF PendingAfter, Pending, StateTypeOK
  <2>2. found # {} => cursor' \in Nat
    BY <1>6, <2>1, ReposAssumption DEF LoadBatch
  <2>3. \A r \in found : [rev |-> repos[r].catRev, gated |-> repos[r].catGated] \in Request
    BY <1>t, <2>1 DEF StateTypeOK, Row, Request
  <2>4. /\ UNCHANGED <<indexVars, hub, url, group, answers, outcome, staging, historyVars>>
        /\ group = {}
        /\ \/ pc' = "tally" /\ batch' = batch /\ cursor' = cursor
           \/ /\ pc' = pc
              /\ cursor' \in Nat
              /\ batch' = [r \in found |-> [rev |-> repos[r].catRev,
                                            gated |-> repos[r].catGated]]
    BY <1>6, <2>2 DEF LoadBatch, Idle
  <2>5. /\ DOMAIN batch' \subseteq Repos
        /\ \A r \in DOMAIN batch' : batch'[r] \in Request
    BY <1>t, <2>1, <2>3, <2>4 DEF TypeOK
  <2> HIDE DEF found
  <2> QED
    BY <1>t, <2>4, <2>5 DEF TypeOK
<1>7. CASE InspectionDeadline
  BY <1>t, <1>7 DEF InspectionDeadline, Idle, NoFunction, TypeOK
<1>8. CASE SubmitGroup
  BY <1>t, <1>8 DEF SubmitGroup, Idle, TypeOK
<1>9. CASE AnswerNext
  <2>1. PICK r \in group, result \in Result :
           answers' = [q \in DOMAIN answers \union {r} |-> IF q = r THEN result ELSE answers[q]]
    BY <1>t, <1>9, AnswerSteps
  <2>2. /\ DOMAIN answers' \subseteq group
        /\ \A q \in DOMAIN answers' : answers'[q] \in Result
    BY <1>t, <2>1 DEF TypeOK
  <2> QED
    BY <1>t, <1>9, <2>2, AnswerSteps DEF TypeOK
<1>10. CASE Consume
  <2>1. PICK r \in group :
           /\ group' = group \ {r}
           /\ batch' = [q \in DOMAIN batch \ {r} |-> batch[q]]
           /\ answers' = [q \in DOMAIN answers \ {r} |-> answers[q]]
    BY <1>10 DEF Consume
  <2>2. UNCHANGED <<hub, pc, url, cursor, outcome, staging, historyVars>>
    BY <1>10 DEF Consume
  <2> QED
    BY <1>t, <2>1, <2>2 DEF TypeOK
<1>11. CASE Tally
  BY <1>t, <1>11, StopType DEF Tally, TypeOK
<1>12. CASE CreateStaging \/ CompleteGeneration
  BY <1>t, <1>12 DEF CreateStaging, CompleteGeneration, TypeOK
<1>13. CASE FillStaging \/ Retire
  BY <1>t, <1>13, StopType DEF FillStaging, Retire, TypeOK
<1>14. CASE HubNext
  <2>1. hub \in [Repos -> HubRepo]
    BY <1>t DEF TypeOK
  <2> QED
    BY <1>t, <1>14, <2>1, HubSteps DEF TypeOK
<1>15. CASE Exhausted \/ UNCHANGED vars
  BY <1>t, <1>15 DEF Exhausted, vars, TypeOK
<1> QED
  BY <1>1, <1>2, <1>3, <1>4, <1>5, <1>6, <1>7, <1>8, <1>9, <1>10, <1>11, <1>12, <1>13,
     <1>14, <1>15 DEF Next, LifeNext, CatalogNext, InspectNext, PublishNext

\* Where the process stands keeps deciding what the metadata can say.
LEMMA PhasePreserved ==
    ASSUME CrawlerInv, StateInv', [Next]_vars
    PROVE  PhaseInv'
<1> USE DEF historyVars, locals, processVars, metadataVars, PhaseInv
<1>t. TypeOK /\ StateTypeOK /\ PhaseInv
  BY DEF CrawlerInv, StateInv
<1>1. CASE ResumeGeneration \/ ClearWorkspace
  BY <1>t, <1>1 DEF ResumeGeneration, ClearWorkspace, indexVars
<1>2. CASE StartGeneration \/ ResetFlag
  <2>1. completedGeneration + 1 # 0
    BY <1>t, BoundsAssumption DEF StateTypeOK
  <2> QED
    BY <1>t, <1>2, <2>1 DEF StartGeneration, ResetFlag, OpenGeneration, ResetEnumerated
<1>3. CASE Crash \/ RefuseStaging
  BY <1>t, <1>3, StopType DEF Crash, RefuseStaging, indexVars
<1>4. CASE LeaveCatalog \/ SaveContinuation \/ Reconcile \/ FlagEnumerated \/ DropContinuation
  BY <1>t, <1>4 DEF LeaveCatalog, SaveContinuation, Reconcile, FlagEnumerated,
                    DropContinuation, SetContinuation, ReconcileRemovals, MarkEnumerated,
                    ClearContinuation, indexVars, catalogVars
<1>5. CASE FetchPage
  BY <1>t, <1>5, FetchSteps, BoundsAssumption DEF FetchPage
<1>6. CASE LoadBatch \/ InspectionDeadline \/ SubmitGroup
  BY <1>t, <1>6 DEF LoadBatch, InspectionDeadline, SubmitGroup, Idle, indexVars
<1>7. CASE AnswerNext
  BY <1>t, <1>7, AnswerSteps DEF indexVars
<1>8. CASE Consume
  BY <1>t, <1>8, ConsumeSteps DEF Consume, CrawlerInv
<1>9. CASE Tally
  BY <1>t, <1>9, StopType DEF Tally, CanPublish, indexVars
<1>10. CASE CreateStaging \/ CompleteGeneration
  BY <1>t, <1>10 DEF CreateStaging, CompleteGeneration, MarkCompleted, catalogVars, indexVars
<1>11. CASE FillStaging \/ Retire
  BY <1>t, <1>11, StopType DEF FillStaging, Retire, RetireGeneration, catalogVars, indexVars
<1>12. CASE HubNext
  BY <1>t, <1>12, HubSteps DEF TypeOK, indexVars
<1>13. CASE Exhausted \/ UNCHANGED vars
  BY <1>t, <1>13 DEF Exhausted, vars, indexVars
<1> QED
  BY <1>1, <1>2, <1>3, <1>4, <1>5, <1>6, <1>7, <1>8, <1>9, <1>10, <1>11, <1>12, <1>13
     DEF Next, LifeNext, CatalogNext, InspectNext, PublishNext

\* What is in flight, and that it is still what the rows ask for.
LEMMA FlightPreserved ==
    ASSUME CrawlerInv, StateInv', [Next]_vars
    PROVE  FlightInv' /\ InFlightIsPending'
<1> USE DEF historyVars, locals, processVars, metadataVars, FlightInv, InFlightIsPending
<1>t. TypeOK /\ StateTypeOK /\ PhaseInv /\ FlightInv /\ InFlightIsPending
  BY DEF CrawlerInv, StateInv
<1>e. DOMAIN answers \subseteq DOMAIN batch
  BY <1>t DEF TypeOK
<1>1. ASSUME DOMAIN batch' = {}, DOMAIN answers' = {}
      PROVE  FlightInv' /\ InFlightIsPending'
  BY <1>1
<1>2. ASSUME DOMAIN batch = {}, UNCHANGED <<batch, answers>>
      PROVE  FlightInv' /\ InFlightIsPending'
  BY <1>2, <1>e, <1>1
<1>3. ASSUME UNCHANGED <<indexVars, pc, cursor, batch, answers>>
      PROVE  FlightInv' /\ InFlightIsPending'
  BY <1>t, <1>3 DEF indexVars, Pending
<1>4. CASE LifeNext
  <2>1. CASE Crash
    BY <2>1, <1>1, StopType DEF Crash
  <2>2. CASE ResumeGeneration \/ StartGeneration \/ ResetFlag \/ ClearWorkspace
    BY <1>t, <2>2, <1>2
       DEF ResumeGeneration, StartGeneration, ResetFlag, ClearWorkspace
  <2> QED
    BY <1>4, <2>1, <2>2 DEF LifeNext
<1>5. CASE CatalogNext
  BY <1>t, <1>5, <1>2 DEF CatalogNext, LeaveCatalog, FetchPage, SaveContinuation, Reconcile,
                          FlagEnumerated, DropContinuation
<1>6. CASE LoadBatch
  <2> DEFINE found == PendingAfter(cursor, PendingPage)
  <2>1. /\ group = {}
        /\ DOMAIN batch = {}
        /\ DOMAIN answers = {}
        /\ UNCHANGED <<indexVars, answers>>
        /\ pc = "inspect"
    BY <1>t, <1>6 DEF LoadBatch, Idle, TypeOK
  <2>2. CASE found = {} /\ pc' = "tally" /\ UNCHANGED <<batch, cursor>>
    BY <2>1, <2>2, <1>2
  <2>3. CASE /\ found # {} /\ UNCHANGED pc
             /\ batch' = [r \in found |-> [rev |-> repos[r].catRev,
                                           gated |-> repos[r].catGated]]
             /\ \E last \in found : cursor' = last /\ \A r \in found : r <= last
    <3>1. found \subseteq Pending
      BY DEF PendingAfter
    <3>2. Pending' = Pending /\ repos' = repos
      BY <2>1 DEF indexVars, Pending
    <3> HIDE DEF found
    <3> QED
      BY <2>1, <2>3, <3>1, <3>2
  <2> QED
    BY <1>6, <2>2, <2>3 DEF LoadBatch
<1>7. CASE InspectionDeadline
  BY <1>t, <1>7, <1>1 DEF InspectionDeadline, Idle, NoFunction, TypeOK
<1>8. CASE SubmitGroup
  BY <1>8, <1>3 DEF SubmitGroup
<1>9. CASE AnswerNext
  <2>1. PICK r \in group, result \in Result :
           /\ answers' = [q \in DOMAIN answers \union {r} |->
                             IF q = r THEN result ELSE answers[q]]
           /\ result.kind = "ok" => /\ result.rev \in Revisions
                                    /\ batch[r].rev \in {NoRev, result.rev}
    BY <1>t, <1>9, AnswerSteps
  <2>2. UNCHANGED <<indexVars, pc, cursor, batch>>
    BY <1>t, <1>9, AnswerSteps
  <2>3. FlightInv'
    BY <1>t, <2>1, <2>2
  <2>4. InFlightIsPending'
    BY <1>t, <2>2 DEF indexVars, Pending
  <2> QED
    BY <2>3, <2>4
<1>10. CASE Consume
  <2>1. PICK r \in group :
           /\ batch' = [q \in DOMAIN batch \ {r} |-> batch[q]]
           /\ answers' = [q \in DOMAIN answers \ {r} |-> answers[q]]
           /\ DOMAIN repos' = DOMAIN repos
           /\ \A q \in DOMAIN repos : q # r => repos'[q] = repos[q]
    BY <1>t, <1>10, ConsumeSteps
  <2>2. UNCHANGED <<pc, cursor>>
    BY <1>10 DEF Consume
  <2>3. FlightInv'
    BY <1>t, <1>e, <2>1, <2>2
  <2>4. InFlightIsPending'
    BY <1>t, <2>1, <2>2 DEF Pending
  <2> QED
    BY <2>3, <2>4
<1>11. CASE PublishNext
  <2>1. CASE RefuseStaging \/ Retire
    BY <2>1, <1>1, StopType DEF RefuseStaging, Retire
  <2>2. CASE Tally \/ FillStaging
    BY <1>t, <2>2, <1>1, <1>2, StopType DEF Tally, FillStaging
  <2>3. CASE CreateStaging \/ CompleteGeneration
    BY <1>t, <2>3, <1>2 DEF CreateStaging, CompleteGeneration
  <2> QED
    BY <1>11, <2>1, <2>2, <2>3 DEF PublishNext
<1>12. CASE HubNext
  BY <1>t, <1>12, <1>3, HubSteps DEF TypeOK
<1>13. CASE Exhausted \/ UNCHANGED vars
  BY <1>13, <1>3 DEF Exhausted, vars
<1> QED
  BY <1>4, <1>5, <1>6, <1>7, <1>8, <1>9, <1>10, <1>11, <1>12, <1>13
     DEF Next, InspectNext

\* Generations of rows, and the pending set where the site is compiled.
LEMMA RowsPreserved ==
    ASSUME CrawlerInv, StateInv', [Next]_vars
    PROVE  RowsInv'
<1> USE DEF historyVars, locals, processVars, metadataVars, RowsInv
<1>t. TypeOK /\ StateTypeOK /\ PhaseInv /\ FlightInv /\ InFlightIsPending /\ RowsInv
      /\ FreshGeneration
  BY DEF CrawlerInv, StateInv
<1>n. /\ \A r \in DOMAIN repos : repos[r].gen \in Nat /\ r \in Repos
      /\ completedGeneration \in Nat
  BY <1>t, GenerationsAreNumbers
<1>1. ASSUME UNCHANGED <<repos, files, activeGeneration, completedGeneration, enumerated>>,
             pc' \in {"compile", "write", "complete", "retire"} =>
                pc \in {"compile", "write", "complete", "retire"} \/ Pending = {},
             pc' = "flag" => pc = "flag"
      PROVE  RowsInv'
  BY <1>t, <1>1 DEF Pending
<1>2. CASE ResumeGeneration \/ Crash \/ ClearWorkspace
  BY <1>2, <1>1, StopType DEF ResumeGeneration, Crash, ClearWorkspace, indexVars
<1>3. CASE StartGeneration
  <2>1. /\ UNCHANGED <<repos, files, completedGeneration, enumerated>>
        /\ activeGeneration = 0 /\ activeGeneration' = completedGeneration + 1
        /\ pc' = "reset"
    BY <1>3 DEF StartGeneration, OpenGeneration, catalogVars
  <2>2. \A r \in DOMAIN repos : repos[r].gen <= completedGeneration
    BY <1>t, <2>1 DEF FreshGeneration
  <2>3. activeGeneration' # completedGeneration'
    BY <1>n, <2>1
  <2> QED
    BY <1>t, <2>1, <2>2, <2>3 DEF PhaseInv
<1>4. CASE ResetFlag
  BY <1>t, <1>4 DEF ResetFlag, ResetEnumerated, catalogVars
<1>5. CASE LeaveCatalog \/ SaveContinuation \/ DropContinuation
  BY <1>5, <1>1 DEF LeaveCatalog, SaveContinuation, DropContinuation, SetContinuation,
                    ClearContinuation, indexVars, catalogVars
<1>6. CASE FetchPage
  <2>1. /\ activeGeneration \in Nat
        /\ DOMAIN repos' = DOMAIN repos \union Page
        /\ \A r \in Page :
              /\ repos'[r].gen = activeGeneration
              /\ ~repos'[r].eligible => files'[r] = {}
        /\ \A r \in DOMAIN repos \ Page : repos'[r] = repos[r]
        /\ \A r \in Repos \ Page : files'[r] = files[r]
        /\ UNCHANGED metadataVars
        /\ pc' \in {"save", "finish"}
    BY <1>t, <1>6, FetchSteps, BoundsAssumption
  <2>2. enumerated # "true"
    BY <1>t, <1>6 DEF FetchPage, PhaseInv
  <2> QED
    BY <1>t, <1>n, <2>1, <2>2
<1>7. CASE Reconcile
  <2>1. /\ DOMAIN repos' = ObservedIn(activeGeneration)
        /\ \A r \in DOMAIN repos' : r \in DOMAIN repos /\ repos'[r] = repos[r]
                                    /\ repos[r].gen = activeGeneration
        /\ UNCHANGED metadataVars
        /\ pc' = "flag" /\ enumerated # "true"
    BY <1>t, <1>7 DEF PhaseInv, Reconcile, ReconcileRemovals, ObservedIn
  <2>2. \A r \in DOMAIN repos' : files'[r] = files[r]
    BY <1>n, <1>7, <2>1 DEF Reconcile, ReconcileRemovals, WriteFiles
  <2> QED
    BY <1>t, <2>1, <2>2
<1>8. CASE FlagEnumerated
  <2>1. enumerated # "true" /\ UNCHANGED <<repos, files, activeGeneration, completedGeneration>>
        /\ pc = "flag" /\ pc' = "clear"
    BY <1>t, <1>8 DEF FlagEnumerated, MarkEnumerated, catalogVars, PhaseInv
  <2> QED
    BY <1>t, <2>1
<1>9. CASE LoadBatch \/ InspectionDeadline \/ SubmitGroup
  BY <1>9, <1>1 DEF LoadBatch, InspectionDeadline, SubmitGroup, Idle, indexVars
<1>10. CASE AnswerNext
  BY <1>t, <1>10, <1>1, AnswerSteps DEF indexVars
<1>11. CASE Consume
  <2>1. PICK r \in group :
           /\ DOMAIN repos' = DOMAIN repos
           /\ \A q \in DOMAIN repos : q # r => repos'[q] = repos[q]
           /\ \A q \in Repos : q # r => files'[q] = files[q]
           /\ repos'[r].gen = repos[r].gen
           /\ ~repos'[r].eligible => files'[r] = {}
           /\ UNCHANGED metadataVars
    BY <1>t, <1>11, ConsumeSteps
  <2>2. pc = "inspect" /\ pc' = "inspect"
    BY <1>11 DEF Consume
  <2>3. Pending # {}
    BY <1>t, <2>1 DEF TypeOK, InFlightIsPending
  <2> QED
    BY <1>t, <1>n, <2>1, <2>2, <2>3
<1>12. CASE Tally
  BY <1>12, <1>1, StopType DEF Tally, CanPublish, indexVars
<1>13. CASE RefuseStaging \/ CreateStaging \/ FillStaging
  BY <1>13, <1>1, StopType DEF RefuseStaging, CreateStaging, FillStaging, indexVars
<1>14. CASE CompleteGeneration
  <2>1. /\ UNCHANGED <<repos, files, activeGeneration, enumerated>>
        /\ Pending = {}
        /\ pc' = "retire"
        /\ enumerated = "true"
    BY <1>14 DEF CompleteGeneration, MarkCompleted, catalogVars
  <2>2. Pending' = {}
    BY <2>1 DEF Pending
  <2>3. \A r \in DOMAIN repos : repos[r].gen = activeGeneration
    BY <1>t, <2>1
  <2> QED
    BY <1>t, <1>n, <2>1, <2>2, <2>3
<1>15. CASE Retire
  BY <1>t, <1>15, StopType DEF Retire, RetireGeneration, catalogVars, PhaseInv
<1>16. CASE HubNext
  BY <1>t, <1>16, <1>1, HubSteps DEF TypeOK, indexVars
<1>17. CASE Exhausted \/ UNCHANGED vars
  BY <1>17, <1>1 DEF Exhausted, vars, indexVars
<1> QED
  BY <1>2, <1>3, <1>4, <1>5, <1>6, <1>7, <1>8, <1>9, <1>10, <1>11, <1>12, <1>13, <1>14,
     <1>15, <1>16, <1>17 DEF Next, LifeNext, CatalogNext, InspectNext, PublishNext

\* Generation numbers only move on.
LEMMA FreshPreserved ==
    ASSUME CrawlerInv, StateInv', [Next]_vars
    PROVE  FreshGeneration'
<1> USE DEF historyVars, locals, processVars, metadataVars, FreshGeneration
<1>t. TypeOK /\ StateTypeOK /\ PhaseInv /\ RowsInv /\ FreshGeneration
  BY DEF CrawlerInv, StateInv
<1>n. /\ \A r \in DOMAIN repos : repos[r].gen \in Nat /\ r \in Repos
      /\ activeGeneration \in Nat /\ completedGeneration \in Nat
  BY <1>t, GenerationsAreNumbers
<1>1. ASSUME UNCHANGED <<repos, activeGeneration, completedGeneration>>,
             pc' = "reset" => pc = "reset"
      PROVE  FreshGeneration'
  BY <1>t, <1>1
<1>2. ASSUME UNCHANGED <<activeGeneration, completedGeneration>>,
             pc # "down", pc' # "reset"
      PROVE  FreshGeneration'
  BY <1>t, <1>2 DEF PhaseInv
<1>3. CASE ResumeGeneration \/ Crash \/ ClearWorkspace
  BY <1>3, <1>1, StopType DEF ResumeGeneration, Crash, ClearWorkspace, indexVars
<1>4. CASE StartGeneration
  BY <1>t, <1>n, <1>4 DEF StartGeneration, OpenGeneration, catalogVars
<1>5. CASE ResetFlag \/ CatalogNext
  <2>1. CASE ResetFlag
    BY <2>1, <1>2 DEF ResetFlag, ResetEnumerated
  <2>2. CASE FetchPage
    BY <1>t, <2>2, <1>2, FetchSteps DEF FetchPage, CrawlerInv
  <2>3. CASE \/ LeaveCatalog \/ SaveContinuation \/ Reconcile \/ FlagEnumerated
             \/ DropContinuation
    BY <2>3, <1>2 DEF LeaveCatalog, SaveContinuation, Reconcile, FlagEnumerated,
          DropContinuation, SetContinuation, ReconcileRemovals, MarkEnumerated,
          ClearContinuation, indexVars
  <2> QED
    BY <1>5, <2>1, <2>2, <2>3 DEF CatalogNext
<1>6. CASE InspectNext
  <2>1. CASE LoadBatch \/ InspectionDeadline \/ SubmitGroup
    BY <2>1, <1>2 DEF LoadBatch, InspectionDeadline, SubmitGroup, Idle, indexVars
  <2>2. CASE AnswerNext
    BY <1>t, <2>2, <1>2, AnswerSteps DEF indexVars
  <2>3. CASE Consume
    BY <1>t, <2>3, <1>2, ConsumeSteps DEF Consume, CrawlerInv
  <2> QED
    BY <1>6, <2>1, <2>2, <2>3 DEF InspectNext
<1>7. CASE Tally \/ RefuseStaging \/ CreateStaging \/ FillStaging
  BY <1>7, <1>2, StopType DEF Tally, RefuseStaging, CreateStaging, FillStaging, indexVars
<1>8. CASE CompleteGeneration
  BY <1>t, <1>8 DEF CompleteGeneration, MarkCompleted, catalogVars
<1>9. CASE Retire
  <2>1. \A r \in DOMAIN repos : repos[r].gen <= completedGeneration
    BY <1>t, <1>n, <1>9 DEF Retire, RowsInv, RetireGeneration
  <2> QED
    BY <1>t, <1>9, <2>1, StopType DEF Retire, RetireGeneration, catalogVars
<1>10. CASE HubNext
  BY <1>t, <1>10, <1>1, HubSteps DEF TypeOK, indexVars
<1>11. CASE Exhausted \/ UNCHANGED vars
  BY <1>11, <1>1 DEF Exhausted, vars, indexVars
<1> QED
  BY <1>3, <1>4, <1>5, <1>6, <1>7, <1>8, <1>9, <1>10, <1>11
     DEF Next, LifeNext, PublishNext

\* What compile_site reads is what the catalog promised, once nothing is pending.
LEMMA SnapshotIsPromised ==
    ASSUME StateInv, Pending = {},
           \A r \in DOMAIN repos : ~repos[r].eligible => files[r] = {}
    PROVE  Snapshot = Promised
<1> DEFINE published(r) == {<<r, repos[r].gated, row>> :
                               row \in {f \in files[r] : f[2].sha # NoSha}}
           promised(r) == {<<r, repos[r].catGated, row>> :
                              row \in {f \in FileRows(r, repos[r].catRev) : f[2].sha # NoSha}}
           chosen == {q \in DOMAIN repos : repos[q].eligible}
<1>1. \A r \in chosen : repos[r].gated = repos[r].catGated
                        /\ files[r] = FileRows(r, repos[r].catRev)
  BY InvSettled DEF SettledIsCurrent, Pending
<1>2. \A r \in chosen : published(r) = promised(r)
  BY <1>1
<1>3. \A r \in DOMAIN repos \ chosen : published(r) = {}
  OBVIOUS
<1>4. Snapshot = UNION {published(r) : r \in DOMAIN repos}
  BY DEF Snapshot
<1>5. Promised = UNION {promised(r) : r \in chosen}
  BY DEF Promised
<1> HIDE DEF published, promised
<1>6. UNION {published(r) : r \in DOMAIN repos} = UNION {published(r) : r \in chosen}
  BY <1>3
<1>7. UNION {published(r) : r \in chosen} = UNION {promised(r) : r \in chosen}
  BY <1>2
<1> QED
  BY <1>4, <1>5, <1>6, <1>7

\* The staged site, from its compilation on.
LEMMA StagedPreserved ==
    ASSUME CrawlerInv, StateInv', [Next]_vars
    PROVE  StagedExact'
<1> USE DEF historyVars, locals, processVars, metadataVars
<1>t. TypeOK /\ StateTypeOK /\ StateInv /\ PhaseInv /\ RowsInv /\ StagedExact
  BY DEF CrawlerInv, StateInv
<1>1. ASSUME pc' \notin {"complete", "retire"}, outcome' # "published" \/ staging' = NoSite
      PROVE  StagedExact'
  BY <1>1 DEF StagedExact, NoSite
<1>2. CASE ResumeGeneration \/ StartGeneration \/ Crash \/ ClearWorkspace
  BY <1>2, <1>1, StopType DEF ResumeGeneration, StartGeneration, Crash, ClearWorkspace
<1>3. ASSUME pc \notin {"down", "complete", "retire"}, outcome' \in {outcome, "none", "stalled",
             "continue"}, pc' \notin {"complete", "retire"}
      PROVE  StagedExact'
  BY <1>t, <1>3, <1>1 DEF PhaseInv
<1>4. CASE ResetFlag \/ CatalogNext
  BY <1>4, <1>3 DEF ResetFlag, CatalogNext, LeaveCatalog, FetchPage, SaveContinuation,
                    Reconcile, FlagEnumerated, DropContinuation
<1>5. CASE InspectNext
  <2>1. CASE LoadBatch \/ InspectionDeadline \/ SubmitGroup \/ Consume
    BY <2>1, <1>3 DEF LoadBatch, InspectionDeadline, SubmitGroup, Idle, Consume
  <2>2. CASE AnswerNext
    BY <1>t, <2>2, <1>3, AnswerSteps
  <2> QED
    BY <1>5, <2>1, <2>2 DEF InspectNext
<1>6. CASE Tally \/ RefuseStaging \/ CreateStaging
  BY <1>6, <1>3, StopType DEF Tally, RefuseStaging, CreateStaging
<1>7. CASE FillStaging
  <2>1. CASE pc' # "complete"
    BY <1>7, <2>1, <1>3, StopType DEF FillStaging
  <2>2. CASE pc' = "complete"
    <3>1. /\ UNCHANGED indexVars
          /\ staging' = [state |-> "complete", occurrences |-> Snapshot]
          /\ pc = "write"
      BY <1>7 DEF FillStaging
    <3>2. /\ Pending = {}
          /\ activeGeneration # 0
          /\ \A r \in DOMAIN repos : repos[r].gen = activeGeneration
      BY <1>t, <3>1 DEF RowsInv, PhaseInv
    <3>3. \A r \in DOMAIN repos : ~repos[r].eligible => files[r] = {}
      BY <1>t, <3>2 DEF RowsInv
    <3>4. Snapshot = Promised
      BY <1>t, <3>2, <3>3, SnapshotIsPromised
    <3>5. Promised' = Promised
      BY <3>1 DEF indexVars, Promised
    <3> QED
      BY <2>2, <3>1, <3>2, <3>4, <3>5 DEF StagedExact, indexVars
  <2> QED
    BY <2>1, <2>2
<1>8. CASE CompleteGeneration \/ Retire
  <2>1. /\ UNCHANGED <<repos, files, artifacts, staging>>
        /\ pc \in {"complete", "retire"}
    BY <1>8 DEF CompleteGeneration, Retire, MarkCompleted, RetireGeneration, catalogVars
  <2>2. /\ staging.state = "complete"
        /\ staging.occurrences = Promised
        /\ \A r \in DOMAIN repos : repos[r].gen = activeGeneration
    BY <1>t, <2>1 DEF StagedExact
  <2>3. Promised' = Promised
    BY <2>1 DEF Promised
  <2>4. IF pc' = "down" THEN completedGeneration' = activeGeneration
                        ELSE activeGeneration' = activeGeneration
    BY <1>8, StopType DEF CompleteGeneration, Retire, MarkCompleted, RetireGeneration
  <2> QED
    BY <2>1, <2>2, <2>3, <2>4 DEF StagedExact
<1>9. ASSUME UNCHANGED <<indexVars, pc, outcome, staging>>
      PROVE  StagedExact'
  <2>1. Promised' = Promised
    BY <1>9 DEF indexVars, Promised
  <2> QED
    BY <1>t, <1>9, <2>1 DEF StagedExact, indexVars, NoSite
<1>10. CASE HubNext
  BY <1>t, <1>10, <1>9, HubSteps DEF TypeOK
<1>11. CASE Exhausted \/ UNCHANGED vars
  BY <1>11, <1>9 DEF Exhausted, vars
<1> QED
  BY <1>2, <1>4, <1>5, <1>6, <1>7, <1>8, <1>10, <1>11 DEF Next, LifeNext, PublishNext

\* What the last invocation reported.
LEMMA ReportPreserved ==
    ASSUME CrawlerInv, StateInv', [Next]_vars
    PROVE  ReportIsTrue'
<1> USE DEF historyVars, locals, processVars, metadataVars, ReportIsTrue
<1>t. TypeOK /\ StateTypeOK /\ PhaseInv /\ FlightInv /\ InFlightIsPending /\ ReportIsTrue
  BY DEF CrawlerInv, StateInv
<1>1. ASSUME outcome' = "none"
      PROVE  ReportIsTrue'
  BY <1>1
<1>2. ASSUME outcome' = outcome, pc # "down", UNCHANGED <<activeGeneration, enumerated>>
      PROVE  ReportIsTrue'
  BY <1>t, <1>2 DEF PhaseInv
<1>3. ASSUME outcome' = outcome, pc \notin {"down", "tally"}
      PROVE  ReportIsTrue'
  BY <1>t, <1>3, <1>1 DEF PhaseInv, TypeOK
<1>4. CASE ResumeGeneration \/ StartGeneration \/ Crash \/ RefuseStaging
  BY <1>4, <1>1, StopType DEF ResumeGeneration, StartGeneration, Crash, RefuseStaging
<1>5. ASSUME UNCHANGED <<repos, activeGeneration, enumerated, outcome>>
      PROVE  ReportIsTrue'
  <2>1. Pending' = Pending
    BY <1>5 DEF Pending
  <2> QED
    BY <1>t, <1>5, <2>1
<1>6. CASE ClearWorkspace
  BY <1>6, <1>5 DEF ClearWorkspace, indexVars
<1>7. CASE LeaveCatalog
  BY <1>t, <1>7 DEF LeaveCatalog, indexVars, PhaseInv
<1>8. CASE \/ ResetFlag \/ FetchPage \/ SaveContinuation \/ Reconcile \/ FlagEnumerated
           \/ DropContinuation
  BY <1>8, <1>3 DEF ResetFlag, FetchPage, SaveContinuation, Reconcile, FlagEnumerated,
                    DropContinuation
<1>9. CASE LoadBatch \/ InspectionDeadline \/ SubmitGroup \/ Consume
  BY <1>9, <1>3 DEF LoadBatch, InspectionDeadline, SubmitGroup, Idle, Consume
<1>10. CASE AnswerNext
  BY <1>t, <1>10, <1>5, AnswerSteps DEF indexVars
<1>11. CASE Tally
  <2>1. Pending' = Pending /\ UNCHANGED <<repos, activeGeneration, enumerated>>
    BY <1>11 DEF Tally, indexVars, Pending
  <2>2. activeGeneration # 0 /\ outcome \in {"none", "stalled"}
    BY <1>t, <1>11 DEF Tally, PhaseInv, TypeOK
  <2>3. CASE ~CanPublish /\ outcome # "stalled"
    BY <1>11, <2>1, <2>2, <2>3, StopType DEF Tally, CanPublish
  <2>4. CASE CanPublish
    BY <1>t, <1>11, <2>4, <1>5 DEF Tally, indexVars
  <2>5. CASE outcome = "stalled"
    BY <1>t, <1>11, <2>1, <2>2, <2>5, StopType DEF Tally, CanPublish
  <2> QED
    BY <2>3, <2>4, <2>5
<1>12. CASE CreateStaging \/ FillStaging \/ CompleteGeneration
  BY <1>12, <1>1, <1>3, StopType DEF CreateStaging, FillStaging, CompleteGeneration
<1>13. CASE Retire
  BY <1>t, <1>13, StopType DEF Retire, RetireGeneration
<1>14. CASE HubNext
  BY <1>t, <1>14, <1>5, HubSteps DEF TypeOK, indexVars
<1>15. CASE Exhausted \/ UNCHANGED vars
  BY <1>15, <1>5 DEF Exhausted, vars, indexVars
<1> QED
  BY <1>4, <1>6, <1>7, <1>8, <1>9, <1>10, <1>11, <1>12, <1>13, <1>14, <1>15
     DEF Next, LifeNext, CatalogNext, InspectNext, PublishNext

\* A push, a gate or a withdrawal leaves the steady repositories where they are in the
\* catalog's order.
LEMMA HubKeepsSteady ==
    ASSUME hub \in [Repos -> HubRepo], steady \subseteq Repos, HubNext, NEW r \in steady'
    PROVE  /\ r \in steady
           /\ hub'[r].stamp = hub[r].stamp
           /\ hub[r].vis # "gone" => hub'[r].vis # "gone"
<1> PICK q \in Repos : HubPush(q) \/ HubGate(q) \/ HubVisibility(q)
  BY DEF HubNext
<1>1. CASE HubPush(q)
  <2>1. steady' = steady \ {q} /\ r # q
    BY <1>1 DEF HubPush
  <2>2. PICK rev \in Revisions, t \in Stamps : hub' = [hub EXCEPT ![q].rev = rev, ![q].stamp = t]
    BY <1>1 DEF HubPush
  <2> QED
    BY <2>1, <2>2
<1>2. CASE HubGate(q)
  <2>1. steady' = steady /\ hub' = [hub EXCEPT ![q].gated = ~hub[q].gated]
    BY <1>2 DEF HubGate, historyVars
  <2> QED
    BY <2>1 DEF HubRepo
<1>3. CASE HubVisibility(q)
  <2>1. PICK vis \in Visibility \ {hub[q].vis} :
           /\ hub' = [hub EXCEPT ![q].vis = vis]
           /\ IF vis = "gone" THEN steady' = steady \ {q} ELSE steady' = steady
    BY <1>3 DEF HubVisibility
  <2>2. r \in steady /\ r \in Repos
    BY <2>1
  <2>3. CASE r # q
    BY <2>1, <2>2, <2>3
  <2>4. CASE r = q
    <3>1. vis # "gone"
      BY <2>1, <2>4
    <3> QED
      BY <2>1, <2>2, <2>4, <3>1 DEF HubRepo
  <2> QED
    BY <2>3, <2>4
<1> QED
  BY <1>1, <1>2, <1>3

\* Steady repositories are observed, or ahead of the continuation.
LEMMA SteadyPreserved ==
    ASSUME CrawlerInv, StateInv', [Next]_vars
    PROVE  SteadyInv'
<1> USE DEF historyVars, locals, processVars, metadataVars
<1>t. TypeOK /\ StateTypeOK /\ PhaseInv /\ FlightInv /\ InFlightIsPending /\ SteadyInv
  BY DEF CrawlerInv, StateInv
<1>1. ASSUME UNCHANGED <<repos, activeGeneration, enumerated, nextUrl, hub, cleanStart,
                         steady>>,
             pc' \in {"catalog", "save"} => \/ pc \in {"catalog", "save"} /\ url' = url
                                            \/ url' = nextUrl,
             pc' \in {"finish", "flag"} => pc \in {"finish", "flag"}
      PROVE  SteadyInv'
  BY <1>t, <1>1 DEF SteadyInv, Ahead, ObservedIn
<1>2. ASSUME steady' = {}
      PROVE  SteadyInv'
  BY <1>2 DEF SteadyInv
<1>3. CASE ResumeGeneration \/ Crash \/ RefuseStaging \/ ClearWorkspace
  BY <1>3, <1>1, StopType DEF ResumeGeneration, Crash, RefuseStaging, ClearWorkspace, indexVars
<1>4. CASE StartGeneration
  <2>1. /\ activeGeneration' # 0 /\ enumerated' # "true"
        /\ pc' = "reset" /\ UNCHANGED <<hub, nextUrl>>
        /\ steady' = Listed
        /\ cleanStart' = (nextUrl = 0)
    BY <1>t, <1>4, BoundsAssumption
       DEF StartGeneration, OpenGeneration, PhaseInv, catalogVars
  <2> QED
    BY <2>1 DEF SteadyInv, Ahead, Listed
<1>5. CASE ResetFlag
  <2>1. /\ UNCHANGED <<repos, activeGeneration, nextUrl, hub, cleanStart, steady>>
        /\ enumerated' # "true" /\ enumerated # "true"
        /\ pc' = "catalog" /\ url' = nextUrl
    BY <1>5 DEF ResetFlag, ResetEnumerated, catalogVars
  <2> QED
    BY <1>t, <2>1 DEF SteadyInv, Ahead, ObservedIn
<1>6. CASE LeaveCatalog
  BY <1>6, <1>1 DEF LeaveCatalog, indexVars
<1>7. CASE FetchPage
  <2>1. /\ DOMAIN repos' = DOMAIN repos \union Page
        /\ \A r \in Page : repos'[r].gen = activeGeneration
        /\ \A r \in DOMAIN repos \ Page : repos'[r] = repos[r]
        /\ UNCHANGED metadataVars
        /\ \/ /\ pc' = "save"
              /\ url' \in Stamps
              /\ \A r \in Remaining \ Page : hub[r].stamp < url'
           \/ pc' = "finish" /\ Page = Remaining /\ url' = url
    BY <1>t, <1>7, FetchSteps
  <2>2. UNCHANGED <<hub, steady, cleanStart>> /\ pc = "catalog"
    BY <1>7 DEF FetchPage
  <2>3. \A r \in ObservedIn(activeGeneration) \union Page : r \in ObservedIn(activeGeneration)'
    BY <2>1 DEF ObservedIn
  <2>4. ASSUME cleanStart, NEW r \in steady
        PROVE  /\ r \in ObservedIn(activeGeneration)' \/ Ahead(r, nextUrl)'
               /\ pc' = "save" => r \in ObservedIn(activeGeneration)' \/ Ahead(r, url)'
               /\ pc' = "finish" => r \in ObservedIn(activeGeneration)'
    <3>1. /\ r \in ObservedIn(activeGeneration) \/ Ahead(r, nextUrl)
          /\ r \in ObservedIn(activeGeneration) \/ Ahead(r, url)
          /\ hub[r].vis # "gone"
      BY <1>t, <2>2, <2>4 DEF SteadyInv
    <3>2. CASE r \in ObservedIn(activeGeneration)
      BY <2>3, <3>2
    <3>3. CASE Ahead(r, url)
      <4>1. r \in Remaining
        BY <1>t, <2>4, <3>1, <3>3 DEF Remaining, Listed, Ahead, TypeOK
      <4>2. CASE r \in Page
        BY <2>3, <4>2
      <4>3. CASE r \notin Page
        BY <2>1, <2>2, <3>1, <4>1, <4>3, <2>3 DEF Ahead
      <4> QED
        BY <4>2, <4>3
    <3> QED
      BY <3>1, <3>2, <3>3
  <2>5. activeGeneration # 0 /\ enumerated # "true"
    BY <1>t, <2>2 DEF PhaseInv
  <2> QED
    BY <1>t, <2>1, <2>2, <2>4, <2>5 DEF SteadyInv
<1>8. CASE SaveContinuation
  <2>1. /\ UNCHANGED <<repos, activeGeneration, enumerated, hub, cleanStart, steady, url>>
        /\ pc = "save" /\ pc' = "catalog" /\ nextUrl' = url
    BY <1>8 DEF SaveContinuation, SetContinuation, catalogVars
  <2> QED
    BY <1>t, <2>1 DEF SteadyInv, Ahead, ObservedIn
<1>9. CASE Reconcile
  <2>1. /\ repos' = [r \in ObservedIn(activeGeneration) |-> repos[r]]
        /\ UNCHANGED <<activeGeneration, enumerated, nextUrl, hub, cleanStart, steady>>
        /\ pc = "finish" /\ pc' = "flag"
    BY <1>9 DEF Reconcile, ReconcileRemovals
  <2>2. ObservedIn(activeGeneration)' = ObservedIn(activeGeneration)
    BY <2>1 DEF ObservedIn
  <2> QED
    BY <1>t, <2>1, <2>2 DEF SteadyInv, Ahead
<1>10. CASE FlagEnumerated
  BY <1>10, <1>2 DEF FlagEnumerated
<1>11. ASSUME enumerated = "true", steady' \subseteq steady
       PROVE  SteadyInv'
  BY <1>t, <1>11, <1>2 DEF SteadyInv
<1>12. CASE DropContinuation \/ LoadBatch \/ InspectionDeadline \/ SubmitGroup \/ Consume
  BY <1>t, <1>12, <1>11 DEF DropContinuation, LoadBatch, InspectionDeadline, SubmitGroup, Idle,
                            Consume, PhaseInv
<1>13. CASE AnswerNext
  BY <1>t, <1>13, <1>1, AnswerSteps DEF indexVars
<1>14. CASE Tally
  BY <1>14, <1>1, StopType DEF Tally, indexVars
<1>15. CASE CreateStaging \/ FillStaging \/ CompleteGeneration \/ Retire
  BY <1>t, <1>15, <1>11 DEF CreateStaging, FillStaging, CompleteGeneration, Retire, PhaseInv
<1>16. CASE HubNext
  <2>1. /\ hub \in [Repos -> HubRepo] /\ steady \subseteq Repos
        /\ UNCHANGED <<repos, activeGeneration, enumerated, nextUrl, pc, url, cleanStart>>
        /\ steady' \subseteq steady
    BY <1>t, <1>16, HubSteps DEF TypeOK, indexVars
  <2>2. \A r \in steady' : /\ r \in steady
                           /\ hub'[r].stamp = hub[r].stamp
                           /\ hub[r].vis # "gone" => hub'[r].vis # "gone"
    BY <1>16, <2>1, HubKeepsSteady
  <2> QED
    BY <1>t, <2>1, <2>2 DEF SteadyInv, Ahead, ObservedIn
<1>17. CASE Exhausted \/ UNCHANGED vars
  BY <1>17, <1>1 DEF Exhausted, vars, indexVars
<1> QED
  BY <1>3, <1>4, <1>5, <1>6, <1>7, <1>8, <1>9, <1>10, <1>12, <1>13, <1>14, <1>15, <1>16,
     <1>17 DEF Next, LifeNext, CatalogNext, InspectNext, PublishNext

-----------------------------------------------------------------------------
(* The invariant, and what follows from it *)

\* A new crawler over a new or an older database satisfies the invariant.
LEMMA InitInv == Init => CrawlerInv
<1> SUFFICES ASSUME Init PROVE CrawlerInv
  OBVIOUS
<1>1. StateInv
  BY StateInitInv DEF Init
<1>2. \A r \in DOMAIN repos : repos[r].gen = 0
  <2>1. PICK gates \in [DOMAIN Legacy -> BOOLEAN] :
           repos = [r \in DOMAIN Legacy |->
                       [NewRow EXCEPT !.rev = Legacy[r], !.gated = gates[r],
                                      !.status = "indexed"]]
    BY DEF Init, StateInit
  <2>2. \A r \in DOMAIN Legacy : repos[r].gen = 0
    BY <2>1 DEF NewRow
  <2> QED
    BY <2>1, <2>2
<1>3. TypeOK
  <2>1. hub \in [Repos -> HubRepo]
    BY HubAssumption DEF Init
  <2>2. StateTypeOK
    BY <1>1 DEF StateInv
  <2> QED
    BY <2>1, <2>2 DEF Init, TypeOK, NoFunction, NoSite
<1>4. PhaseInv /\ FlightInv /\ InFlightIsPending /\ ReportIsTrue
  BY DEF Init, StateInit, PhaseInv, FlightInv, InFlightIsPending, ReportIsTrue, NoFunction
<1>5. RowsInv /\ FreshGeneration /\ StagedExact
  <2>1. /\ activeGeneration = 0 /\ completedGeneration = 0 /\ enumerated = "absent"
        /\ pc = "down" /\ outcome = "none"
    BY DEF Init, StateInit
  <2> QED
    BY <1>2, <2>1 DEF RowsInv, FreshGeneration, StagedExact
<1>6. SteadyInv
  BY DEF Init, SteadyInv
<1> QED
  BY <1>1, <1>3, <1>4, <1>5, <1>6 DEF CrawlerInv

\* Every step of the crawler or of the Hub preserves the invariant.
LEMMA NextInv == CrawlerInv /\ [Next]_vars => CrawlerInv'
<1> SUFFICES ASSUME CrawlerInv, [Next]_vars PROVE CrawlerInv'
  OBVIOUS
<1>1. [StateNext]_indexVars
  BY StepIsStateStep DEF CrawlerInv
<1>2. StateInv'
  BY <1>1, StateNextInv DEF CrawlerInv
<1> QED
  BY <1>2, TypePreserved, PhasePreserved, FlightPreserved, RowsPreserved, FreshPreserved,
     StagedPreserved, ReportPreserved, SteadyPreserved DEF CrawlerInv

\* The inductive invariant holds of every run of the crawl.
THEOREM Invariance == Spec => []CrawlerInv
<1> QED
  BY InitInv, NextInv, PTL DEF Spec

\* The variables of the database, of the process and of the Hub stay well formed.
THEOREM Typing == Spec => []TypeOK
<1>1. CrawlerInv => TypeOK
  BY DEF CrawlerInv
<1> QED
  BY <1>1, Invariance, PTL

\* The full crawl uses the durable state only as any caller of IndexState may: every
\* transaction it commits, and its initial database, are the abstract store's.
THEOREM ImplementsState == Spec => StateSpec
<1>1. Init => StateInit
  BY DEF Init
<1>2. CrawlerInv /\ [Next]_vars => [StateNext]_indexVars
  BY StepIsStateStep DEF CrawlerInv
<1> QED
  BY <1>1, <1>2, Invariance, PTL DEF Spec, StateSpec

\* No repository is ever stored, and so never served, with a mixture of two revisions.
THEOREM NeverMixed == Spec => []WholeRevision
<1>1. CrawlerInv => WholeRevision
  BY DEF CrawlerInv, StateInv
<1> QED
  BY <1>1, Invariance, PTL

\* The artifacts are at all times exactly the digests of the stored occurrences.
THEOREM ArtifactsReferenced == Spec => []NoOrphans
<1>1. CrawlerInv => NoOrphans
  BY DEF CrawlerInv, StateInv
<1> QED
  BY <1>1, Invariance, PTL

\* An eligible repository that inspection passes over is up to date with the catalog.
THEOREM SkippedIsCurrent == Spec => []SettledIsCurrent
<1>1. CrawlerInv => SettledIsCurrent
  BY InvSettled DEF CrawlerInv
<1> QED
  BY <1>1, Invariance, PTL

\* What is staged for publication is what the generation's catalog promised.
THEOREM PublishesExactly == Spec => []StagedExact
<1>1. CrawlerInv => StagedExact
  BY DEF CrawlerInv
<1> QED
  BY <1>1, Invariance, PTL

\* Whatever the Hub's other repositories do and wherever the process dies, a catalog
\* enumerated from its first page has observed every steady repository before removals.
THEOREM EnumerationMissesNothingSteady == Spec => []EnumeratesSteady
<1>1. CrawlerInv => EnumeratesSteady
  BY DEF CrawlerInv, SteadyInv, EnumeratesSteady
<1> QED
  BY <1>1, Invariance, PTL

\* Generation numbers are never reused.
THEOREM NumbersFresh == Spec => []FreshGeneration
<1>1. CrawlerInv => FreshGeneration
  BY DEF CrawlerInv
<1> QED
  BY <1>1, Invariance, PTL

\* A report never claims work that is not there, nor hides work that is.
THEOREM ReportsAreTrue == Spec => []ReportIsTrue
<1>1. CrawlerInv => ReportIsTrue
  BY DEF CrawlerInv
<1> QED
  BY <1>1, Invariance, PTL

\* Requests in flight are for what their rows still ask.
THEOREM InFlightCurrent == Spec => []InFlightIsPending
<1>1. CrawlerInv => InFlightIsPending
  BY DEF CrawlerInv
<1> QED
  BY <1>1, Invariance, PTL

\* A step that opens, completes or ends a generation does it in order, with the site staged.
LEMMA GenerationStep ==
    ASSUME CrawlerInv, [Next]_vars
    PROVE  /\ activeGeneration' # activeGeneration =>
                 completedGeneration = activeGeneration \/ activeGeneration = 0
           /\ completedGeneration' # completedGeneration =>
                 /\ completedGeneration' = completedGeneration + 1
                 /\ staging.state = "complete"
<1> USE DEF historyVars, locals, processVars, metadataVars
<1>t. TypeOK /\ PhaseInv /\ FlightInv /\ InFlightIsPending /\ FreshGeneration /\ StagedExact
  BY DEF CrawlerInv
<1> DEFINE Goal == /\ activeGeneration' # activeGeneration =>
                         completedGeneration = activeGeneration \/ activeGeneration = 0
                   /\ completedGeneration' # completedGeneration =>
                         /\ completedGeneration' = completedGeneration + 1
                         /\ staging.state = "complete"
<1>1. CASE LifeNext
  BY <1>1 DEF LifeNext, ResumeGeneration, StartGeneration, ResetFlag, Crash, ClearWorkspace,
              OpenGeneration, ResetEnumerated, indexVars
<1>2. CASE CatalogNext
  <2>1. CASE FetchPage
    BY <1>t, <2>1, FetchSteps
  <2>2. CASE \/ LeaveCatalog \/ SaveContinuation \/ Reconcile \/ FlagEnumerated
             \/ DropContinuation
    BY <2>2 DEF LeaveCatalog, SaveContinuation, Reconcile, FlagEnumerated, DropContinuation,
          SetContinuation, ReconcileRemovals, MarkEnumerated, ClearContinuation, indexVars
  <2> QED
    BY <1>2, <2>1, <2>2 DEF CatalogNext
<1>3. CASE InspectNext
  BY <1>t, <1>3, AnswerSteps, ConsumeSteps
     DEF InspectNext, LoadBatch, InspectionDeadline, SubmitGroup, indexVars
<1>4. CASE Tally \/ RefuseStaging \/ CreateStaging \/ FillStaging
  BY <1>4 DEF Tally, RefuseStaging, CreateStaging, FillStaging, indexVars
<1>5. CASE CompleteGeneration
  BY <1>t, <1>5 DEF CompleteGeneration, MarkCompleted, FreshGeneration, StagedExact
<1>6. CASE Retire
  BY <1>6 DEF Retire, RetireGeneration
<1>7. CASE HubNext
  BY <1>t, <1>7, HubSteps DEF TypeOK, indexVars
<1>8. CASE Exhausted \/ UNCHANGED vars
  BY <1>8 DEF Exhausted, vars, indexVars
<1> QED
  BY <1>1, <1>2, <1>3, <1>4, <1>5, <1>6, <1>7, <1>8 DEF Next, PublishNext

\* Generations are completed one after the other, each with its site staged, and none is
\* abandoned.
THEOREM GenerationsInOrder == Spec => GenerationsComplete
<1>1. CrawlerInv /\ [Next]_vars =>
         [/\ activeGeneration' # activeGeneration => completedGeneration = activeGeneration
                                                     \/ activeGeneration = 0
          /\ completedGeneration' # completedGeneration =>
                /\ completedGeneration' = completedGeneration + 1
                /\ staging.state = "complete"]_vars
  BY GenerationStep
<1> QED
  BY <1>1, Invariance, PTL DEF Spec, GenerationsComplete

\* A step that takes files away from a repository.
LEMMA FilesStep ==
    ASSUME CrawlerInv, [Next]_vars, NEW r \in DOMAIN repos, files[r] # {}, files'[r] # files[r]
    PROVE  \/ r \notin DOMAIN repos' /\ repos[r].gen # activeGeneration /\ pc = "finish"
           \/ r \in DOMAIN repos' /\ ~repos'[r].eligible
           \/ /\ r \in DOMAIN repos' /\ r \in group
              /\ repos[r].catRev \in {NoRev, repos'[r].rev}
<1> USE DEF historyVars, locals, processVars, metadataVars
<1>t. TypeOK /\ StateTypeOK /\ PhaseInv /\ FlightInv /\ InFlightIsPending
  BY DEF CrawlerInv, TypeOK
<1>r. r \in Repos
  BY <1>t DEF StateTypeOK
<1>1. CASE FetchPage
  <2>1. r \in Page
    BY <1>t, <1>r, <1>1, FetchSteps
  <2>2. r \in DOMAIN repos'
    BY <1>t, <1>1, FetchSteps
  <2> DEFINE seen == [q \in Page |-> CatalogEntry(q)]
  <2>3. RecordCatalogRepositories(seen, activeGeneration)
    BY <1>1 DEF FetchPage
  <2>4. /\ files' = FilesAfterCatalog(seen)
        /\ repos' = [q \in DOMAIN repos \union Page |->
                        IF q \in Page THEN ObservedRow(q, seen[q], activeGeneration)
                        ELSE repos[q]]
    BY <2>1, <2>3 DEF RecordCatalogRepositories, WriteFiles
  <2>5. seen \in [Page -> Entry] /\ activeGeneration \in Generations
    BY <1>t, <1>1, FetchSteps
  <2>6. repos'[r].eligible = seen[r].eligible
    BY <1>t, <1>r, <2>1, <2>4, <2>5, ObservedRowType
  <2>7. ~seen[r].eligible
    BY <1>r, <2>4 DEF FilesAfterCatalog
  <2> QED
    BY <2>2, <2>6, <2>7
<1>2. CASE Reconcile
  BY <1>r, <1>2 DEF Reconcile, ReconcileRemovals, WriteFiles, ObservedIn
<1>3. CASE Consume
  <2>1. PICK c \in group :
           /\ c \in DOMAIN answers
           /\ \/ /\ answers[c].kind = "ok"
                 /\ answers[c].rev \in Revisions
                 /\ answers[c].gated \in BOOLEAN
                 /\ ReplaceRepo(c, answers[c].rev, answers[c].gated)
              \/ /\ answers[c].kind = "unavailable"
                 /\ batch[c].rev \in Revs
                 /\ batch[c].gated \in BOOLEAN
                 /\ RecordRepositoryUnavailable(c, batch[c].rev, batch[c].gated)
              \/ answers[c].kind = "failed" /\ RecordInspectionFailure(c)
           /\ DOMAIN repos' = DOMAIN repos
           /\ \A q \in Repos : q # c => files'[q] = files[q]
    BY <1>t, <1>3, ConsumeSteps
  <2>2. c = r /\ repos[r] \in Row /\ r \in DOMAIN repos'
    BY <1>t, <1>r, <2>1 DEF StateTypeOK
  <2>3. CASE RecordInspectionFailure(c)
    BY <2>3 DEF RecordInspectionFailure
  <2>4. CASE RecordRepositoryUnavailable(c, batch[c].rev, batch[c].gated)
    <3>1. repos'[r] = [repos[r] EXCEPT !.rev = batch[c].rev, !.gated = batch[c].gated,
                                       !.eligible = FALSE, !.status = "unavailable"]
      BY <2>2, <2>4 DEF RecordRepositoryUnavailable
    <3> QED
      BY <2>2, <3>1 DEF Row
  <2>5. CASE answers[c].kind = "ok" /\ ReplaceRepo(c, answers[c].rev, answers[c].gated)
    <3>1. repos'[r] = [repos[r] EXCEPT !.rev = answers[c].rev, !.gated = answers[c].gated,
                                       !.status = "indexed"]
      BY <2>2, <2>5 DEF ReplaceRepo, Prior
    <3>2. repos'[r].rev = answers[r].rev
      BY <2>2, <3>1 DEF Row
    <3>3. /\ r \in DOMAIN answers
          /\ r \in DOMAIN batch
      BY <1>t, <2>1, <2>2 DEF TypeOK
    <3>4. batch[r].rev \in {NoRev, answers[r].rev} /\ batch[r].rev = repos[r].catRev
      BY <1>t, <2>2, <2>5, <3>3 DEF FlightInv, InFlightIsPending
    <3> QED
      BY <2>2, <3>2, <3>4
  <2> QED
    BY <2>1, <2>3, <2>4, <2>5
<1>4. CASE LifeNext
  BY <1>4 DEF LifeNext, ResumeGeneration, StartGeneration, ResetFlag, Crash, ClearWorkspace,
              OpenGeneration, ResetEnumerated, indexVars, catalogVars
<1>5. CASE LeaveCatalog \/ SaveContinuation \/ FlagEnumerated \/ DropContinuation
  BY <1>5 DEF LeaveCatalog, SaveContinuation, FlagEnumerated, DropContinuation,
              SetContinuation, MarkEnumerated, ClearContinuation, indexVars, catalogVars
<1>6. CASE LoadBatch \/ InspectionDeadline \/ SubmitGroup \/ AnswerNext
  BY <1>t, <1>6, AnswerSteps DEF LoadBatch, InspectionDeadline, SubmitGroup, indexVars
<1>7. CASE PublishNext
  BY <1>7 DEF PublishNext, Tally, RefuseStaging, CreateStaging, FillStaging,
              CompleteGeneration, Retire, MarkCompleted, RetireGeneration, indexVars,
              catalogVars
<1>8. CASE HubNext
  BY <1>t, <1>8, HubSteps DEF TypeOK, indexVars
<1>9. CASE Exhausted \/ UNCHANGED vars
  BY <1>9 DEF Exhausted, vars, indexVars
<1> QED
  BY <1>1, <1>2, <1>3, <1>4, <1>5, <1>6, <1>7, <1>8, <1>9
     DEF Next, CatalogNext, InspectNext

\* What was verified is lost to nothing but the catalog's and the Hub's own word.
THEOREM VerifiedKept == Spec => VerifiedFilesKept
<1>1. CrawlerInv /\ [Next]_vars =>
        [\A r \in DOMAIN repos : files[r] # {} /\ files'[r] # files[r] =>
          \/ r \notin DOMAIN repos' /\ repos[r].gen # activeGeneration /\ pc = "finish"
          \/ r \in DOMAIN repos' /\ ~repos'[r].eligible
          \/ r \in DOMAIN repos' /\ r \in group /\ repos[r].catRev \in {NoRev, repos'[r].rev}]_vars
  BY FilesStep
<1> QED
  BY <1>1, Invariance, PTL DEF Spec, VerifiedFilesKept
\* One finished future: the others' rows stay as they are, and this one is settled unless
\* its request failed or read something else than the catalog reported.
LEMMA ConsumeSettles ==
    ASSUME CrawlerInv, Consume
    PROVE  /\ Pending' \subseteq Pending
           /\ \A r \in group \ group' : r \in Pending' =>
                 \/ answers[r].kind = "failed"
                 \/ /\ answers[r].kind = "ok"
                    /\ batch[r].rev = NoRev \/ answers[r].gated # batch[r].gated
<1>t. TypeOK /\ StateTypeOK /\ FlightInv /\ InFlightIsPending
  BY DEF CrawlerInv, TypeOK
<1>1. PICK c \in group :
         /\ c \in DOMAIN answers
         /\ group' = group \ {c}
         /\ \/ /\ answers[c].kind = "ok"
               /\ answers[c].rev \in Revisions
               /\ answers[c].gated \in BOOLEAN
               /\ ReplaceRepo(c, answers[c].rev, answers[c].gated)
            \/ /\ answers[c].kind = "unavailable"
               /\ RecordRepositoryUnavailable(c, batch[c].rev, batch[c].gated)
            \/ answers[c].kind = "failed" /\ RecordInspectionFailure(c)
         /\ DOMAIN repos' = DOMAIN repos
         /\ c \in DOMAIN repos
         /\ \A q \in DOMAIN repos : q # c => repos'[q] = repos[q]
  BY <1>t, ConsumeSteps
<1>2. c \in DOMAIN batch /\ c \in Pending /\ repos[c] \in Row
  BY <1>t, <1>1 DEF TypeOK, StateTypeOK, InFlightIsPending
<1>3. Pending' \subseteq Pending
  BY <1>1, <1>2 DEF Pending, PendingRow
<1>4. CASE answers[c].kind = "ok" /\ ReplaceRepo(c, answers[c].rev, answers[c].gated)
  <2>1. repos'[c] = [repos[c] EXCEPT !.rev = answers[c].rev, !.gated = answers[c].gated,
                                     !.status = "indexed"]
    BY <1>1, <1>4 DEF ReplaceRepo, Prior
  <2>2. /\ repos'[c].status = "indexed"
        /\ repos'[c].rev = answers[c].rev /\ repos'[c].catRev = repos[c].catRev
        /\ repos'[c].gated = answers[c].gated /\ repos'[c].catGated = repos[c].catGated
    BY <1>2, <2>1 DEF Row
  <2>3. /\ batch[c].rev \in {NoRev, answers[c].rev}
        /\ batch[c].rev = repos[c].catRev /\ batch[c].gated = repos[c].catGated
    BY <1>t, <1>1, <1>2, <1>4 DEF FlightInv, InFlightIsPending
  <2>4. c \in Pending' => batch[c].rev = NoRev \/ answers[c].gated # batch[c].gated
    BY <2>2, <2>3 DEF Pending, PendingRow
  <2> QED
    BY <1>1, <1>3, <1>4, <2>4
<1>5. CASE RecordRepositoryUnavailable(c, batch[c].rev, batch[c].gated)
  <2>1. repos'[c] = [repos[c] EXCEPT !.rev = batch[c].rev, !.gated = batch[c].gated,
                                     !.eligible = FALSE, !.status = "unavailable"]
    BY <1>1, <1>5 DEF RecordRepositoryUnavailable
  <2>2. c \notin Pending'
    BY <1>2, <2>1 DEF Row, Pending, PendingRow
  <2> QED
    BY <1>1, <1>3, <2>2
<1> QED
  BY <1>1, <1>3, <1>4, <1>5

LEMMA SettleStep ==
    ASSUME CrawlerInv, [Next]_vars, activeGeneration # 0, enumerated = "true"
    PROVE  /\ Pending' \subseteq Pending
           /\ \A r \in group \ group' : pc' = "inspect" /\ r \in Pending' =>
                 \/ answers[r].kind = "failed"
                 \/ /\ answers[r].kind = "ok"
                    /\ batch[r].rev = NoRev \/ answers[r].gated # batch[r].gated
<1> USE DEF historyVars, locals, processVars, metadataVars, indexVars, catalogVars
<1>t. TypeOK /\ PhaseInv
  BY DEF CrawlerInv
<1>u. ASSUME UNCHANGED repos, group' = group \/ pc' # "inspect"
      PROVE  /\ Pending' \subseteq Pending
             /\ \A r \in group \ group' : pc' # "inspect"
  BY <1>u DEF Pending
<1>1. CASE Consume
  BY <1>1, ConsumeSettles
<1>2. CASE FetchPage \/ Reconcile \/ FlagEnumerated \/ SaveContinuation \/ LeaveCatalog
  BY <1>t, <1>2 DEF PhaseInv, FetchPage, Reconcile, FlagEnumerated, SaveContinuation,
                    LeaveCatalog
<1>3. CASE LifeNext
  <2>1. UNCHANGED repos /\ (group' = group \/ pc' # "inspect")
    BY <1>3 DEF LifeNext, ResumeGeneration, StartGeneration, ResetFlag, Crash, Stop,
                ClearWorkspace, OpenGeneration, ResetEnumerated
  <2> QED
    BY <1>u, <2>1
<1>4. CASE DropContinuation \/ LoadBatch \/ InspectionDeadline
  <2>1. UNCHANGED repos /\ group' = group
    BY <1>4 DEF DropContinuation, ClearContinuation, LoadBatch, InspectionDeadline
  <2> QED
    BY <1>u, <2>1
<1>5. CASE SubmitGroup
  <2>1. UNCHANGED repos /\ group = {}
    BY <1>5 DEF SubmitGroup, Idle
  <2> QED
    BY <2>1 DEF Pending
<1>6. CASE AnswerNext
  <2>1. UNCHANGED <<repos, group>>
    BY <1>t, <1>6, AnswerSteps
  <2> QED
    BY <1>u, <2>1
<1>7. CASE PublishNext
  <2>1. UNCHANGED repos /\ (group' = group \/ pc' # "inspect")
    BY <1>7 DEF PublishNext, Tally, RefuseStaging, CreateStaging, FillStaging, Stop,
                CompleteGeneration, Retire, MarkCompleted, RetireGeneration
  <2> QED
    BY <1>u, <2>1
<1>8. CASE HubNext
  <2>1. UNCHANGED <<repos, group>>
    BY <1>t, <1>8, HubSteps DEF TypeOK
  <2> QED
    BY <1>u, <2>1
<1>9. CASE Exhausted \/ UNCHANGED vars
  <2>1. UNCHANGED <<repos, group>>
    BY <1>9 DEF Exhausted, vars
  <2> QED
    BY <1>u, <2>1
<1> QED
  BY <1>1, <1>2, <1>3, <1>4, <1>5, <1>6, <1>7, <1>8, <1>9
     DEF Next, CatalogNext, InspectNext

\* What is left to inspect in an enumerated generation only becomes less.
THEOREM PendingOnlyShrinks == Spec => InspectionsSettle
<1>1. CrawlerInv /\ [Next]_vars =>
        [activeGeneration # 0 /\ enumerated = "true" =>
          /\ Pending' \subseteq Pending
          /\ \A r \in group \ group' : pc' = "inspect" /\ r \in Pending' =>
                \/ answers[r].kind = "failed"
                \/ /\ answers[r].kind = "ok"
                   /\ batch[r].rev = NoRev \/ answers[r].gated # batch[r].gated]_vars
  BY SettleStep
<1> QED
  BY <1>1, Invariance, PTL DEF Spec, InspectionsSettle

-----------------------------------------------------------------------------
(* The promise of a round *)

\* The site a round is about, in the words of the promise.
LEMMA ContentsArePromised ==
    ASSUME StateTypeOK
    PROVE  Promise!Contents = Promised
<1> DEFINE noted == [r \in DOMAIN repos |-> Noted(repos[r])]
           there == [r \in Repos |-> [v \in Revs |-> Exact(r, v)]]
           mine(r) == {<<r, noted[r].gated, f>> : f \in there[r][noted[r].rev]}
           promised(r) == {<<r, repos[r].catGated, row>> :
                              row \in {f \in FileRows(r, repos[r].catRev) : f[2].sha # NoSha}}
<1>1. {q \in DOMAIN noted : noted[q].eligible} = {q \in DOMAIN repos : repos[q].eligible}
  BY DEF Noted
<1>2. \A r \in DOMAIN repos : mine(r) = promised(r)
  <2> SUFFICES ASSUME NEW r \in DOMAIN repos PROVE mine(r) = promised(r)
    OBVIOUS
  <2>1. r \in Repos /\ repos[r].catRev \in Revs
    BY DEF StateTypeOK, Row
  <2>2. noted[r].gated = repos[r].catGated /\ noted[r].rev = repos[r].catRev
    BY DEF Noted
  <2>3. there[r][noted[r].rev]
            = {f \in FileRows(r, repos[r].catRev) : f[2].sha # NoSha}
    BY <2>1, <2>2 DEF Exact
  <2> QED
    BY <2>2, <2>3
<1>3. Promise!Contents = UNION {mine(r) : r \in {q \in DOMAIN noted : noted[q].eligible}}
  BY DEF Promise!Contents
<1>4. Promised = UNION {promised(r) : r \in {q \in DOMAIN repos : repos[q].eligible}}
  BY DEF Promised
<1> HIDE DEF mine, promised, noted
<1> QED
  BY <1>1, <1>2, <1>3, <1>4

\* What changes neither the rows, nor the generations, nor the staged site, is not seen.
LEMMA UnseenStep ==
    ASSUME UNCHANGED <<repos, activeGeneration, completedGeneration, enumerated>>,
           staging' = staging \/ {staging.state, staging'.state} \subseteq {"none", "partial"}
    PROVE  Promise!HubChanges
BY DEF Promise!HubChanges, Phase, ObservedIn

LEMMA OpensRound ==
    ASSUME CrawlerInv, StartGeneration
    PROVE  Promise!Open
<1>1. /\ UNCHANGED <<repos, completedGeneration, enumerated, hub, staging>>
      /\ activeGeneration = 0 /\ activeGeneration' = completedGeneration + 1
  BY DEF StartGeneration, OpenGeneration, catalogVars
<1>2. TypeOK /\ StateTypeOK /\ PhaseInv /\ FreshGeneration
  BY DEF CrawlerInv, StateInv
<1>3. completedGeneration \in Nat /\ \A r \in DOMAIN repos : repos[r].gen \in Nat
  BY <1>2, GenerationsAreNumbers
<1>4. Phase = "idle" /\ Phase' = "listing"
  BY <1>1, <1>2, <1>3 DEF Phase, PhaseInv
<1>5. activeGeneration' # 0 /\ ObservedIn(activeGeneration)' = {}
  BY <1>1, <1>2, <1>3 DEF ObservedIn, FreshGeneration
<1> QED
  BY <1>1, <1>4, <1>5 DEF Promise!Open, Listed, CatalogEntry

LEMMA NotesPage ==
    ASSUME CrawlerInv, FetchPage
    PROVE  Promise!Note(Page) \/ Promise!HubChanges
<1> DEFINE seen == [r \in Page |-> CatalogEntry(r)]
<1>1. TypeOK /\ StateTypeOK /\ PhaseInv /\ RowsInv
  BY DEF CrawlerInv, StateInv
<1>2. /\ activeGeneration \in Generations
      /\ Page \in SUBSET Repos /\ seen \in [Page -> Entry]
      /\ UNCHANGED metadataVars /\ UNCHANGED <<hub, staging>>
  BY <1>1, FetchSteps DEF FetchPage
<1>3. /\ RecordCatalogRepositories(seen, activeGeneration)
      /\ activeGeneration # 0 /\ enumerated # "true"
  BY <1>1 DEF FetchPage, PhaseInv
<1>4. CASE UNCHANGED indexVars
  BY <1>2, <1>4, UnseenStep DEF indexVars
<1>5. CASE ~UNCHANGED indexVars
  <2>1. repos' = [r \in DOMAIN repos \union Page |->
                     IF r \in Page THEN ObservedRow(r, seen[r], activeGeneration) ELSE repos[r]]
    BY <1>3, <1>5 DEF RecordCatalogRepositories
  <2>2. ASSUME NEW r \in Page
        PROVE  repos'[r].gen = activeGeneration /\ Noted(repos'[r]) = CatalogEntry(r)
    <3>1. repos'[r] = ObservedRow(r, seen[r], activeGeneration) /\ seen[r] \in Entry
      BY <1>2, <2>1
    <3>2. /\ repos'[r].gen = activeGeneration
          /\ repos'[r].catRev = seen[r].rev /\ repos'[r].catGated = seen[r].gated
          /\ repos'[r].eligible = seen[r].eligible
      <4>1. Prior(r) \in Row
        BY <1>1, <1>2, PriorType
      <4> QED
        BY <3>1, <4>1 DEF ObservedRow, Row
    <3>3. seen[r] = [rev |-> seen[r].rev, gated |-> seen[r].gated,
                     eligible |-> seen[r].eligible]
      BY <3>1 DEF Entry
    <3> QED
      BY <3>2, <3>3 DEF Noted
  <2>3. Page \subseteq Listed
    BY DEF Page, Remaining
  <2>4. ObservedIn(activeGeneration)' = ObservedIn(activeGeneration) \union Page
    <3>1. DOMAIN repos' = DOMAIN repos \union Page
          /\ \A r \in DOMAIN repos \ Page : repos'[r] = repos[r]
      BY <2>1
    <3>2. activeGeneration' = activeGeneration
      BY <1>2 DEF metadataVars
    <3> QED
      BY <2>2, <3>1, <3>2 DEF ObservedIn
  <2>5. Phase = "listing" /\ Phase' = "listing"
    BY <1>1, <1>2, <1>3 DEF Phase, metadataVars, RowsInv
  <2>6. [r \in DOMAIN repos' |-> Noted(repos'[r])]
            = [r \in DOMAIN [r \in DOMAIN repos |-> Noted(repos[r])] \union Page |->
                  IF r \in Page THEN [q \in Listed |-> CatalogEntry(q)][r]
                  ELSE [q \in DOMAIN repos |-> Noted(repos[q])][r]]
    BY <2>1, <2>2, <2>3
  <2> QED
    BY <1>2, <1>3, <2>3, <2>4, <2>5, <2>6
    DEF Promise!Note, metadataVars, Listed, CatalogEntry
<1> QED
  BY <1>4, <1>5

LEMMA ForgetsUnheard ==
    ASSUME CrawlerInv, Reconcile
    PROVE  Promise!ForgetUnheard
<1>1. /\ repos' = [r \in ObservedIn(activeGeneration) |-> repos[r]]
      /\ UNCHANGED metadataVars /\ UNCHANGED <<hub, staging>> /\ pc = "finish"
  BY DEF Reconcile, ReconcileRemovals
<1>2. PhaseInv /\ RowsInv
  BY DEF CrawlerInv
<1>3. activeGeneration # 0 /\ enumerated # "true"
  BY <1>1, <1>2 DEF PhaseInv
<1>4. Phase = "listing" /\ Phase' = "listing"
  BY <1>1, <1>2, <1>3 DEF Phase, metadataVars, RowsInv
<1>5. ObservedIn(activeGeneration)' = ObservedIn(activeGeneration)
  BY <1>1 DEF ObservedIn, metadataVars
<1>6. [r \in DOMAIN repos' |-> Noted(repos'[r])]
          = [r \in ObservedIn(activeGeneration) |->
                [q \in DOMAIN repos |-> Noted(repos[q])][r]]
  BY <1>1 DEF ObservedIn
<1> QED
  BY <1>1, <1>3, <1>4, <1>5, <1>6 DEF Promise!ForgetUnheard, metadataVars, Listed, CatalogEntry

LEMMA SettlesRound ==
    ASSUME CrawlerInv, FlagEnumerated
    PROVE  Promise!Settle
<1>1. /\ UNCHANGED <<repos, activeGeneration, completedGeneration, hub, staging>>
      /\ enumerated' = "true" /\ pc = "flag"
  BY DEF FlagEnumerated, MarkEnumerated, catalogVars
<1>2. PhaseInv /\ RowsInv
  BY DEF CrawlerInv
<1>3. activeGeneration # 0 /\ enumerated # "true"
  BY <1>1, <1>2 DEF PhaseInv
<1>4. Phase = "listing" /\ Phase' = "settling"
  BY <1>1, <1>2, <1>3 DEF Phase, RowsInv
<1>5. DOMAIN repos = ObservedIn(activeGeneration)
  BY <1>1, <1>2 DEF RowsInv, ObservedIn
<1> QED
  BY <1>1, <1>3, <1>4, <1>5 DEF Promise!Settle, Listed, CatalogEntry, ObservedIn

\* A row that loses its eligibility and keeps what the catalog said of it. (The constant
\* FALSE is named first: the solver would take it for a formula, not a value.)
LEMMA NotedWithdrawn ==
    ASSUME NEW old, NEW new,
           new.catRev = old.catRev, new.catGated = old.catGated, new.eligible = FALSE
    PROVE  [Noted(old) EXCEPT !.eligible = FALSE] = Noted(new)
<1>1. PICK e : e = FALSE
  OBVIOUS
<1>2. new.eligible = e
  BY <1>1
<1>3. [Noted(old) EXCEPT !.eligible = e] = Noted(new)
  BY <1>2 DEF Noted
<1> QED
  BY <1>1, <1>3

LEMMA WithdrawsOrNothing ==
    ASSUME CrawlerInv, Consume
    PROVE  (\E r \in Repos : Promise!Withdraw(r)) \/ Promise!HubChanges
<1>1. TypeOK /\ StateTypeOK /\ PhaseInv /\ RowsInv /\ FlightInv /\ InFlightIsPending
  BY DEF CrawlerInv, StateInv
<1>2. PICK r \in group :
         /\ \/ /\ answers[r].kind = "ok"
               /\ ReplaceRepo(r, answers[r].rev, answers[r].gated)
            \/ RecordRepositoryUnavailable(r, batch[r].rev, batch[r].gated)
            \/ RecordInspectionFailure(r)
         /\ DOMAIN repos' = DOMAIN repos
         /\ r \in DOMAIN repos
         /\ \A q \in DOMAIN repos : q # r => repos'[q] = repos[q]
         /\ repos'[r].gen = repos[r].gen
         /\ repos'[r].catRev = repos[r].catRev
         /\ repos'[r].catGated = repos[r].catGated
         /\ UNCHANGED metadataVars
  BY <1>1, ConsumeSteps
<1>3. UNCHANGED <<hub, staging>> /\ pc = "inspect"
  BY DEF Consume
<1>4. r \in Repos /\ repos[r] \in Row /\ r \in Pending
  BY <1>1, <1>2 DEF TypeOK, StateTypeOK, InFlightIsPending
<1>5. activeGeneration # 0 /\ Phase = "settling" /\ Phase' = "settling"
  BY <1>1, <1>2, <1>3, <1>4 DEF Phase, metadataVars, RowsInv, PhaseInv
<1>6. ObservedIn(activeGeneration)' = ObservedIn(activeGeneration)
  BY <1>2 DEF ObservedIn, metadataVars
<1>7. CASE repos'[r].eligible = repos[r].eligible
  <2>1. \A q \in DOMAIN repos : Noted(repos'[q]) = Noted(repos[q])
    BY <1>2, <1>7 DEF Noted
  <2>2. [q \in DOMAIN repos' |-> Noted(repos'[q])] = [q \in DOMAIN repos |-> Noted(repos[q])]
    BY <1>2, <2>1
  <2> QED
    BY <1>2, <1>3, <1>5, <1>6, <2>2 DEF Promise!HubChanges, metadataVars
<1>8. CASE RecordRepositoryUnavailable(r, batch[r].rev, batch[r].gated)
  <2> DEFINE noted == [q \in DOMAIN repos |-> Noted(repos[q])]
  <2>1. repos'[r].eligible = FALSE
    <3>1. repos'[r] = [repos[r] EXCEPT !.rev = batch[r].rev, !.gated = batch[r].gated,
                                       !.eligible = FALSE, !.status = "unavailable"]
      BY <1>2, <1>8 DEF RecordRepositoryUnavailable
    <3> QED
      BY <1>4, <3>1 DEF Row
  <2>2. [q \in DOMAIN repos' |-> Noted(repos'[q])] = [noted EXCEPT ![r].eligible = FALSE]
    <3>1. Noted(repos'[r]) = [Noted(repos[r]) EXCEPT !.eligible = FALSE]
      BY <1>2, <2>1, NotedWithdrawn
    <3>2. \A q \in DOMAIN repos : q # r => Noted(repos'[q]) = Noted(repos[q])
      BY <1>2 DEF Noted
    <3> QED
      BY <1>2, <3>1, <3>2
  <2>3. Promise!Withdraw(r)
    BY <1>2, <1>3, <1>5, <1>6, <2>2 DEF Promise!Withdraw, metadataVars, Listed, CatalogEntry
  <2> QED
    BY <1>4, <2>3
<1>9. CASE \/ ReplaceRepo(r, answers[r].rev, answers[r].gated)
           \/ RecordInspectionFailure(r)
  <2>1. repos'[r].eligible = repos[r].eligible
    BY <1>2, <1>4, <1>9 DEF ReplaceRepo, RecordInspectionFailure, Prior, Row
  <2> QED
    BY <1>7, <2>1
<1> QED
  BY <1>2, <1>8, <1>9

LEMMA StagesSite ==
    ASSUME CrawlerInv, FillStaging
    PROVE  Promise!Stage
<1>1. /\ UNCHANGED indexVars /\ UNCHANGED hub
      /\ staging' = [state |-> "complete", occurrences |-> Snapshot] /\ pc = "write"
  BY DEF FillStaging
<1>2. StateInv /\ StateTypeOK /\ PhaseInv /\ RowsInv
  BY DEF CrawlerInv, StateInv
<1>3. Snapshot = Promise!Contents
  <2>1. Pending = {} /\ activeGeneration # 0
        /\ \A r \in DOMAIN repos : repos[r].gen = activeGeneration
    BY <1>1, <1>2 DEF RowsInv, PhaseInv
  <2>2. \A r \in DOMAIN repos : ~repos[r].eligible => files[r] = {}
    BY <1>2, <2>1 DEF RowsInv
  <2> QED
    BY <1>2, <2>1, <2>2, SnapshotIsPromised, ContentsArePromised
<1>4. activeGeneration # 0 /\ enumerated = "true"
  BY <1>1, <1>2 DEF PhaseInv
<1>5. Phase \in {"settling", "published"} /\ Phase' = Phase
  BY <1>1, <1>4 DEF Phase, indexVars
<1>6. ObservedIn(activeGeneration)' = ObservedIn(activeGeneration)
  BY <1>1 DEF ObservedIn, indexVars
<1> QED
  BY <1>1, <1>3, <1>4, <1>5, <1>6 DEF Promise!Stage, indexVars, Listed, CatalogEntry

LEMMA PublishesRound ==
    ASSUME CrawlerInv, CompleteGeneration
    PROVE  Promise!Publish \/ Promise!HubChanges
<1>1. /\ UNCHANGED <<repos, activeGeneration, enumerated, hub, staging>>
      /\ completedGeneration' = activeGeneration /\ pc = "complete"
      /\ enumerated = "true" /\ activeGeneration # 0
  BY DEF CompleteGeneration, MarkCompleted, catalogVars
<1>2. StateTypeOK /\ FreshGeneration /\ StagedExact
  BY DEF CrawlerInv, StateInv
<1>3. CASE completedGeneration = activeGeneration
  BY <1>1, <1>3, UnseenStep
<1>4. CASE completedGeneration # activeGeneration
  <2>1. completedGeneration' = completedGeneration + 1
    BY <1>1, <1>2, <1>4 DEF FreshGeneration
  <2>2. staging.state = "complete" /\ staging.occurrences = Promise!Contents
    BY <1>1, <1>2, ContentsArePromised DEF StagedExact
  <2>3. Phase = "settling" /\ Phase' = "published"
    BY <1>1, <1>4 DEF Phase
  <2>4. ObservedIn(activeGeneration)' = ObservedIn(activeGeneration)
    BY <1>1 DEF ObservedIn
  <2> QED
    BY <1>1, <2>1, <2>2, <2>3, <2>4 DEF Promise!Publish, Listed, CatalogEntry
<1> QED
  BY <1>3, <1>4

LEMMA ClosesRound ==
    ASSUME CrawlerInv, Retire
    PROVE  Promise!Close
<1>1. /\ UNCHANGED <<repos, completedGeneration, hub, staging>> /\ pc = "retire"
      /\ activeGeneration # 0 /\ completedGeneration = activeGeneration
      /\ activeGeneration' = 0
  BY DEF Retire, RetireGeneration, catalogVars
<1>2. StateTypeOK /\ StagedExact
  BY DEF CrawlerInv, StateInv
<1>3. staging.state = "complete" /\ staging.occurrences = Promise!Contents
  BY <1>1, <1>2, ContentsArePromised DEF StagedExact
<1>4. Phase = "published" /\ Phase' = "idle"
  BY <1>1 DEF Phase
<1> QED
  BY <1>1, <1>3, <1>4 DEF Promise!Close, Listed, CatalogEntry

LEMMA ClearingDiscards ==
    ASSUME ClearWorkspace
    PROVE  Promise!Discard
BY DEF ClearWorkspace, NoSite, indexVars, Promise!Discard, Phase, ObservedIn, Listed, CatalogEntry

\* Every step of the crawl is a step of a round, or is not seen.
LEMMA StepKeepsPromise ==
    ASSUME CrawlerInv, [Next]_vars
    PROVE  [Promise!Next]_(Promise!vars)
<1> USE DEF historyVars, locals, processVars, metadataVars
<1>t. TypeOK /\ PhaseInv /\ RowsInv
  BY DEF CrawlerInv
<1>1. CASE StartGeneration
  BY <1>1, OpensRound DEF Promise!Next
<1>2. CASE FetchPage
  BY <1>2, NotesPage, <1>t, FetchSteps DEF Promise!Next
<1>3. CASE Reconcile
  BY <1>3, ForgetsUnheard DEF Promise!Next
<1>4. CASE FlagEnumerated
  BY <1>4, SettlesRound DEF Promise!Next
<1>5. CASE Consume
  BY <1>5, WithdrawsOrNothing DEF Promise!Next
<1>6. CASE FillStaging
  BY <1>6, StagesSite DEF Promise!Next
<1>7. CASE CompleteGeneration
  BY <1>7, PublishesRound DEF Promise!Next
<1>8. CASE Retire
  BY <1>8, ClosesRound DEF Promise!Next
<1>9. CASE ClearWorkspace
  BY <1>9, ClearingDiscards DEF Promise!Next
<1>10. CASE ResetFlag
  <2>1. /\ UNCHANGED <<repos, activeGeneration, completedGeneration, staging>>
        /\ enumerated = "absent" /\ enumerated' = "false"
    BY <1>10 DEF ResetFlag, ResetEnumerated, catalogVars
  <2>2. Phase' = Phase
    BY <1>t, <2>1 DEF Phase, RowsInv
  <2>3. Promise!HubChanges
    BY <2>1, <2>2 DEF Promise!HubChanges, ObservedIn
  <2> QED
    BY <2>3 DEF Promise!Next
<1>11. CASE /\ UNCHANGED <<repos, activeGeneration, completedGeneration, enumerated>>
            /\ \/ staging' = staging
               \/ {staging.state, staging'.state} \subseteq {"none", "partial"}
  BY <1>11, UnseenStep DEF Promise!Next
<1>12. CASE ResumeGeneration \/ Crash
  BY <1>12, <1>11 DEF ResumeGeneration, Crash, indexVars
<1>13. CASE LeaveCatalog \/ SaveContinuation \/ DropContinuation
  BY <1>13, <1>11 DEF LeaveCatalog, SaveContinuation, DropContinuation, SetContinuation,
                      ClearContinuation, indexVars, catalogVars
<1>14. CASE LoadBatch \/ InspectionDeadline \/ SubmitGroup \/ Tally \/ RefuseStaging
  BY <1>14, <1>11 DEF LoadBatch, InspectionDeadline, SubmitGroup, Tally, RefuseStaging, indexVars
<1>15. CASE AnswerNext
  BY <1>t, <1>15, <1>11, AnswerSteps DEF indexVars
<1>16. CASE CreateStaging
  BY <1>16, <1>11 DEF CreateStaging, NoSite, indexVars
<1>17. CASE HubNext
  BY <1>t, <1>17, <1>11, HubSteps DEF TypeOK, indexVars
<1>18. CASE Exhausted \/ UNCHANGED vars
  BY <1>18, <1>11 DEF Exhausted, vars, indexVars
<1> QED
  BY <1>1, <1>2, <1>3, <1>4, <1>5, <1>6, <1>7, <1>8, <1>9, <1>10, <1>12, <1>13, <1>14,
     <1>15, <1>16, <1>17, <1>18 DEF Next, LifeNext, CatalogNext, InspectNext, PublishNext

\* What an older release indexed is known, and nothing is noted of it yet.
LEMMA InitKeepsPromise == Init => Promise!Init
<1> SUFFICES ASSUME Init PROVE Promise!Init
  OBVIOUS
<1> DEFINE old == [rev |-> NoRev, gated |-> FALSE, eligible |-> FALSE]
<1>1. PICK gates \in [DOMAIN Legacy -> BOOLEAN] :
         repos = [r \in DOMAIN Legacy |->
                     [NewRow EXCEPT !.rev = Legacy[r], !.gated = gates[r],
                                    !.status = "indexed"]]
  BY DEF Init, StateInit
<1>2. \A r \in DOMAIN Legacy : Noted(repos[r]) = old
  BY <1>1 DEF Noted, NewRow
<1>3. [r \in DOMAIN repos |-> Noted(repos[r])] = [r \in DOMAIN Legacy |-> old]
  BY <1>1, <1>2
<1>4. DOMAIN Legacy \in SUBSET Repos
  BY LegacyAssumption
<1>5. old \in Promise!Record /\ ~old.eligible
  BY DEF Promise!Record, Revs
<1>6. activeGeneration = 0 /\ completedGeneration = 0 /\ staging.state = "none"
  BY DEF Init, StateInit, NoSite
<1> HIDE DEF old
<1> QED
  BY <1>3, <1>4, <1>5, <1>6 DEF Promise!Init, Phase

\* The crawl, killed, resumed and answered late as it may be, keeps the promise of a round.
THEOREM ImplementsPromise == Spec => KeepsPromise
<1>1. CrawlerInv /\ [Next]_vars => [Promise!Next]_(Promise!vars)
  BY StepKeepsPromise
<1> QED
  BY <1>1, Invariance, InitKeepsPromise, PTL DEF Spec, KeepsPromise, Promise!Spec
=============================================================================
