-------------------------- MODULE IndexStateProofs --------------------------
(* Proofs about the durable state: what its methods preserve, called in any order. *)
EXTENDS IndexState, TLAPS

-----------------------------------------------------------------------------
(* Facts about the operators *)

\* The file rows of a revision are well formed, and empty for a NULL one.
LEMMA FileRowsType ==
    ASSUME NEW r \in Repos, NEW rev \in Revs
    PROVE  FileRows(r, rev) \in SUBSET (Revisions \X File)
BY ContentAssumption DEF FileRows, Revs

\* A digest is a SHA-256 value, never the absent one.
LEMMA DigestsType ==
    ASSUME NEW rows \in SUBSET (Revisions \X File)
    PROVE  Digests(rows) \subseteq Shas
BY DEF Digests, File

\* The digests of a well-formed table are SHA-256 values.
LEMMA ReferencedType ==
    ASSUME NEW table \in [Repos -> SUBSET (Revisions \X File)]
    PROVE  Referenced(table) \subseteq Shas
BY DigestsType DEF Referenced

\* Removing file rows refers to no new digest.
LEMMA ReferencedMonotone ==
    ASSUME NEW old \in [Repos -> SUBSET (Revisions \X File)],
           NEW new \in [Repos -> SUBSET (Revisions \X File)],
           \A r \in Repos : new[r] \subseteq old[r]
    PROVE  Referenced(new) \subseteq Referenced(old)
BY DEF Referenced, Digests

\* A transaction that writes a table whose rows are old ones or add the digests
\* `added` leaves exactly the digests the table refers to.
LEMMA WriteFilesExact ==
    ASSUME NEW table \in [Repos -> SUBSET (Revisions \X File)], NEW added,
           NoOrphans, WriteFiles(table, added),
           Referenced(table) \subseteq Referenced(files) \union added
    PROVE  NoOrphans'
BY DEF NoOrphans, WriteFiles

\* The row of a repository, or the defaults, is a row.
LEMMA PriorType ==
    ASSUME StateTypeOK, NEW r \in Repos
    PROVE  Prior(r) \in Row
BY DEF StateTypeOK, Prior, NewRow, Row, Revs, Status

\* An observed row is a row.
LEMMA ObservedRowType ==
    ASSUME StateTypeOK, NEW r \in Repos, NEW e \in Entry, NEW g \in Generations
    PROVE  /\ ObservedRow(r, e, g) \in Row
           /\ ObservedRow(r, e, g).rev = Prior(r).rev
           /\ ObservedRow(r, e, g).gated = Prior(r).gated
           /\ ObservedRow(r, e, g).catRev = e.rev
           /\ ObservedRow(r, e, g).catGated = e.gated
           /\ ObservedRow(r, e, g).eligible = e.eligible
           /\ ObservedRow(r, e, g).gen = g
           /\ ObservedRow(r, e, g).status =
                 IF ~e.eligible THEN "excluded"
                 ELSE IF Prior(r).status \in {"excluded", "unavailable"} THEN "pending"
                 ELSE Prior(r).status
<1>1. Prior(r) \in Row
  BY PriorType
<1> QED
  BY <1>1 DEF ObservedRow, Row, Status, Entry

-----------------------------------------------------------------------------
(* One lemma per kind of transaction *)

\* Transactions that touch only the metadata table.
LEMMA MetadataPreserves ==
    ASSUME StateInv, UNCHANGED catalogVars,
           activeGeneration' \in Generations \union {0},
           completedGeneration' \in Generations \union {0},
           enumerated' \in {"absent", "false", "true"},
           nextUrl' \in Stamps \union {0}
    PROVE  StateInv'
<1>1. repos' = repos /\ files' = files /\ artifacts' = artifacts
  BY DEF catalogVars
<1>2. StateTypeOK'
  BY <1>1 DEF StateInv, StateTypeOK
<1>3. WholeRevision'
  BY <1>1 DEF StateInv, WholeRevision
<1>4. NoOrphans'
  BY <1>1 DEF StateInv, NoOrphans
<1>5. EligibleStatus'
  BY <1>1 DEF StateInv, EligibleStatus
<1> QED
  BY <1>2, <1>3, <1>4, <1>5 DEF StateInv

\* A page of catalog observations.
LEMMA CatalogPreserves ==
    ASSUME StateInv, NEW S \in SUBSET Repos, NEW seen \in [S -> Entry],
           NEW g \in Generations, RecordCatalogRepositories(seen, g)
    PROVE  StateInv'
<1>1. CASE DOMAIN seen = {} /\ UNCHANGED indexVars
  BY <1>1, MetadataPreserves DEF indexVars, catalogVars, StateInv, StateTypeOK
<1>2. CASE DOMAIN seen # {} /\ ~(DOMAIN seen = {} /\ UNCHANGED indexVars)
  <2> DEFINE table == FilesAfterCatalog(seen)
  <2>1. /\ repos' = [r \in DOMAIN repos \union S |->
                       IF r \in S THEN ObservedRow(r, seen[r], g) ELSE repos[r]]
        /\ WriteFiles(table, {})
        /\ UNCHANGED metadataVars
    BY <1>2 DEF RecordCatalogRepositories
  <2>2. /\ table \in [Repos -> SUBSET (Revisions \X File)]
        /\ \A r \in Repos : table[r] \in {{}, files[r]}
        /\ \A r \in Repos : r \in S /\ ~seen[r].eligible => table[r] = {}
        /\ \A r \in Repos : ~(r \in S /\ ~seen[r].eligible) => table[r] = files[r]
    BY DEF FilesAfterCatalog, StateInv, StateTypeOK
  <2>3. files' = table
    BY <2>1 DEF WriteFiles
  <2>4. DOMAIN repos' = DOMAIN repos \union S
    BY <2>1
  <2>5. \A r \in S : seen[r] \in Entry
    OBVIOUS
  <2>6. StateTypeOK'
    <3>1. \A r \in DOMAIN repos' : repos'[r] \in Row
      BY <2>1, <2>5, ObservedRowType DEF StateInv, StateTypeOK
    <3>2. artifacts' \subseteq Shas
      BY <2>1 DEF WriteFiles, StateInv, StateTypeOK
    <3> QED
      BY <2>1, <2>2, <2>3, <2>4, <3>1, <3>2 DEF StateInv, StateTypeOK, metadataVars
  <2>7. WholeRevision'
    <3>1. ASSUME NEW r \in DOMAIN repos'
          PROVE  /\ files'[r] \in {{}, FileRows(r, repos'[r].rev)}
                 /\ repos'[r].status = "indexed" => files'[r] = FileRows(r, repos'[r].rev)
      <4>1. r \in Repos
        BY <2>4 DEF StateInv, StateTypeOK
      <4>2. CASE r \notin S
        BY <4>1, <4>2, <2>1, <2>2, <2>3, <2>4 DEF StateInv, WholeRevision
      <4>3. CASE r \in S
        <5>1. /\ repos'[r].rev = Prior(r).rev
              /\ repos'[r].status = "indexed" =>
                    seen[r].eligible /\ Prior(r).status = "indexed"
          BY <4>1, <4>3, <2>1, <2>5, ObservedRowType DEF StateInv, Entry
        <5>2. /\ files[r] \in {{}, FileRows(r, Prior(r).rev)}
              /\ Prior(r).status = "indexed" => files[r] = FileRows(r, Prior(r).rev)
          BY <4>1 DEF StateInv, WholeRevision, Prior, NewRow
        <5> QED
          BY <4>1, <5>1, <5>2, <2>2, <2>3
      <4> QED
        BY <4>2, <4>3
    <3>2. \A r \in Repos \ DOMAIN repos' : files'[r] = {}
      BY <2>2, <2>3, <2>4 DEF StateInv, WholeRevision
    <3> QED
      BY <3>1, <3>2 DEF WholeRevision, FileRows
  <2>8. NoOrphans'
    <3>1. Referenced(table) \subseteq Referenced(files) \union {}
      BY <2>2, ReferencedMonotone DEF StateInv, StateTypeOK
    <3> QED
      BY <2>1, <2>2, <3>1, WriteFilesExact DEF StateInv
  <2>9. EligibleStatus'
    <3> SUFFICES ASSUME NEW r \in DOMAIN repos', repos'[r].eligible
                 PROVE  repos'[r].status \in {"pending", "indexed", "error"}
      BY DEF EligibleStatus
    <3>1. CASE r \notin S
      BY <3>1, <2>1, <2>4 DEF StateInv, EligibleStatus
    <3>2. CASE r \in S
      <4>1. Prior(r) \in Row
        BY <3>2, PriorType DEF StateInv
      <4> QED
        BY <3>2, <4>1, <2>1, <2>5, ObservedRowType DEF StateInv, Row, Status
    <3> QED
      BY <3>1, <3>2
  <2> QED
    BY <2>6, <2>7, <2>8, <2>9 DEF StateInv
<1> QED
  BY <1>1, <1>2 DEF RecordCatalogRepositories

\* The rows of other generations go, with their files.
LEMMA ReconcilePreserves ==
    ASSUME StateInv, NEW g, ReconcileRemovals(g)
    PROVE  StateInv'
<1> DEFINE table == [r \in Repos |-> IF r \in DOMAIN repos \ ObservedIn(g)
                                    THEN {} ELSE files[r]]
<1>1. /\ repos' = [r \in ObservedIn(g) |-> repos[r]]
      /\ WriteFiles(table, {})
      /\ UNCHANGED metadataVars
  BY DEF ReconcileRemovals
<1>2. /\ table \in [Repos -> SUBSET (Revisions \X File)]
      /\ \A r \in Repos : table[r] \subseteq files[r]
  BY DEF StateInv, StateTypeOK
<1>3. files' = table /\ artifacts' \subseteq artifacts
  BY <1>1 DEF WriteFiles
<1>4. /\ DOMAIN repos' = ObservedIn(g)
      /\ ObservedIn(g) \subseteq DOMAIN repos
      /\ \A r \in ObservedIn(g) : repos'[r] = repos[r]
  BY <1>1 DEF ObservedIn
<1>5. StateTypeOK'
  BY <1>1, <1>2, <1>3, <1>4 DEF StateInv, StateTypeOK, metadataVars
<1>6. WholeRevision'
  <2>1. \A r \in ObservedIn(g) : files'[r] = files[r]
    BY <1>3, <1>4 DEF StateInv, StateTypeOK
  <2>2. \A r \in Repos \ ObservedIn(g) : files'[r] = {}
    BY <1>3, <1>4 DEF StateInv, WholeRevision
  <2> QED
    BY <1>4, <2>1, <2>2 DEF StateInv, WholeRevision
<1>7. NoOrphans'
  <2>1. Referenced(table) \subseteq Referenced(files) \union {}
    BY <1>2, ReferencedMonotone DEF StateInv, StateTypeOK
  <2> QED
    BY <1>1, <1>2, <2>1, WriteFilesExact DEF StateInv
<1>8. EligibleStatus'
  BY <1>4 DEF StateInv, EligibleStatus
<1> QED
  BY <1>5, <1>6, <1>7, <1>8 DEF StateInv

\* A failed inspection changes a status and nothing else.
LEMMA FailurePreserves ==
    ASSUME StateInv, NEW r \in Repos, RecordInspectionFailure(r)
    PROVE  StateInv'
<1>1. /\ DOMAIN repos' = DOMAIN repos
      /\ \A q \in DOMAIN repos : q # r => repos'[q] = repos[q]
      /\ r \in DOMAIN repos => repos'[r] = [repos[r] EXCEPT !.status = "error"]
  BY DEF RecordInspectionFailure
<1>2. UNCHANGED <<files, artifacts, activeGeneration, completedGeneration, enumerated,
                  nextUrl>>
  BY DEF RecordInspectionFailure, metadataVars
<1>3. r \in DOMAIN repos => /\ repos'[r] \in Row
                            /\ repos'[r].rev = repos[r].rev
                            /\ repos'[r].status = "error"
  BY <1>1 DEF StateInv, StateTypeOK, Row, Status
<1>4. StateTypeOK'
  BY <1>1, <1>2, <1>3 DEF StateInv, StateTypeOK
<1>5. WholeRevision'
  BY <1>1, <1>2, <1>3 DEF StateInv, WholeRevision
<1>6. NoOrphans'
  BY <1>2 DEF StateInv, NoOrphans
<1>7. EligibleStatus'
  BY <1>1, <1>3 DEF StateInv, EligibleStatus
<1> QED
  BY <1>4, <1>5, <1>6, <1>7 DEF StateInv

\* An unavailable repository loses its files and its eligibility together.
LEMMA UnavailablePreserves ==
    ASSUME StateInv, NEW r \in Repos, NEW rev \in Revs, NEW gated \in BOOLEAN,
           RecordRepositoryUnavailable(r, rev, gated)
    PROVE  StateInv'
<1> DEFINE table == [q \in Repos |-> IF q = r /\ r \in DOMAIN repos THEN {} ELSE files[q]]
<1>1. /\ DOMAIN repos' = DOMAIN repos
      /\ \A q \in DOMAIN repos : q # r => repos'[q] = repos[q]
      /\ r \in DOMAIN repos =>
            repos'[r] = [repos[r] EXCEPT !.rev = rev, !.gated = gated,
                                         !.eligible = FALSE, !.status = "unavailable"]
  BY DEF RecordRepositoryUnavailable
<1>2. WriteFiles(table, {}) /\ UNCHANGED metadataVars
  BY DEF RecordRepositoryUnavailable
<1>3. r \in DOMAIN repos => /\ repos'[r] \in Row
                            /\ repos'[r].status = "unavailable"
                            /\ ~repos'[r].eligible
  BY <1>1 DEF StateInv, StateTypeOK, Row, Status
<1>4. /\ table \in [Repos -> SUBSET (Revisions \X File)]
      /\ \A q \in Repos : table[q] \subseteq files[q]
  BY DEF StateInv, StateTypeOK
<1>5. files' = table /\ artifacts' \subseteq artifacts
  BY <1>2 DEF WriteFiles
<1>6. StateTypeOK'
  BY <1>1, <1>2, <1>3, <1>4, <1>5 DEF StateInv, StateTypeOK, metadataVars
<1>7. WholeRevision'
  <2>1. \A q \in Repos : q # r => files'[q] = files[q]
    BY <1>5
  <2>2. files'[r] = {}
    BY <1>5 DEF StateInv, WholeRevision
  <2> QED
    BY <1>1, <1>3, <2>1, <2>2 DEF StateInv, WholeRevision, StateTypeOK
<1>8. NoOrphans'
  <2>1. Referenced(table) \subseteq Referenced(files) \union {}
    BY <1>4, ReferencedMonotone DEF StateInv, StateTypeOK
  <2> QED
    BY <1>2, <1>4, <2>1, WriteFilesExact DEF StateInv
<1>9. EligibleStatus'
  BY <1>1, <1>3 DEF StateInv, EligibleStatus
<1> QED
  BY <1>6, <1>7, <1>8, <1>9 DEF StateInv

\* A replacement leaves the row with exactly the files of its new revision.
LEMMA ReplacePreserves ==
    ASSUME StateInv, NEW r \in Repos, NEW rev \in Revisions, NEW gated \in BOOLEAN,
           ReplaceRepo(r, rev, gated)
    PROVE  StateInv'
<1> DEFINE table == ReplaceFiles(r, rev)
           row == [Prior(r) EXCEPT !.rev = rev, !.gated = gated, !.status = "indexed"]
<1>1. /\ DOMAIN repos' = DOMAIN repos \union {r}
      /\ \A q \in DOMAIN repos : q # r => repos'[q] = repos[q]
      /\ repos'[r] = row
  BY DEF ReplaceRepo
<1>2. WriteFiles(table, Digests(FileRows(r, rev))) /\ UNCHANGED metadataVars
  BY DEF ReplaceRepo
<1>3. row \in Row /\ row.rev = rev /\ row.status = "indexed"
  <2>1. Prior(r) \in Row
    BY PriorType DEF StateInv
  <2> QED
    BY <2>1 DEF Row, Revs, Status
<1>4. FileRows(r, rev) \in SUBSET (Revisions \X File)
  BY FileRowsType DEF Revs
<1>5. /\ table \in [Repos -> SUBSET (Revisions \X File)]
      /\ table[r] = FileRows(r, rev)
      /\ \A q \in Repos : q # r => table[q] = files[q]
  BY <1>4 DEF ReplaceFiles, StateInv, StateTypeOK
<1>6. files' = table
  BY <1>2 DEF WriteFiles
<1>7. StateTypeOK'
  <2>1. artifacts' \subseteq Shas
    BY <1>2, <1>4, DigestsType DEF WriteFiles, StateInv, StateTypeOK
  <2> QED
    BY <1>1, <1>2, <1>3, <1>5, <1>6, <2>1 DEF StateInv, StateTypeOK, metadataVars
<1>8. WholeRevision'
  BY <1>1, <1>3, <1>5, <1>6 DEF StateInv, WholeRevision, StateTypeOK
<1>9. NoOrphans'
  <2>1. Referenced(table) \subseteq Referenced(files) \union Digests(FileRows(r, rev))
    BY <1>5 DEF Referenced
  <2> QED
    BY <1>2, <1>5, <2>1, WriteFilesExact DEF StateInv
<1>10. EligibleStatus'
  BY <1>1, <1>3 DEF StateInv, EligibleStatus
<1> QED
  BY <1>7, <1>8, <1>9, <1>10 DEF StateInv

-----------------------------------------------------------------------------
(* The invariant *)

\* An empty database and one of an older release satisfy the invariant.
LEMMA StateInitInv == StateInit => StateInv
<1> SUFFICES ASSUME StateInit PROVE StateInv
  OBVIOUS
<1>1. PICK gates \in [DOMAIN Legacy -> BOOLEAN] :
         repos = [r \in DOMAIN Legacy |->
                     [NewRow EXCEPT !.rev = Legacy[r], !.gated = gates[r],
                                    !.status = "indexed"]]
  BY DEF StateInit
<1>2. \A r \in DOMAIN Legacy : /\ r \in Repos
                               /\ Legacy[r] \in Revs
                               /\ FileRows(r, Legacy[r]) \in SUBSET (Revisions \X File)
  BY LegacyAssumption, FileRowsType DEF Revs
<1>3. DOMAIN repos = DOMAIN Legacy
  BY <1>1
<1>4. \A r \in DOMAIN Legacy : /\ repos[r] \in Row
                               /\ repos[r].rev = Legacy[r]
                               /\ repos[r].eligible = FALSE
  BY <1>1, <1>2 DEF NewRow, Row, Revs, Status
<1>5. files \in [Repos -> SUBSET (Revisions \X File)]
  BY <1>2 DEF StateInit
<1>6. artifacts \subseteq Shas
  BY <1>5, ReferencedType DEF StateInit
<1>7. StateTypeOK
  BY <1>2, <1>3, <1>4, <1>5, <1>6 DEF StateInit, StateTypeOK
<1>8. WholeRevision
  BY <1>2, <1>3, <1>4 DEF StateInit, WholeRevision
<1>9. NoOrphans
  BY DEF StateInit, NoOrphans
<1>10. EligibleStatus
  BY <1>3, <1>4 DEF EligibleStatus
<1> QED
  BY <1>7, <1>8, <1>9, <1>10 DEF StateInv

\* Every method, called with any arguments, preserves the invariant.
LEMMA StateNextInv == StateInv /\ [StateNext]_indexVars => StateInv'
<1> SUFFICES ASSUME StateInv, [StateNext]_indexVars PROVE StateInv'
  OBVIOUS
<1> USE DEF catalogVars, metadataVars
<1>t. StateTypeOK
  BY DEF StateInv
<1>1. CASE OpenGeneration
  BY <1>1, <1>t, MetadataPreserves DEF OpenGeneration, StateTypeOK
<1>2. CASE ResetEnumerated
  BY <1>2, <1>t, MetadataPreserves DEF ResetEnumerated, StateTypeOK
<1>3. ASSUME NEW S \in SUBSET Repos, NEW seen \in [S -> Entry], activeGeneration # 0,
             RecordCatalogRepositories(seen, activeGeneration)
      PROVE  StateInv'
  <2>1. activeGeneration \in Generations
    BY <1>3, <1>t DEF StateTypeOK
  <2> QED
    BY <1>3, <2>1, CatalogPreserves
<1>4. ASSUME NEW url \in Stamps, SetContinuation(url)
      PROVE  StateInv'
  BY <1>4, <1>t, MetadataPreserves DEF SetContinuation, StateTypeOK
<1>5. CASE ReconcileRemovals(activeGeneration)
  BY <1>5, ReconcilePreserves
<1>6. CASE MarkEnumerated
  BY <1>6, <1>t, MetadataPreserves DEF MarkEnumerated, StateTypeOK
<1>7. CASE ClearContinuation
  BY <1>7, <1>t, MetadataPreserves DEF ClearContinuation, StateTypeOK
<1>8. CASE MarkCompleted
  BY <1>8, <1>t, MetadataPreserves DEF MarkCompleted, StateTypeOK
<1>9. CASE RetireGeneration
  BY <1>9, <1>t, MetadataPreserves DEF RetireGeneration, StateTypeOK
<1>10. CASE InspectionNext
  <2> PICK r \in Repos :
        \/ RecordInspectionFailure(r)
        \/ \E rev \in Revs, gated \in BOOLEAN : RecordRepositoryUnavailable(r, rev, gated)
        \/ \E rev \in Revisions, gated \in BOOLEAN : ReplaceRepo(r, rev, gated)
    BY <1>10 DEF InspectionNext
  <2> QED
    BY FailurePreserves, UnavailablePreserves, ReplacePreserves
<1>11. CASE UNCHANGED indexVars
  BY <1>11, <1>t, MetadataPreserves DEF indexVars, StateTypeOK
<1> QED
  BY <1>1, <1>2, <1>3, <1>4, <1>5, <1>6, <1>7, <1>8, <1>9, <1>10, <1>11
     DEF StateNext, GenerationNext

\* A row the pending query skips is current: the revision it was indexed at is the
\* catalog's, and an indexed row has exactly the files of its revision.
LEMMA InvSettled == StateInv => SettledIsCurrent
BY DEF StateInv, StateTypeOK, WholeRevision, EligibleStatus, SettledIsCurrent, PendingRow, Row

\* Whatever the methods of IndexState are called for, in whatever order and with
\* whatever arguments their own checks accept, the tables stay well formed.
THEOREM StateTyped == StateSpec => []StateInv
<1>1. StateInit => StateInv
  BY StateInitInv
<1>2. StateInv /\ [StateNext]_indexVars => StateInv'
  BY StateNextInv
<1> QED
  BY <1>1, <1>2, PTL DEF StateSpec
=============================================================================
