SPECIFICATION Spec
CONSTANTS
    Digests <- Binary
    Occurrences = {1, 2, 3, 4, 5, 6, 7, 8}
    MinPrefix = 1
    MaxPrefix = 2
    Shared <- HalvesAndQuarters
    MaxShardSize = 4
    Repos = {1, 2, 3, 4, 5}
    Rows <- MCRows
    Rank <- MCRank
    CatalogLimit = 4
    Limits <- MCLimits
    RepoCap = 4
    Extra <- MCExtra
    RepoOf <- MCRepoOf
    Snapshots <- MCSnapshots
    Reported <- MCReported
    Calculated <- MCCalculated
    Size <- MCSize
    FileCap = 3
    SizeCap = 2
    TotalCap = 4
INVARIANTS
    ProofInv
    TopKept
    CorpusBounded
    SiteIsInspected
    LookupExact
    ShardsParse
    DownloadsBounded
    StopsForCause
