SPECIFICATION Spec
CONSTANTS
    Repos = {1, 2}
    Revisions <- MCRevisions
    NoRev = none
    Paths <- MCPaths
    Shas <- MCShas
    NoSha = none
    Content <- MCContent
    Legacy <- MCLegacy
    Generations = {1, 2}
    Stamps = {1, 2, 3}
    PageSize = 1
    PendingPage = 2
    Workers = 2
    InitialHubs <- MCHubs
    Unsha = {}
    Pushed = {1, 2}
    Regated = {1}
    Hidden = {2}
    a = a
    b = b
    p = p
    s = s
    t = t
    none = none
INVARIANT
    CrashSafeEnumeration
