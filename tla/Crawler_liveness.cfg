SPECIFICATION FairSpec
CONSTANTS
    Repos = {1, 2}
    Revisions <- MCRevisions
    NoRev = none
    Paths <- MCPaths
    Shas <- MCShas
    NoSha = none
    Content <- MCContent
    Legacy <- NoLegacy
    Generations = {1}
    Stamps = {1, 2}
    PageSize = 1
    PendingPage = 1
    Workers = 1
    InitialHubs <- OneHub
    Unsha = {}
    Pushed = {}
    Regated = {1}
    Hidden = {2}
    a = a
    b = b
    p = p
    s = s
    t = t
    none = none
PROPERTIES
    GenerationPublishes
