SPECIFICATION Spec
CONSTANTS
    Digests <- Binary
    Occurrences = {1, 2}
    MinPrefix = 1
    MaxPrefix = 2
    Shared <- HalvesAndSingles
    MaxShardSize = 3
    Clients = {c1, c2}
    Queries = {1}
    Published <- OneThenTwoThenOne
    Versions <- FirstThree
    Misleading = {2}
    None = None
    Empty = Empty
    Garbled = Garbled
SYMMETRY
    Identical
INVARIANTS
    AnswersItsVersion
    RefreshSuffices
    RefreshedIsCurrent
    ClientInv
PROPERTIES
    KeepsPromise
