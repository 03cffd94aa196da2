CONSTANTS
    t1 = t1
    t2 = t2
    legend = legend
    NoOne = NoOne
    Threads <- MCThreads
    Archived <- MCArchived
    MaxHashes = 6
    MaxDepth = 3
    MaxSchema = 1
SYMMETRY Symmetry
SPECIFICATION SpecArchiveInBlock
INVARIANT BlockRollsBackTogether
