\* Two open documents, the second without a file yet.
SPECIFICATION WorkspaceSpec
CONSTANTS
    d1 = d1
    d2 = d2
    Documents <- MCDocuments
    Snapshots <- MCNone
    Generated <- MCSecond
    Recovered <- MCNone
    OpenAtStart <- MCTwoTabs
    MaxTransactions = 2
    MaxRevision = 3
INVARIANTS
    WorkspaceInv
    AlertCanBeResumed
PROPERTIES
    FirstAttemptCoversEdits
    SavedAllIsOnDisk
CHECK_DEADLOCK FALSE
