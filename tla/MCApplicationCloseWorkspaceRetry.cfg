\* One document, edited between a failed checkpoint and its retry.
SPECIFICATION WorkspaceSpec
CONSTANTS
    d1 = d1
    d2 = d2
    Documents <- MCDocuments
    Snapshots <- MCNone
    Generated <- MCNone
    Recovered <- MCNone
    OpenAtStart <- MCOneTab
    MaxTransactions = 2
    MaxRevision = 2
PROPERTIES
    DecisionCoversEdits
CHECK_DEADLOCK FALSE
