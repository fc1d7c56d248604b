\* Two documents, three transactions: every result may be late or repeated.
SPECIFICATION FairSpec
CONSTANTS
    d1 = d1
    d2 = d2
    Documents <- MCDocuments
    Snapshots <- MCSnapshots
    MaxTransactions = 3
INVARIANTS
    TypeOK
    SavedAllIsEarned
    ReleaseOnlyAfterCheckpoint
PROPERTIES
    OnlyTheLiveTransactionActs
    ImplementsContract
    DecidedCloseEnds
CHECK_DEADLOCK FALSE
