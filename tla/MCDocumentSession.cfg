\* A generated document with every fault, which moves between two windows, and a
\* recovered one, which is dirty from the start.
SPECIFICATION FairSpec
CONSTANTS
    busy = busy
    other = other
    Docs <- MCDocs
    Windows = {first, second}
    FirstWindow = first
    Moving <- OnlyBusy
    Generated <- OnlyBusy
    Recovered <- OnlyOther
    MaxRevision <- MCMaxRevision
    MaxSaves <- MCMaxSaves
    Faults <- FaultsOfBusy
INVARIANTS
    DocInv
    ClosedDocumentsAreSaved
    CheckpointCoversEdits
    NothingComesBack
PROPERTIES
    CloseSaveEnds
CHECK_DEADLOCK FALSE
