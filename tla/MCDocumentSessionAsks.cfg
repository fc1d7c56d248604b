\* No faults: the first tab has recovered edits, the second was never saved.
SPECIFICATION Spec
CONSTANTS
    busy = busy
    other = other
    Docs <- MCDocs
    Windows = {first, second}
    FirstWindow = first
    Moving <- Nobody
    Generated <- OnlyOther
    Recovered <- OnlyBusy
    MaxRevision <- MCMaxRevision
    MaxSaves <- MCMaxSaves
    Faults <- NoFaults
INVARIANT
    ClosingAsks
CHECK_DEADLOCK FALSE
