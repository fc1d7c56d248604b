\* No faults: two tabs are opened, and one of them moves to another window.
SPECIFICATION Spec
CONSTANTS
    busy = busy
    other = other
    Docs <- MCDocs
    Windows = {first, second}
    FirstWindow = first
    Moving <- OnlyBusy
    Generated <- OnlyOther
    Recovered <- Nobody
    MaxRevision <- MCMaxRevision
    MaxSaves <- MCMaxSaves
    Faults <- NoFaults
INVARIANT
    PreparationGoesOn
CHECK_DEADLOCK FALSE
