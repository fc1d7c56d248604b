-------------------------- MODULE MCDocumentSession --------------------------
(* Two tabs for DocumentSession.tla: one to edit, save several times and move *)
(* to another window, and one with unsaved edits beside it.                   *)
EXTENDS DocumentSession

CONSTANTS busy, other

MCDocs == {busy, other}
MCMaxRevision == [d \in MCDocs |-> 1]
MCMaxSaves == [d \in MCDocs |-> IF d = busy THEN 2 ELSE 0]
AllFaults == {"SaveFails", "SaveWarns", "WriteFails", "SyncFails", "LoadFails", "ReleaseFails",
              "PickerFails", "EncodeFails", "PictureFails"}
FaultsOfBusy == [d \in MCDocs |-> IF d = busy THEN AllFaults ELSE {}]
NoFaults == [d \in MCDocs |-> {}]
OnlyBusy == {busy}
OnlyOther == {other}
Nobody == {}

=============================================================================
