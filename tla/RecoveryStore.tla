---------------------------- MODULE RecoveryStore ----------------------------
(***************************************************************************)
(* The crash-recovery store of document_recovery_store.rs on a disk that   *)
(* may lose power.                                                         *)
(*                                                                         *)
(* An index file names the active recoveries, a head file per recovery     *)
(* names its base PDF and its timeline, and both are objects, files named  *)
(* by their digest.  Files are synced before they are renamed into place;  *)
(* a rename or a removal is sure only once its directory is synced.  So    *)
(* every directory entry has a value that programs see, and a set of       *)
(* values that the disk may hold: what was there at the last sync of its   *)
(* directory and whatever was put there since.                             *)
(*                                                                         *)
(* Operations run under the store's lease, one at a time and step by step; *)
(* the lease is free while a base PDF is streamed into the staging         *)
(* directory.  A base PDF and a timeline are contents; a head's revision   *)
(* is its timeline's.  Recovery identifiers are random and never reused.   *)
(***************************************************************************)
EXTENDS Naturals, Sequences, FiniteSets

CONSTANTS
    Ids,              \* recovery identifiers
    Bases,            \* for each identifier, the base PDFs its document may have
    Timelines,        \* for each identifier, the timelines its document may have
    MaxActive,        \* MAX_ACTIVE_DOCUMENTS
    MaxSequence,      \* bound on checkpoint sequences
    MaxOpenings,      \* bound on how often the program starts
    Faults            \* which of "Exit", "Kill", "PowerLoss", "WriteFails", "SyncFails" happen

ASSUME StoreAssumption == MaxSequence \in Nat \ {0}

Objects == UNION {Bases[id] \cup Timelines[id] : id \in Ids}

VARIABLES
    index, heads, objects,   \* the directory entries as programs see them
    disk,                    \* the values each of them may have after a power loss
    op,                      \* the operation that holds the store's lease
    staged,                  \* the operation that streams a base PDF
    store,                   \* "Closed": the program does not run; "Opening", "Open";
                             \* "Blocked": a head is missing; "Unavailable": it failed to open
    status,                  \* what became of each recovery, see Statuses
    authority,               \* the head its session holds, as a RecoveryAuthority
    openings,                \* how often the program has started
    restartedUnsynced        \* history: it once started on entries not yet synced

entries == <<index, heads, objects, disk>>
session == <<status, authority>>
vars == <<entries, op, staged, store, session, openings, restartedUnsynced>>

NoHead == [sequence |-> 0]
Heads == UNION {[sequence : 1 .. MaxSequence, base : Bases[id], timeline : Timelines[id]] : id \in Ids}

\* "Unused": never published; "Ready", "Ambiguous": DocumentRecoveryPreparation;
\* "Failed": not published; "Closing": being retired; "Retained": retiring it
\* failed; "Cleared": its retirement was acknowledged; "Gone": not found again.
Statuses == {"Unused", "Ready", "Ambiguous", "Failed", "Closing", "Retained", "Cleared", "Gone"}

Free == [kind |-> "Free"]
NotStaging == [kind |-> "Free"]

\* Whether the objects a head names are there.
Complete(head) == head # NoHead /\ {head.base, head.timeline} \subseteq objects

\* A compare-and-swap token names the sequence and the timeline, not the base.
SameCheckpoint(head, token) ==
    head # NoHead /\ head.sequence = token.sequence /\ head.timeline = token.timeline

\* require_current_authority
Current(id, token) == id \in index /\ SameCheckpoint(heads[id], token)

Referenced == UNION {{heads[id].base, heads[id].timeline} : id \in index}

StoreTypeOK ==
    /\ index \in SUBSET Ids
    /\ heads \in [Ids -> Heads \cup {NoHead}]
    /\ objects \in SUBSET Objects
    /\ index \in disk.index
    /\ \A id \in Ids : heads[id] \in disk.heads[id]
    /\ \A object \in Objects : (object \in objects) \in disk.objects[object]
    /\ op.kind \in {"Free", "Publish", "Replace", "Rebase", "Clear", "Confirm", "Collect"}
    /\ store \in {"Closed", "Opening", "Open", "Unavailable", "Blocked"}
    /\ staged.kind = "Publish" => status[staged.id] = "Unused"
    /\ op.kind = "Collect" <=> store = "Opening"
    /\ status \in [Ids -> Statuses]
    /\ \A id \in Ids : status[id] \in {"Ready", "Ambiguous"} => authority[id] \in Heads
    /\ restartedUnsynced \in BOOLEAN

Init ==
    /\ index = {} /\ heads = [id \in Ids |-> NoHead] /\ objects = {}
    /\ disk = [index |-> {{}}, heads |-> [id \in Ids |-> {NoHead}],
               objects |-> [object \in Objects |-> {FALSE}]]
    /\ op = Free /\ staged = NotStaging
    /\ store = "Closed" /\ openings = 0
    /\ status = [id \in Ids |-> "Unused"]
    /\ authority = [id \in Ids |-> NoHead]
    /\ restartedUnsynced = FALSE

-----------------------------------------------------------------------------
(* Directory entries.                                                      *)

SetIndex(active) ==
    /\ index' = active
    /\ disk' = [disk EXCEPT !.index = @ \cup {active}]
    /\ UNCHANGED <<heads, objects>>

SetHead(id, head) ==
    /\ heads' = [heads EXCEPT ![id] = head]
    /\ disk' = [disk EXCEPT !.heads[id] = @ \cup {head}]
    /\ UNCHANGED <<index, objects>>

AddObject(object) ==
    /\ objects' = objects \cup {object}
    /\ disk' = [disk EXCEPT !.objects[object] = @ \cup {TRUE}]
    /\ UNCHANGED <<index, heads>>

SyncedIndex == {index}
SyncedHeads == [id \in Ids |-> {heads[id]}]
SyncedObjects == [object \in Objects |-> IF object \in objects THEN {TRUE} ELSE {FALSE}]

\* remove_object_if_unreferenced: nothing happens when a head cannot be read.
RemoveUnreferenced(object) ==
    /\ IF object \notin objects \/ (\E id \in index : heads[id] = NoHead) \/ object \in Referenced
       THEN UNCHANGED <<objects, disk>>
       ELSE /\ objects' = objects \ {object}
            /\ disk' = [disk EXCEPT !.objects[object] = @ \cup {FALSE}]
    /\ UNCHANGED <<index, heads>>

-----------------------------------------------------------------------------
(* What each operation does under the lease, in order.                     *)

\* Bug: the head is published before the timeline it names.
HeadBeforeTimeline == <<"RenameHead", "SyncHeads", "StoreTimeline", "SyncObjects">>

BaseSteps == <<"StoreBase", "SyncObjects">>
HeadSteps == <<"StoreTimeline", "SyncObjects", "RenameHead", "SyncHeads">>
IndexSteps == <<"RenameIndex", "SyncStore">>
DropSteps == <<"DropBase", "DropTimeline">>

\* Bug: the index is not synced before the files go.
ClearWithoutSync ==
    <<"RenameIndex", "RemoveHead">> \o DropSteps \o <<"TrySyncHeads", "TrySyncObjects">>

\* Bug: the files go first and the index entry last.
ClearFilesFirst == <<"RemoveHead">> \o DropSteps \o <<"TrySyncHeads", "TrySyncObjects">> \o IndexSteps

ClearSteps == IndexSteps \o <<"RemoveHead">> \o DropSteps \o <<"TrySyncHeads", "TrySyncObjects">>
CollectSteps == <<"SweepHeads", "SweepObjects", "SyncHeads", "SyncObjects">>

ConfirmSteps == <<"SyncObjects", "SyncHeads", "SyncStore">>

Steps ==
    [Publish |-> BaseSteps \o HeadSteps \o IndexSteps,
     Replace |-> <<"SyncObjects">> \o HeadSteps \o DropSteps,
     Rebase  |-> BaseSteps \o HeadSteps \o DropSteps,
     Clear   |-> ClearSteps,
     Confirm |-> ConfirmSteps,
     Collect |-> CollectSteps]

Begin(kind, id, next) ==
    /\ op' = [kind |-> kind, id |-> id, next |-> next, old |-> heads[id], at |-> 1]
    /\ UNCHANGED entries

Idle == store = "Open" /\ op = Free

\* The operation's current step.
Doing(step) == op # Free /\ Steps[op.kind][op.at] = step

-----------------------------------------------------------------------------
(* The operations, up to their first step.                                 *)

\* stage_and_publish_new, publish_new and rebase: an identifier or an authority
\* is looked up under the lease, then the base PDF is streamed without it.
StageNew(id) ==
    /\ Idle /\ staged = NotStaging /\ status[id] = "Unused"
    /\ Cardinality(index) < MaxActive
    /\ staged' = [kind |-> "Publish", id |-> id]
    /\ UNCHANGED <<entries, op, store, session, openings, restartedUnsynced>>

StageRebase(id) ==
    /\ Idle /\ staged = NotStaging /\ status[id] = "Ready"
    /\ Current(id, authority[id])
    /\ staged' = [kind |-> "Rebase", id |-> id, expected |-> authority[id]]
    /\ UNCHANGED <<entries, op, store, session, openings, restartedUnsynced>>

\* The staged operation takes the lease again.
BeginPublish(base, timeline) ==
    /\ Idle /\ staged.kind = "Publish"
    /\ base \in Bases[staged.id] /\ timeline \in Timelines[staged.id]
    /\ staged' = NotStaging
    /\ IF Cardinality(index) < MaxActive
       THEN /\ Begin("Publish", staged.id, [sequence |-> 1, base |-> base, timeline |-> timeline])
            /\ UNCHANGED session
       ELSE /\ status' = [status EXCEPT ![staged.id] = "Failed"]
            /\ UNCHANGED <<entries, op, authority>>
    /\ UNCHANGED <<store, openings, restartedUnsynced>>

\* Bug: the authority is not looked at again after the streaming.
BeginRebaseUnchecked(base, timeline) ==
    /\ Idle /\ staged.kind = "Rebase"
    /\ base \in Bases[staged.id] /\ timeline \in Timelines[staged.id]
    /\ staged.expected.sequence < MaxSequence
    /\ staged' = NotStaging
    /\ Begin("Rebase", staged.id, [sequence |-> staged.expected.sequence + 1,
                                   base |-> base, timeline |-> timeline])
    /\ UNCHANGED <<store, session, openings, restartedUnsynced>>

\* rebase_after_save and rebind_after_copy_recovery
BeginRebase(base, timeline) ==
    /\ Idle /\ staged.kind = "Rebase"
    /\ base \in Bases[staged.id] /\ timeline \in Timelines[staged.id]
    /\ staged.expected.sequence < MaxSequence
    /\ staged' = NotStaging
    /\ IF Current(staged.id, staged.expected)
       THEN Begin("Rebase", staged.id, [sequence |-> staged.expected.sequence + 1,
                                        base |-> base, timeline |-> timeline])
       ELSE UNCHANGED <<entries, op>>
    /\ UNCHANGED <<store, session, openings, restartedUnsynced>>

\* replace_timeline: an edit, undo or redo.  The same timeline again is confirmed;
\* a stale authority changes nothing in the store.
Replace(id, timeline) ==
    /\ Idle /\ status[id] = "Ready" /\ timeline \in Timelines[id]
    /\ Current(id, authority[id]) /\ heads[id].base \in objects
    /\ authority[id].sequence < MaxSequence
    /\ IF timeline = authority[id].timeline
       THEN timeline \in objects /\ Begin("Confirm", id, heads[id])
       ELSE Begin("Replace", id, [sequence |-> heads[id].sequence + 1, base |-> heads[id].base,
                                  timeline |-> timeline])
    /\ UNCHANGED <<staged, store, session, openings, restartedUnsynced>>

\* confirm_authority_durable
Confirm(id) ==
    /\ Idle /\ status[id] = "Ambiguous"
    /\ Current(id, authority[id]) /\ Complete(heads[id])
    /\ Begin("Confirm", id, heads[id])
    /\ UNCHANGED <<staged, store, session, openings, restartedUnsynced>>

\* clear_authority: the document is closed, or found clean at startup.
Clear(id) ==
    /\ Idle /\ status[id] \in {"Ready", "Ambiguous"}
    /\ IF Current(id, authority[id])
       THEN /\ Begin("Clear", id, heads[id])
            /\ status' = [status EXCEPT ![id] = "Closing"]
       ELSE /\ status' = [status EXCEPT ![id] = "Retained"]
            /\ UNCHANGED <<entries, op>>
    /\ UNCHANGED <<staged, store, authority, openings, restartedUnsynced>>

-----------------------------------------------------------------------------
(* One step under the lease.                                               *)

Perform ==
    \/ Doing("StoreBase") /\ AddObject(op.next.base)
    \/ Doing("StoreTimeline") /\ AddObject(op.next.timeline)
    \/ Doing("RenameHead") /\ SetHead(op.id, op.next)
    \/ Doing("RemoveHead") /\ SetHead(op.id, NoHead)
    \/ Doing("RenameIndex")
       /\ SetIndex(IF op.kind = "Publish" THEN index \cup {op.id} ELSE index \ {op.id})
    \/ Doing("DropBase") /\ RemoveUnreferenced(op.old.base)
    \/ Doing("DropTimeline") /\ RemoveUnreferenced(op.old.timeline)
    \/ (Doing("SyncObjects") \/ Doing("TrySyncObjects"))
       /\ disk' = [disk EXCEPT !.objects = SyncedObjects] /\ UNCHANGED <<index, heads, objects>>
    \/ (Doing("SyncHeads") \/ Doing("TrySyncHeads"))
       /\ disk' = [disk EXCEPT !.heads = SyncedHeads] /\ UNCHANGED <<index, heads, objects>>
    \/ Doing("SyncStore")
       /\ disk' = [disk EXCEPT !.index = SyncedIndex] /\ UNCHANGED <<index, heads, objects>>

\* What the session learns when its operation ends.
Learn(id, newStatus, head) ==
    IF status[id] \in {"Ready", "Ambiguous", "Unused"}
    THEN status' = [status EXCEPT ![id] = newStatus] /\ authority' = [authority EXCEPT ![id] = head]
    ELSE UNCHANGED session

Succeed ==
    \/ op.kind # "Clear" /\ Learn(op.id, "Ready", op.next)
    \/ op.kind = "Clear" /\ status' = [status EXCEPT ![op.id] = "Cleared"] /\ UNCHANGED authority

Step ==
    /\ store = "Open" /\ Perform
    /\ IF op.at = Len(Steps[op.kind])
       THEN op' = Free /\ Succeed
       ELSE op' = [op EXCEPT !.at = @ + 1] /\ UNCHANGED session
    /\ UNCHANGED <<staged, store, openings, restartedUnsynced>>

Writes == {"StoreBase", "StoreTimeline", "RenameHead", "RenameIndex"}

\* A write or a sync fails and ends its operation.  When the published head or
\* index could not be synced, the session loads what is there: its own checkpoint
\* (when it cannot load it, see "Unloaded" in DocumentSession.tla).  A session whose
\* unchanged timeline could not be confirmed stays "Ready" here, which promises more
\* than the "Ambiguous" it becomes in the code.
Fail ==
    /\ store = "Open"
    /\ \/ "WriteFails" \in Faults /\ \E step \in Writes : Doing(step)
       \/ "SyncFails" \in Faults /\ \E step \in {"SyncObjects", "SyncHeads", "SyncStore"} : Doing(step)
    /\ op' = Free
    /\ \/ /\ op.kind = "Publish"
          /\ Learn(op.id, IF op.id \in index THEN "Ambiguous" ELSE "Failed", op.next)
       \/ /\ op.kind \in {"Replace", "Rebase"}
          /\ IF heads[op.id] = op.next THEN Learn(op.id, "Ambiguous", op.next)
                                      ELSE UNCHANGED session
       \/ op.kind = "Clear" /\ status' = [status EXCEPT ![op.id] = "Retained"] /\ UNCHANGED authority
       \/ op.kind = "Confirm" /\ UNCHANGED session
    /\ UNCHANGED <<entries, staged, store, openings, restartedUnsynced>>

Removals == {"RemoveHead", "DropBase", "DropTimeline"}

\* It is ignored that a file which is not needed any more could not be removed, and,
\* by clear, that the directories could not be synced.
PassOver ==
    /\ store = "Open"
    /\ \/ "WriteFails" \in Faults /\ \E step \in Removals : Doing(step)
       \/ "SyncFails" \in Faults /\ (Doing("TrySyncHeads") \/ Doing("TrySyncObjects"))
    /\ IF op.at = Len(Steps[op.kind])
       THEN op' = Free /\ Succeed
       ELSE op' = [op EXCEPT !.at = @ + 1] /\ UNCHANGED session
    /\ UNCHANGED <<entries, staged, store, openings, restartedUnsynced>>

-----------------------------------------------------------------------------
(* The program starts and ends.                                            *)

\* What a session finds after the store was opened.
Found(id) ==
    IF id \in index
    THEN IF Complete(heads[id]) THEN "Ready" ELSE "Gone"
    ELSE IF status[id] \in {"Unused", "Cleared", "Failed"} THEN status[id] ELSE "Gone"

\* What opening reads may still be lost: the index, a head or an object it names.
Unsynced ==
    \/ disk.index # SyncedIndex \/ disk.heads # SyncedHeads
    \/ \E id \in index : /\ heads[id] # NoHead
                         /\ \E object \in {heads[id].base, heads[id].timeline} :
                               disk.objects[object] # SyncedObjects[object]

\* open: the index and every head it names are read, then orphans are swept.
Open ==
    /\ store = "Closed" /\ openings < MaxOpenings
    /\ openings' = openings + 1
    /\ restartedUnsynced' = (restartedUnsynced \/ Unsynced)
    /\ IF \E id \in index : heads[id] = NoHead
       THEN store' = "Blocked" /\ UNCHANGED op
       ELSE store' = "Opening" /\ op' = [kind |-> "Collect", at |-> 1, swept |-> {}]
    /\ UNCHANGED <<entries, staged, session>>

OrphanHeads == {id \in Ids \ index : heads[id] # NoHead}
OrphanObjects == objects \ Referenced

\* The directories from which the current step removes something.
Sweeps == {part \in {"heads", "objects"} :
              \/ part = "heads" /\ Doing("SweepHeads") /\ OrphanHeads # {}
              \/ part = "objects" /\ Doing("SweepObjects") /\ OrphanObjects # {}}

\* A directory is synced only when something was removed from it.
Collect ==
    \/ /\ Doing("SweepHeads")
       /\ heads' = [id \in Ids |-> IF id \in OrphanHeads THEN NoHead ELSE heads[id]]
       /\ disk' = [disk EXCEPT !.heads =
                     [id \in Ids |-> IF id \in OrphanHeads THEN @[id] \cup {NoHead} ELSE @[id]]]
       /\ UNCHANGED <<index, objects>>
    \/ /\ Doing("SweepObjects")
       /\ objects' = objects \cap Referenced
       /\ disk' = [disk EXCEPT !.objects =
                     [o \in Objects |-> IF o \in OrphanObjects THEN @[o] \cup {FALSE} ELSE @[o]]]
       /\ UNCHANGED <<index, heads>>
    \/ /\ Doing("SyncHeads")
       /\ disk' = IF "heads" \in op.swept THEN [disk EXCEPT !.heads = SyncedHeads] ELSE disk
       /\ UNCHANGED <<index, heads, objects>>
    \/ /\ Doing("SyncObjects")
       /\ disk' = IF "objects" \in op.swept THEN [disk EXCEPT !.objects = SyncedObjects] ELSE disk
       /\ UNCHANGED <<index, heads, objects>>

\* Startup recovery then loads every active recovery.
CollectStep ==
    /\ store = "Opening" /\ Collect
    /\ IF op.at = Len(CollectSteps)
       THEN /\ op' = Free /\ store' = "Open"
            /\ status' = [id \in Ids |-> Found(id)]
            /\ authority' = [id \in Ids |-> IF Found(id) = "Ready" THEN heads[id] ELSE NoHead]
       ELSE /\ op' = [kind |-> "Collect", at |-> op.at + 1, swept |-> op.swept \cup Sweeps]
            /\ UNCHANGED <<store, session>>
    /\ UNCHANGED <<staged, openings, restartedUnsynced>>

\* The store is unusable until the next start when its collection fails.
CollectFails ==
    /\ store = "Opening" /\ Faults \cap {"WriteFails", "SyncFails"} # {}
    /\ op' = Free /\ store' = "Unavailable"
    /\ UNCHANGED <<entries, staged, session, openings, restartedUnsynced>>

\* The process ends: between operations, or at any moment.
End ==
    /\ store # "Closed"
    /\ "Kill" \in Faults \/ ("Exit" \in Faults /\ op = Free)
    /\ op' = Free /\ staged' = NotStaging /\ store' = "Closed"
    /\ UNCHANGED <<entries, session, openings, restartedUnsynced>>

\* The machine loses power: each entry keeps one of the values it may have.
PowerLoss ==
    /\ "PowerLoss" \in Faults
    /\ index' \in disk.index
    /\ heads' \in {kept \in [Ids -> UNION {disk.heads[id] : id \in Ids}] :
                       \A id \in Ids : kept[id] \in disk.heads[id]}
    /\ objects' \in {kept \in SUBSET {o \in Objects : TRUE \in disk.objects[o]} :
                         \A o \in Objects : (o \in kept) \in disk.objects[o]}
    /\ disk' = [index |-> SyncedIndex', heads |-> SyncedHeads', objects |-> SyncedObjects']
    /\ op' = Free /\ staged' = NotStaging /\ store' = "Closed"
    /\ UNCHANGED <<session, openings, restartedUnsynced>>

Next ==
    \/ \E id \in Ids : StageNew(id) \/ StageRebase(id) \/ Confirm(id) \/ Clear(id)
    \/ \E base \in UNION {Bases[id] : id \in Ids}, timeline \in UNION {Timelines[id] : id \in Ids} :
          BeginPublish(base, timeline) \/ BeginRebase(base, timeline)
    \/ \E id \in Ids : \E timeline \in Timelines[id] : Replace(id, timeline)
    \/ Step \/ Fail \/ PassOver
    \/ Open \/ CollectStep \/ CollectFails \/ End \/ PowerLoss

Spec == Init /\ [][Next]_vars

-----------------------------------------------------------------------------
(* What the store promises.                                                *)

\* Whatever a power loss leaves, every recovery a session was told is durable is
\* still named by the index, by a complete head at least as new as its own.
DurablyHeld(id) ==
    /\ \A active \in disk.index : id \in active
    /\ \A head \in disk.heads[id] :
          /\ head # NoHead /\ head.sequence >= authority[id].sequence
          /\ disk.objects[head.base] = {TRUE} /\ disk.objects[head.timeline] = {TRUE}

\* The document_recovery_store.rs promise, "The active index is the authority
\* boundary" (3), for as long as no start found entries that were not synced.
ReadyRecoverySurvives ==
    ~ restartedUnsynced => \A id \in Ids : status[id] = "Ready" => DurablyHeld(id)

\* "Failure to clean physical files cannot revive a document." (1072): once its
\* retirement was acknowledged, no power loss brings a recovery back.
ClearedStaysCleared ==
    \A id \in Ids : status[id] = "Cleared" => \A active \in disk.index : id \notin active

\* The store opens again after every power loss, for as long as no start found
\* entries that were not synced: the index never names a head that is gone.
OpensAgain == store = "Blocked" => restartedUnsynced

\* The state has its shape, and a store on disk is one that opens again.
StoreInv == StoreTypeOK /\ OpensAgain

\* "A stale session must never erase a newer checkpoint" (1077-1078): a head is
\* replaced only by the holder of its checkpoint, and by its successor.
CheckpointsAdvance ==
    [][\A id \in Ids :
          store = "Open" /\ store' = "Open" /\ heads'[id] \notin {heads[id], NoHead} =>
             \/ heads[id] = NoHead /\ id \notin index /\ heads'[id].sequence = 1
             \/ id \in index /\ heads'[id].sequence = heads[id].sequence + 1]_vars

=============================================================================
