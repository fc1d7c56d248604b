------------------------ MODULE RecoveryStore_proofs ------------------------
(***************************************************************************)
(* What the recovery store keeps through crashes and power losses, for any *)
(* number of recoveries, contents and starts.                              *)
(*                                                                         *)
(* The argument follows the order of the steps.  By the position of an     *)
(* operation in its table one knows what it has already made durable: the  *)
(* objects before the head is renamed, the head before the index is, and   *)
(* that no index names a recovery whose head is removed.  So every head    *)
(* that the disk may still hold for a recovery its session relies on is    *)
(* complete and at least as new as the session's own.  That a step of      *)
(* another recovery keeps this needs one fact more: the heads of a         *)
(* recovery that a session relies on are synced, but between the rename    *)
(* and the sync of its own next head, and nothing drops an object that a   *)
(* head of the index names.                                                *)
(*                                                                         *)
(* Both hold for as long as no start found entries that were not synced: a *)
(* start takes what it reads for durable, see Unsynced.                    *)
(***************************************************************************)
EXTENDS RecoveryStore, TLAPS

-----------------------------------------------------------------------------
(* The shape of the state, for any bound on sequences.                     *)

Writing == {"Publish", "Replace", "Rebase"}
Kinds == Writing \cup {"Clear", "Confirm"}
AnyHead == [sequence: Nat \ {0}, base: Objects, timeline: Objects]

Operation == [kind: Kinds, id: Ids, next: AnyHead, old: AnyHead \cup {NoHead}, at: Nat \ {0}]
Collection == [kind: {"Collect"}, at: Nat \ {0}, swept: SUBSET {"heads", "objects"}]
StagedNew == [kind: {"Publish"}, id: Ids]
StagedRebase == [kind: {"Rebase"}, id: Ids, expected: AnyHead]

DiskType == [index: SUBSET SUBSET Ids, heads: [Ids -> SUBSET (AnyHead \cup {NoHead})],
             objects: [Objects -> SUBSET BOOLEAN]]

\* What programs see of an entry is one of the values the disk may hold.
EntriesTypeOK ==
  /\ index \in SUBSET Ids
  /\ heads \in [Ids -> AnyHead \cup {NoHead}]
  /\ objects \in SUBSET Objects
  /\ disk \in DiskType
  /\ index \in disk.index
  /\ \A id \in Ids : heads[id] \in disk.heads[id]
  /\ \A object \in objects : TRUE \in disk.objects[object]
  /\ \A object \in Objects \ objects : FALSE \in disk.objects[object]

\* Operations run in an open store, the collection in one that opens; nothing is
\* staged while a staged operation runs.
OpTypeOK ==
  /\ op \in {Free} \cup Operation \cup Collection
  /\ op # Free => op.at <= Len(Steps[op.kind])
  /\ store \in {"Closed", "Opening", "Open", "Unavailable", "Blocked"}
  /\ op.kind = "Collect" <=> store = "Opening"
  /\ op.kind \in Kinds => store = "Open"
  /\ staged \in {NotStaging} \cup StagedNew \cup StagedRebase
  /\ store # "Open" => staged = NotStaging
  /\ op.kind \in {"Publish", "Rebase"} => staged = NotStaging

SessionTypeOK ==
  /\ status \in [Ids -> Statuses]
  /\ authority \in [Ids -> AnyHead \cup {NoHead}]
  /\ \A id \in Ids : status[id] \in {"Ready", "Ambiguous"} => authority[id] \in AnyHead

-----------------------------------------------------------------------------
(* What an operation has done, by its position in its table.               *)

\* A replacement has no base to store: it begins at the second step of a rebase.
Position(o) == IF o.kind = "Replace" THEN o.at + 1 ELSE o.at

Durable(x) == disk.objects[x] = {TRUE}

\* Position p comes next for a publication, a replacement or a rebase.
WriteFacts(o, p) ==
  /\ p >= 2 => o.next.base \in objects
  /\ p >= 3 => Durable(o.next.base)
  /\ p >= 4 => o.next.timeline \in objects
  /\ p >= 5 => Durable(o.next.timeline)
  /\ o.kind # "Publish" => o.id \in index /\ o.next.sequence = o.old.sequence + 1
  /\ o.kind = "Publish" => o.next.sequence = 1
  /\ p <= 5 => IF o.kind = "Publish" THEN heads[o.id] = NoHead /\ o.id \notin index
                                     ELSE heads[o.id] = o.old
  /\ p >= 6 => heads[o.id] = o.next
  /\ p >= 7 => disk.heads[o.id] = {o.next}
  /\ p >= 8 /\ o.kind = "Publish" => o.id \in index
  /\ p >= 9 /\ o.kind = "Publish" => disk.index = {index}

ConfirmFacts(o, p) ==
  /\ o.id \in index /\ heads[o.id] = o.next
  /\ o.next.base \in objects /\ o.next.timeline \in objects
  /\ p >= 2 => Durable(o.next.base) /\ Durable(o.next.timeline)
  /\ p >= 3 => disk.heads[o.id] = {o.next}
  /\ p >= 4 => disk.index = {index}

ClearFacts(o, p) ==
  /\ p >= 2 => o.id \notin index
  /\ p >= 3 => \A active \in disk.index : o.id \notin active

OperationFacts ==
  /\ op.kind \in Writing => WriteFacts(op, Position(op))
  /\ op.kind = "Confirm" => ConfirmFacts(op, op.at)
  /\ op.kind = "Clear" => ClearFacts(op, op.at)

\* What a session that waits for an operation thinks of its recovery.  A staged
\* rebase is refused when its head moved on, so it never finds its recovery
\* "Ambiguous" under the head it expects.
StatusFacts ==
  /\ op.kind = "Publish" => status[op.id] = "Unused"
  /\ op.kind = "Replace" => status[op.id] = "Ready"
  /\ op.kind = "Rebase" => status[op.id] \notin {"Unused", "Ambiguous"}
  /\ op.kind = "Confirm" => status[op.id] \in {"Ready", "Ambiguous"}
  /\ op.kind = "Clear" => status[op.id] = "Closing"
  /\ staged.kind = "Publish" => status[staged.id] = "Unused"
  /\ staged.kind = "Rebase" =>
       /\ status[staged.id] # "Unused"
       /\ staged.id \in index =>
            /\ heads[staged.id].sequence >= staged.expected.sequence
            /\ status[staged.id] = "Ambiguous"
                 => heads[staged.id].sequence > staged.expected.sequence
       /\ op.kind = "Replace" /\ op.id = staged.id
            => op.old.sequence >= staged.expected.sequence

\* A recovery that was never published has no head and no entry in the index.
UnusedAbsent ==
  /\ \A id \in Ids :
        store = "Open" /\ status[id] = "Unused" /\ ~ (op.kind = "Publish" /\ op.id = id)
          => heads[id] = NoHead /\ id \notin index
  /\ store = "Opening" /\ op.at > 1 => \A id \in Ids \ index : heads[id] = NoHead

-----------------------------------------------------------------------------
(* What a power loss leaves.                                               *)

NoneDangling == \A active \in disk.index : \A id \in active : NoHead \notin disk.heads[id]

\* DurablyHeld, for a checkpoint of the given sequence.
Held(id, sequence) ==
  /\ \A active \in disk.index : id \in active
  /\ \A head \in disk.heads[id] :
        /\ head # NoHead /\ head.sequence >= sequence
        /\ Durable(head.base) /\ Durable(head.timeline)

ReadyHeld == \A id \in Ids : status[id] = "Ready" => Held(id, authority[id].sequence)

\* The next head of a recovery was renamed into place and is still to be synced.
Renamed(id) == op.kind \in Writing /\ op.id = id /\ Position(op) = 6

ReadySettled ==
  store = "Open" =>
     \A id \in Ids : status[id] = "Ready" => disk.heads[id] = {heads[id]} \/ Renamed(id)

\* What the startup finds is synced.
OpeningSynced ==
  store = "Opening" =>
     /\ disk.index = {index}
     /\ \A id \in index :
           /\ disk.heads[id] = {heads[id]} /\ heads[id] # NoHead
           /\ heads[id].base \in objects => Durable(heads[id].base)
           /\ heads[id].timeline \in objects => Durable(heads[id].timeline)

DurableInv ==
  ~ restartedUnsynced => NoneDangling /\ ReadyHeld /\ ReadySettled /\ OpeningSynced

StoreInvariant ==
  /\ EntriesTypeOK /\ OpTypeOK /\ SessionTypeOK
  /\ OperationFacts /\ StatusFacts /\ UnusedAbsent
  /\ ClearedStaysCleared /\ DurableInv /\ OpensAgain

-----------------------------------------------------------------------------
(* The tables of steps, and what each step is at its position.             *)

USE DEF DiskType, StagedNew, StagedRebase

\* The steps of a publication,
LEMMA PublishTable ==
  /\ Len(Steps.Publish) = 8
  /\ Steps.Publish[1] = "StoreBase" /\ Steps.Publish[2] = "SyncObjects"
  /\ Steps.Publish[3] = "StoreTimeline" /\ Steps.Publish[4] = "SyncObjects"
  /\ Steps.Publish[5] = "RenameHead" /\ Steps.Publish[6] = "SyncHeads"
  /\ Steps.Publish[7] = "RenameIndex" /\ Steps.Publish[8] = "SyncStore"
BY DEF Steps, BaseSteps, HeadSteps, IndexSteps, DropSteps, ClearSteps, ConfirmSteps,
       CollectSteps

\* of a replacement,
LEMMA ReplaceTable ==
  /\ Len(Steps.Replace) = 7
  /\ Steps.Replace[1] = "SyncObjects" /\ Steps.Replace[2] = "StoreTimeline"
  /\ Steps.Replace[3] = "SyncObjects" /\ Steps.Replace[4] = "RenameHead"
  /\ Steps.Replace[5] = "SyncHeads" /\ Steps.Replace[6] = "DropBase"
  /\ Steps.Replace[7] = "DropTimeline"
BY DEF Steps, BaseSteps, HeadSteps, IndexSteps, DropSteps, ClearSteps, ConfirmSteps,
       CollectSteps

\* of a rebase,
LEMMA RebaseTable ==
  /\ Len(Steps.Rebase) = 8
  /\ Steps.Rebase[1] = "StoreBase" /\ Steps.Rebase[2] = "SyncObjects"
  /\ Steps.Rebase[3] = "StoreTimeline" /\ Steps.Rebase[4] = "SyncObjects"
  /\ Steps.Rebase[5] = "RenameHead" /\ Steps.Rebase[6] = "SyncHeads"
  /\ Steps.Rebase[7] = "DropBase" /\ Steps.Rebase[8] = "DropTimeline"
BY DEF Steps, BaseSteps, HeadSteps, IndexSteps, DropSteps, ClearSteps, ConfirmSteps,
       CollectSteps

\* of a retirement,
LEMMA ClearTable ==
  /\ Len(Steps.Clear) = 7
  /\ Steps.Clear[1] = "RenameIndex" /\ Steps.Clear[2] = "SyncStore"
  /\ Steps.Clear[3] = "RemoveHead" /\ Steps.Clear[4] = "DropBase"
  /\ Steps.Clear[5] = "DropTimeline" /\ Steps.Clear[6] = "TrySyncHeads"
  /\ Steps.Clear[7] = "TrySyncObjects"
BY DEF Steps, BaseSteps, HeadSteps, IndexSteps, DropSteps, ClearSteps, ConfirmSteps,
       CollectSteps

\* of a confirmation,
LEMMA ConfirmTable ==
  /\ Len(Steps.Confirm) = 3
  /\ Steps.Confirm[1] = "SyncObjects" /\ Steps.Confirm[2] = "SyncHeads"
  /\ Steps.Confirm[3] = "SyncStore"
BY DEF Steps, BaseSteps, HeadSteps, IndexSteps, DropSteps, ClearSteps, ConfirmSteps,
       CollectSteps

\* and of the collection at startup.
LEMMA CollectTable ==
  /\ Len(Steps.Collect) = 4
  /\ Steps.Collect[1] = "SweepHeads" /\ Steps.Collect[2] = "SweepObjects"
  /\ Steps.Collect[3] = "SyncHeads" /\ Steps.Collect[4] = "SyncObjects"
BY DEF Steps, BaseSteps, HeadSteps, IndexSteps, DropSteps, ClearSteps, ConfirmSteps,
       CollectSteps

\* How many steps an operation has.
LEMMA StepCounts ==
  ASSUME NEW kind \in Kinds
  PROVE  Len(Steps[kind]) = IF kind = "Confirm" THEN 3
                            ELSE IF kind \in {"Replace", "Clear"} THEN 7 ELSE 8
<1>1. \/ kind = "Publish" /\ Steps[kind] = Steps.Publish
      \/ kind = "Replace" /\ Steps[kind] = Steps.Replace
      \/ kind = "Rebase" /\ Steps[kind] = Steps.Rebase
      \/ kind = "Clear" /\ Steps[kind] = Steps.Clear
      \/ kind = "Confirm" /\ Steps[kind] = Steps.Confirm
  BY DEF Kinds, Writing
<1> QED
  BY <1>1, PublishTable, ReplaceTable, RebaseTable, ClearTable, ConfirmTable

\* What a sync of each directory does.
SyncsObjects == disk' = [disk EXCEPT !.objects = SyncedObjects] /\ UNCHANGED <<index, heads, objects>>
SyncsHeads == disk' = [disk EXCEPT !.heads = SyncedHeads] /\ UNCHANGED <<index, heads, objects>>
SyncsStore == disk' = [disk EXCEPT !.index = SyncedIndex] /\ UNCHANGED <<index, heads, objects>>

\* The operations that write a head do the same at the same position, up to the
\* sync of the heads; then a publication names its recovery, the others drop what
\* the old head named.
LEMMA WriteDoes ==
  ASSUME OpTypeOK, op.kind \in Writing, Perform
  PROVE  \/ Position(op) = 1 /\ AddObject(op.next.base)
         \/ Position(op) \in {2, 4} /\ SyncsObjects
         \/ Position(op) = 3 /\ AddObject(op.next.timeline)
         \/ Position(op) = 5 /\ SetHead(op.id, op.next)
         \/ Position(op) = 6 /\ SyncsHeads
         \/ Position(op) = 7 /\ op.kind = "Publish" /\ SetIndex(index \cup {op.id})
         \/ Position(op) = 8 /\ op.kind = "Publish" /\ SyncsStore
         \/ Position(op) = 7 /\ op.kind # "Publish" /\ RemoveUnreferenced(op.old.base)
         \/ Position(op) = 8 /\ op.kind # "Publish" /\ RemoveUnreferenced(op.old.timeline)
<1>1. op \in Operation /\ op.at \in 1 .. Len(Steps[op.kind])
  BY DEF OpTypeOK, Operation, Collection, Writing, Free
<1>2. ASSUME NEW step PROVE Doing(step) <=> Steps[op.kind][op.at] = step
  BY DEF Doing, Writing, Free
<1>3. CASE op.kind = "Publish"
  <2>1. Steps[op.kind] = Steps.Publish
    BY <1>3
  <2>2. op.at \in {1, 2, 3, 4, 5, 6, 7, 8}
    BY <1>1, <2>1, PublishTable
  <2> QED
    BY <1>2, <1>3, <2>1, <2>2, PublishTable
       DEF Perform, Position, SyncsObjects, SyncsHeads, SyncsStore
<1>4. CASE op.kind = "Replace"
  <2>1. Steps[op.kind] = Steps.Replace
    BY <1>4
  <2>2. op.at \in {1, 2, 3, 4, 5, 6, 7}
    BY <1>1, <2>1, ReplaceTable
  <2> QED
    BY <1>2, <1>4, <2>1, <2>2, ReplaceTable
       DEF Perform, Position, SyncsObjects, SyncsHeads, SyncsStore
<1>5. CASE op.kind = "Rebase"
  <2>1. Steps[op.kind] = Steps.Rebase
    BY <1>5
  <2>2. op.at \in {1, 2, 3, 4, 5, 6, 7, 8}
    BY <1>1, <2>1, RebaseTable
  <2> QED
    BY <1>2, <1>5, <2>1, <2>2, RebaseTable
       DEF Perform, Position, SyncsObjects, SyncsHeads, SyncsStore
<1> QED
  BY <1>3, <1>4, <1>5 DEF Writing

\* A confirmation syncs the three directories.
LEMMA ConfirmDoes ==
  ASSUME OpTypeOK, op.kind = "Confirm", Perform
  PROVE  \/ op.at = 1 /\ SyncsObjects
         \/ op.at = 2 /\ SyncsHeads
         \/ op.at = 3 /\ SyncsStore
<1>1. op \in Operation /\ op.at \in 1 .. Len(Steps[op.kind])
  BY DEF OpTypeOK, Operation, Collection, Free
<1>2. ASSUME NEW step PROVE Doing(step) <=> Steps[op.kind][op.at] = step
  BY DEF Doing, Free
<1>3. Steps[op.kind] = Steps.Confirm
  OBVIOUS
<1>4. op.at \in {1, 2, 3}
  BY <1>1, <1>3, ConfirmTable
<1> QED
  BY <1>2, <1>3, <1>4, ConfirmTable DEF Perform, SyncsObjects, SyncsHeads, SyncsStore

\* A retirement leaves the index before it removes anything.
LEMMA ClearDoes ==
  ASSUME OpTypeOK, op.kind = "Clear", Perform
  PROVE  \/ op.at = 1 /\ SetIndex(index \ {op.id})
         \/ op.at = 2 /\ SyncsStore
         \/ op.at = 3 /\ SetHead(op.id, NoHead)
         \/ op.at = 4 /\ RemoveUnreferenced(op.old.base)
         \/ op.at = 5 /\ RemoveUnreferenced(op.old.timeline)
         \/ op.at = 6 /\ SyncsHeads
         \/ op.at = 7 /\ SyncsObjects
<1>1. op \in Operation /\ op.at \in 1 .. Len(Steps[op.kind])
  BY DEF OpTypeOK, Operation, Collection, Free
<1>2. ASSUME NEW step PROVE Doing(step) <=> Steps[op.kind][op.at] = step
  BY DEF Doing, Free
<1>3. Steps[op.kind] = Steps.Clear
  OBVIOUS
<1>4. op.at \in {1, 2, 3, 4, 5, 6, 7}
  BY <1>1, <1>3, ClearTable
<1> QED
  BY <1>2, <1>3, <1>4, ClearTable DEF Perform, SyncsObjects, SyncsHeads, SyncsStore

-----------------------------------------------------------------------------
(* What each write and each sync does to the entries.                      *)

\* An object that is added makes none less durable.
LEMMA Added ==
  ASSUME EntriesTypeOK, NEW o \in Objects, AddObject(o)
  PROVE  /\ EntriesTypeOK'
         /\ UNCHANGED <<index, heads>> /\ objects' = objects \cup {o}
         /\ disk'.index = disk.index /\ disk'.heads = disk.heads
         /\ \A x \in Objects : Durable(x) => Durable(x)'
<1> USE DEF AddObject
<1>1. disk' \in DiskType
  BY DEF EntriesTypeOK, DiskType
<1>2. disk'.index = disk.index /\ disk'.heads = disk.heads
  BY DEF EntriesTypeOK
<1>3. \A x \in Objects : disk'.objects[x] = IF x = o THEN disk.objects[x] \cup {TRUE}
                                                    ELSE disk.objects[x]
  BY DEF EntriesTypeOK
<1>4. /\ \A x \in objects' : TRUE \in disk'.objects[x]
      /\ \A x \in Objects \ objects' : FALSE \in disk'.objects[x]
  BY <1>3 DEF EntriesTypeOK
<1> QED
  BY <1>1, <1>2, <1>3, <1>4 DEF EntriesTypeOK, DiskType, Durable

\* After a sync of the objects, what is there is durable.
LEMMA ObjectsSynced ==
  ASSUME EntriesTypeOK, SyncsObjects
  PROVE  /\ EntriesTypeOK'
         /\ UNCHANGED <<index, heads, objects>>
         /\ disk'.index = disk.index /\ disk'.heads = disk.heads
         /\ \A x \in objects : Durable(x)'
<1> USE DEF SyncsObjects, SyncedObjects
<1>1. disk' \in DiskType
  BY DEF EntriesTypeOK, DiskType
<1>2. disk'.index = disk.index /\ disk'.heads = disk.heads
  BY DEF EntriesTypeOK
<1>3. \A x \in Objects : disk'.objects[x] = IF x \in objects THEN {TRUE} ELSE {FALSE}
  BY DEF EntriesTypeOK
<1> QED
  BY <1>1, <1>2, <1>3 DEF EntriesTypeOK, DiskType, Durable

\* After a sync of the heads, the disk holds those that programs see.
LEMMA HeadsSynced ==
  ASSUME EntriesTypeOK, SyncsHeads
  PROVE  /\ EntriesTypeOK'
         /\ UNCHANGED <<index, heads, objects>>
         /\ disk'.index = disk.index /\ disk'.objects = disk.objects
         /\ \A id \in Ids : disk'.heads[id] = {heads[id]}
<1> USE DEF SyncsHeads, SyncedHeads
<1>1. disk' \in DiskType
  BY DEF EntriesTypeOK, DiskType
<1>2. disk'.index = disk.index /\ disk'.objects = disk.objects
  BY DEF EntriesTypeOK
<1>3. \A id \in Ids : disk'.heads[id] = {heads[id]}
  BY DEF EntriesTypeOK
<1> QED
  BY <1>1, <1>2, <1>3 DEF EntriesTypeOK, DiskType

\* After a sync of the store, the disk holds the index that programs see.
LEMMA StoreSynced ==
  ASSUME EntriesTypeOK, SyncsStore
  PROVE  /\ EntriesTypeOK'
         /\ UNCHANGED <<index, heads, objects>>
         /\ disk'.heads = disk.heads /\ disk'.objects = disk.objects
         /\ disk'.index = {index}
<1> USE DEF SyncsStore, SyncedIndex
<1>1. disk' \in DiskType
  BY DEF EntriesTypeOK, DiskType
<1>2. disk'.heads = disk.heads /\ disk'.objects = disk.objects /\ disk'.index = {index}
  BY DEF EntriesTypeOK
<1> QED
  BY <1>1, <1>2 DEF EntriesTypeOK, DiskType

\* A rename or a removal of a head adds a value the disk may hold for it.
LEMMA HeadSet ==
  ASSUME EntriesTypeOK, NEW id \in Ids, NEW h \in AnyHead \cup {NoHead}, SetHead(id, h)
  PROVE  /\ EntriesTypeOK'
         /\ UNCHANGED <<index, objects>> /\ heads'[id] = h
         /\ disk'.index = disk.index /\ disk'.objects = disk.objects
         /\ disk'.heads[id] = disk.heads[id] \cup {h}
         /\ \A j \in Ids \ {id} : disk'.heads[j] = disk.heads[j] /\ heads'[j] = heads[j]
<1> USE DEF SetHead
<1>1. disk' \in DiskType
  BY DEF EntriesTypeOK, DiskType
<1>2. disk'.index = disk.index /\ disk'.objects = disk.objects
  BY DEF EntriesTypeOK
<1>3. disk'.heads[id] = disk.heads[id] \cup {h}
  BY DEF EntriesTypeOK
<1>4. \A j \in Ids \ {id} : disk'.heads[j] = disk.heads[j] /\ heads'[j] = heads[j]
  BY DEF EntriesTypeOK
<1>5. heads' \in [Ids -> AnyHead \cup {NoHead}] /\ heads'[id] = h
  BY DEF EntriesTypeOK
<1>6. \A j \in Ids : heads'[j] \in disk'.heads[j]
  BY <1>3, <1>4, <1>5 DEF EntriesTypeOK
<1> QED
  BY <1>1, <1>2, <1>3, <1>4, <1>5, <1>6 DEF EntriesTypeOK, DiskType

\* A rename of the index adds a value the disk may hold for it.
LEMMA IndexSet ==
  ASSUME EntriesTypeOK, NEW active \in SUBSET Ids, SetIndex(active)
  PROVE  /\ EntriesTypeOK'
         /\ UNCHANGED <<heads, objects>> /\ index' = active
         /\ disk'.index = disk.index \cup {active}
         /\ disk'.heads = disk.heads /\ disk'.objects = disk.objects
<1> USE DEF SetIndex
<1>1. disk' \in DiskType
  BY DEF EntriesTypeOK, DiskType
<1>2. /\ disk'.index = disk.index \cup {active}
      /\ disk'.heads = disk.heads /\ disk'.objects = disk.objects
  BY DEF EntriesTypeOK
<1> QED
  BY <1>1, <1>2 DEF EntriesTypeOK, DiskType

\* No object that a head of the index names becomes less durable.
LEMMA Dropped ==
  ASSUME EntriesTypeOK, NEW o, RemoveUnreferenced(o)
  PROVE  /\ EntriesTypeOK'
         /\ UNCHANGED <<index, heads>>
         /\ disk'.index = disk.index /\ disk'.heads = disk.heads
         /\ \A x \in Objects : x \in Referenced /\ Durable(x) => Durable(x)'
<1> USE DEF RemoveUnreferenced
<1>0. UNCHANGED <<index, heads>>
  OBVIOUS
<1>1. CASE UNCHANGED <<objects, disk>>
  BY <1>0, <1>1 DEF EntriesTypeOK, Durable
<1>2. CASE ~ UNCHANGED <<objects, disk>>
  <2>1. /\ o \in objects /\ o \notin Referenced /\ objects' = objects \ {o}
        /\ disk' = [disk EXCEPT !.objects[o] = @ \cup {FALSE}]
    BY <1>2
  <2>2. o \in Objects
    BY <2>1 DEF EntriesTypeOK
  <2>3. disk' \in DiskType
    BY <2>1, <2>2 DEF EntriesTypeOK, DiskType
  <2>4. disk'.index = disk.index /\ disk'.heads = disk.heads
    BY <2>1 DEF EntriesTypeOK
  <2>5. \A x \in Objects : disk'.objects[x] = IF x = o THEN disk.objects[x] \cup {FALSE}
                                                      ELSE disk.objects[x]
    BY <2>1, <2>2 DEF EntriesTypeOK
  <2>6. /\ \A x \in objects' : TRUE \in disk'.objects[x]
        /\ \A x \in Objects \ objects' : FALSE \in disk'.objects[x]
    BY <2>1, <2>5 DEF EntriesTypeOK
  <2> QED
    BY <1>0, <2>1, <2>3, <2>4, <2>5, <2>6 DEF EntriesTypeOK, DiskType, Durable
<1> QED
  BY <1>1, <1>2

-----------------------------------------------------------------------------
(* One step of an operation.                                               *)

\* What a head names, and that it is not the absent one.
LEMMA HeadFields ==
  ASSUME NEW h \in AnyHead
  PROVE  h # NoHead /\ h.base \in Objects /\ h.timeline \in Objects /\ h.sequence \in Nat \ {0}
BY DEF AnyHead, NoHead

\* A write brings its operation one position on.
LEMMA WritesAdvance ==
  ASSUME EntriesTypeOK, OpTypeOK, NEW o \in Operation, o = op, o.kind \in Writing,
         NEW p \in 1 .. 8, p = Position(o), WriteFacts(o, p), Perform
  PROVE  EntriesTypeOK' /\ WriteFacts(o, p + 1)'
<1>1. /\ o.id \in Ids /\ o.next \in AnyHead
      /\ o.next.base \in Objects /\ o.next.timeline \in Objects
  BY HeadFields DEF Operation
<1> USE DEF WriteFacts
<1>2. CASE p = 1 /\ AddObject(o.next.base)
  BY <1>1, <1>2, Added
<1>3. CASE p \in {2, 4} /\ SyncsObjects
  BY <1>1, <1>3, ObjectsSynced
<1>4. CASE p = 3 /\ AddObject(o.next.timeline)
  BY <1>1, <1>4, Added
<1>5. CASE p = 5 /\ SetHead(o.id, o.next)
  <2>1. heads'[o.id] = o.next
    BY <1>1, <1>5, HeadSet
  <2>2. \A x \in Objects : Durable(x) => Durable(x)'
    BY <1>1, <1>5, HeadSet DEF Durable
  <2> QED
    BY <1>1, <1>5, <2>1, <2>2, HeadSet
<1>6. CASE p = 6 /\ SyncsHeads
  <2>1. \A x \in Objects : Durable(x) => Durable(x)'
    BY <1>6, HeadsSynced DEF Durable
  <2> QED
    BY <1>1, <1>6, <2>1, HeadsSynced
<1>7. CASE p = 7 /\ o.kind = "Publish" /\ SetIndex(index \cup {o.id})
  <2>1. index \cup {o.id} \in SUBSET Ids
    BY <1>1 DEF EntriesTypeOK
  <2>2. \A x \in Objects : Durable(x) => Durable(x)'
    BY <1>7, <2>1, IndexSet DEF Durable
  <2> QED
    BY <1>1, <1>7, <2>1, <2>2, IndexSet
<1>8. CASE p = 8 /\ o.kind = "Publish" /\ SyncsStore
  <2>1. \A x \in Objects : Durable(x) => Durable(x)'
    BY <1>8, StoreSynced DEF Durable
  <2> QED
    BY <1>1, <1>8, <2>1, StoreSynced
<1>9. ASSUME NEW x, p \in {7, 8}, o.kind # "Publish", RemoveUnreferenced(x)
      PROVE  EntriesTypeOK' /\ WriteFacts(o, p + 1)'
  <2>1. o.next.base \in Referenced /\ o.next.timeline \in Referenced
    BY <1>9 DEF Referenced
  <2>2. EntriesTypeOK' /\ Durable(o.next.base)' /\ Durable(o.next.timeline)'
    BY <1>1, <1>9, <2>1, Dropped
  <2>3. o.next.base \in objects' /\ o.next.timeline \in objects'
    BY <1>1, <2>2 DEF EntriesTypeOK, Durable
  <2> QED
    BY <1>1, <1>9, <2>2, <2>3, Dropped
<1> QED
  BY <1>2, <1>3, <1>4, <1>5, <1>6, <1>7, <1>8, <1>9, WriteDoes

\* A sync brings its confirmation one position on.
LEMMA ConfirmAdvances ==
  ASSUME EntriesTypeOK, OpTypeOK, NEW o \in Operation, o = op, o.kind = "Confirm",
         NEW p \in 1 .. 3, p = o.at, ConfirmFacts(o, p), Perform
  PROVE  EntriesTypeOK' /\ ConfirmFacts(o, p + 1)'
<1>1. /\ o.id \in Ids /\ o.next \in AnyHead
      /\ o.next.base \in Objects /\ o.next.timeline \in Objects
  BY HeadFields DEF Operation
<1> USE DEF ConfirmFacts
<1>2. CASE p = 1 /\ SyncsObjects
  BY <1>1, <1>2, ObjectsSynced
<1>3. CASE p = 2 /\ SyncsHeads
  <2>1. \A x : Durable(x) => Durable(x)'
    BY <1>3, HeadsSynced DEF Durable
  <2> QED
    BY <1>1, <1>3, <2>1, HeadsSynced
<1>4. CASE p = 3 /\ SyncsStore
  <2>1. \A x : Durable(x) => Durable(x)'
    BY <1>4, StoreSynced DEF Durable
  <2> QED
    BY <1>1, <1>4, <2>1, StoreSynced
<1> QED
  BY <1>2, <1>3, <1>4, ConfirmDoes

\* A step of a retirement brings it one position on.
LEMMA ClearAdvances ==
  ASSUME EntriesTypeOK, OpTypeOK, NEW o \in Operation, o = op, o.kind = "Clear",
         NEW p \in 1 .. 7, p = o.at, ClearFacts(o, p), Perform
  PROVE  EntriesTypeOK' /\ ClearFacts(o, p + 1)'
<1>1. o.id \in Ids
  BY DEF Operation
<1> USE DEF ClearFacts
<1>2. CASE p = 1 /\ SetIndex(index \ {o.id})
  <2>1. index \ {o.id} \in SUBSET Ids
    BY DEF EntriesTypeOK
  <2> QED
    BY <1>2, <2>1, IndexSet
<1>3. CASE p = 2 /\ SyncsStore
  BY <1>3, StoreSynced
<1>4. CASE p = 3 /\ SetHead(o.id, NoHead)
  BY <1>1, <1>4, HeadSet
<1>5. CASE p \in {4, 5} /\ (RemoveUnreferenced(o.old.base) \/ RemoveUnreferenced(o.old.timeline))
  BY <1>5, Dropped
<1>6. CASE p = 6 /\ SyncsHeads
  BY <1>6, HeadsSynced
<1>7. CASE p = 7 /\ SyncsObjects
  BY <1>7, ObjectsSynced
<1> QED
  BY <1>2, <1>3, <1>4, <1>5, <1>6, <1>7, ClearDoes

\* A step as the other recoveries see it: what it does to the index, ...
LEMMA PerformIndex ==
  ASSUME EntriesTypeOK, OpTypeOK, op \in Operation, Perform
  PROVE  \A active \in disk'.index :
            \/ active \in disk.index
            \/ op.kind = "Publish" /\ Position(op) = 7 /\ active = index \cup {op.id}
            \/ op.kind = "Clear" /\ active = index \ {op.id}
<1>1. op.id \in Ids /\ op.next \in AnyHead
  BY DEF Operation
<1>2. op.next.base \in Objects /\ op.next.timeline \in Objects
  BY <1>1, HeadFields
<1>3. /\ index \cup {op.id} \in SUBSET Ids /\ index \ {op.id} \in SUBSET Ids
      /\ index \in disk.index
  BY <1>1 DEF EntriesTypeOK
<1>4. CASE op.kind \in Writing
  BY <1>1, <1>2, <1>3, <1>4, WriteDoes, Added, ObjectsSynced, HeadsSynced, StoreSynced,
     HeadSet, IndexSet, Dropped
<1>5. CASE op.kind = "Confirm"
  BY <1>3, <1>5, ConfirmDoes, ObjectsSynced, HeadsSynced, StoreSynced
<1>6. CASE op.kind = "Clear"
  BY <1>1, <1>3, <1>6, ClearDoes, ObjectsSynced, HeadsSynced, StoreSynced,
     HeadSet, IndexSet, Dropped
<1> QED
  BY <1>4, <1>5, <1>6 DEF Operation, Kinds

\* ... to the heads, ...
LEMMA PerformHeads ==
  ASSUME EntriesTypeOK, OpTypeOK, op \in Operation, Perform
  PROVE  \/ heads' = heads /\ disk'.heads = disk.heads
         \/ heads' = heads /\ \A id \in Ids : disk'.heads[id] = {heads[id]}
         \/ /\ \/ op.kind \in Writing /\ Position(op) = 5 /\ heads'[op.id] = op.next
               \/ op.kind = "Clear" /\ op.at = 3 /\ heads'[op.id] = NoHead
            /\ disk'.heads[op.id] = disk.heads[op.id] \cup {heads'[op.id]}
            /\ \A id \in Ids \ {op.id} : disk'.heads[id] = disk.heads[id] /\ heads'[id] = heads[id]
            /\ index' = index /\ disk'.index = disk.index
<1>1. op.id \in Ids /\ op.next \in AnyHead
  BY DEF Operation
<1>2. op.next.base \in Objects /\ op.next.timeline \in Objects
  BY <1>1, HeadFields
<1>3. index \cup {op.id} \in SUBSET Ids /\ index \ {op.id} \in SUBSET Ids
  BY <1>1 DEF EntriesTypeOK
<1>4. CASE op.kind \in Writing
  BY <1>1, <1>2, <1>3, <1>4, WriteDoes, Added, ObjectsSynced, HeadsSynced, StoreSynced,
     HeadSet, IndexSet, Dropped
<1>5. CASE op.kind = "Confirm"
  BY <1>5, ConfirmDoes, ObjectsSynced, HeadsSynced, StoreSynced
<1>6. CASE op.kind = "Clear"
  BY <1>1, <1>3, <1>6, ClearDoes, ObjectsSynced, HeadsSynced, StoreSynced,
     HeadSet, IndexSet, Dropped
<1> QED
  BY <1>4, <1>5, <1>6 DEF Operation, Kinds

\* ... and to the objects: none that a head in the index names is lost, and no
\* other either while a head that was renamed is still to be synced.
LEMMA PerformObjects ==
  ASSUME EntriesTypeOK, OpTypeOK, op \in Operation, Perform
  PROVE  /\ \A x \in Objects : Durable(x) /\ x \in Referenced => Durable(x)'
         /\ op.kind \in Writing /\ Position(op) < 7
            => \A x \in Objects : Durable(x) => Durable(x)'
         /\ ~ UNCHANGED heads => \A x \in Objects : Durable(x) => Durable(x)'
<1>1. op.id \in Ids /\ op.next \in AnyHead
  BY DEF Operation
<1>2. op.next.base \in Objects /\ op.next.timeline \in Objects
  BY <1>1, HeadFields
<1>3. index \cup {op.id} \in SUBSET Ids /\ index \ {op.id} \in SUBSET Ids
  BY <1>1 DEF EntriesTypeOK
<1>4. ASSUME NEW x, RemoveUnreferenced(x)
      PROVE  UNCHANGED heads /\ \A y \in Objects : Durable(y) /\ y \in Referenced => Durable(y)'
  BY <1>4, Dropped
<1>5. ASSUME disk'.objects = disk.objects PROVE \A x : Durable(x) => Durable(x)'
  BY <1>5 DEF Durable
<1>6. SyncsObjects => \A x \in Objects : Durable(x) => Durable(x)'
  <2>1. \A x \in Objects : Durable(x) => x \in objects
    BY DEF EntriesTypeOK, Durable
  <2> QED
    BY <2>1, ObjectsSynced
<1>7. CASE op.kind \in Writing
  BY <1>1, <1>2, <1>3, <1>4, <1>5, <1>6, <1>7, WriteDoes, Added, HeadsSynced, StoreSynced,
     HeadSet, IndexSet
<1>8. CASE op.kind = "Confirm"
  BY <1>5, <1>6, <1>8, ConfirmDoes, HeadsSynced, StoreSynced DEF Writing
<1>9. CASE op.kind = "Clear"
  BY <1>1, <1>3, <1>4, <1>5, <1>6, <1>9, ClearDoes, HeadsSynced, StoreSynced,
     HeadSet, IndexSet DEF Writing
<1> QED
  BY <1>7, <1>8, <1>9 DEF Operation, Kinds

\* A recovery that is held stays held: its heads are synced, or its own next
\* head has just been renamed and is complete.
LEMMA HeldStays ==
  ASSUME EntriesTypeOK, OpTypeOK, op \in Operation, OperationFacts, Perform,
         NEW id \in Ids, NEW s \in Nat, Held(id, s),
         op.kind \in {"Clear", "Publish"} => op.id # id,
         disk.heads[id] = {heads[id]} \/ Renamed(id)
  PROVE  Held(id, s)'
<1>0. /\ op.id \in Ids /\ op.next \in AnyHead
      /\ op.next.base \in Objects /\ op.next.timeline \in Objects
  BY HeadFields DEF Operation
<1>1. \A head \in disk.heads[id] : /\ head \in AnyHead
                                   /\ head.base \in Objects /\ head.timeline \in Objects
  BY HeadFields DEF EntriesTypeOK, Held
<1>2. \A active \in disk'.index : id \in active
  <2>1. index \in disk.index
    BY DEF EntriesTypeOK
  <2>2. \A active \in disk.index : id \in active
    BY DEF Held
  <2> QED
    BY <2>1, <2>2, PerformIndex
<1>3. ASSUME NEW head \in disk.heads[id] PROVE Durable(head.base)' /\ Durable(head.timeline)'
  <2>1. CASE Renamed(id)
    BY <1>1, <2>1, PerformObjects DEF Renamed, Held
  <2>2. CASE disk.heads[id] = {heads[id]}
    <3>1. id \in index
      BY DEF Held, EntriesTypeOK
    <3>2. head.base \in Referenced /\ head.timeline \in Referenced
      BY <2>2, <3>1 DEF Referenced
    <3> QED
      BY <1>1, <3>2, PerformObjects DEF Held
  <2> QED
    BY <2>1, <2>2
<1>4. ASSUME NEW head \in disk'.heads[id], head \notin disk.heads[id]
      PROVE  /\ head = op.next /\ op.kind \in Writing /\ Position(op) = 5
             /\ op.id = id /\ op.kind # "Publish" /\ ~ UNCHANGED heads
  <2>1. heads[id] \in disk.heads[id]
    BY DEF EntriesTypeOK
  <2> QED
    BY <1>4, <2>1, PerformHeads
<1>5. ASSUME NEW head \in disk'.heads[id], head \notin disk.heads[id]
      PROVE  /\ head # NoHead /\ head.sequence >= s
             /\ Durable(head.base)' /\ Durable(head.timeline)'
  <2>1. WriteFacts(op, 5) /\ op.kind # "Publish"
    BY <1>4, <1>5 DEF OperationFacts
  <2>2. heads[id] = op.old /\ op.next.sequence = op.old.sequence + 1
    BY <1>4, <1>5, <2>1 DEF WriteFacts
  <2>3. Durable(op.next.base) /\ Durable(op.next.timeline)
    BY <2>1 DEF WriteFacts
  <2>4. heads[id].sequence >= s /\ heads[id].sequence \in Nat
    BY <1>1, HeadFields DEF EntriesTypeOK, Held
  <2>5. op.next.sequence >= s
    BY <2>2, <2>4
  <2> QED
    BY <1>0, <1>4, <1>5, <2>3, <2>5, HeadFields, PerformObjects
<1> QED
  BY <1>2, <1>3, <1>5 DEF Held

\* The synced heads of a recovery stay synced until its own next head is renamed.
LEMMA SettledStays ==
  ASSUME EntriesTypeOK, OpTypeOK, op \in Operation, Perform, NEW id \in Ids,
         op.kind = "Clear" => op.id # id,
         ~ (op.kind \in Writing /\ op.id = id /\ Position(op) = 5),
         disk.heads[id] = {heads[id]} \/ Renamed(id)
  PROVE  disk'.heads[id] = {heads'[id]}
<1>1. CASE disk.heads[id] = {heads[id]}
  BY <1>1, PerformHeads
<1>2. CASE Renamed(id)
  <2>1. SyncsHeads
    BY <1>2, WriteDoes DEF Renamed
  <2> QED
    BY <2>1, HeadsSynced
<1> QED
  BY <1>1, <1>2

\* No index that the disk may hold ever names a recovery without a head: a
\* publication names it last, a retirement first.
LEMMA NoneDanglingStays ==
  ASSUME EntriesTypeOK, OpTypeOK, op \in Operation, OperationFacts, Perform, NoneDangling
  PROVE  NoneDangling'
<1>0. op.id \in Ids /\ op.next \in AnyHead /\ op.next # NoHead
  BY HeadFields DEF Operation
<1>1. CASE heads' = heads
  <2>1. ASSUME NEW id \in Ids, NoHead \notin disk.heads[id] PROVE NoHead \notin disk'.heads[id]
    <3>1. heads[id] \in disk.heads[id]
      BY DEF EntriesTypeOK
    <3>2. CASE disk'.heads = disk.heads
      BY <2>1, <3>2
    <3>3. CASE disk'.heads # disk.heads
      BY <1>1, <2>1, <3>1, <3>3, PerformHeads
    <3> QED
      BY <3>2, <3>3
  <2>2. ASSUME NEW active \in disk'.index, NEW id \in active
        PROVE  NoHead \notin disk.heads[id]
    <3>0. index \in disk.index
      BY DEF EntriesTypeOK
    <3>1. CASE active \in disk.index \/ active = index \ {op.id}
      BY <3>0, <3>1 DEF NoneDangling
    <3>2. CASE active \notin disk.index /\ active # index \ {op.id}
      <4>1. op.kind = "Publish" /\ Position(op) = 7 /\ active = index \cup {op.id}
        BY <3>2, PerformIndex
      <4>2. disk.heads[op.id] = {op.next}
        BY <4>1 DEF OperationFacts, WriteFacts, Writing
      <4> QED
        BY <1>0, <3>0, <4>1, <4>2 DEF NoneDangling
    <3> QED
      BY <3>1, <3>2
  <2>3. \A active \in disk'.index : active \subseteq Ids
    <3>1. index \subseteq Ids /\ \A active \in disk.index : active \subseteq Ids
      BY DEF EntriesTypeOK
    <3>2. index \cup {op.id} \subseteq Ids /\ index \ {op.id} \subseteq Ids
      BY <1>0, <3>1
    <3> QED
      BY <3>1, <3>2, PerformIndex
  <2> QED
    BY <2>1, <2>2, <2>3 DEF NoneDangling
<1>2. CASE heads' # heads
  <2>1. disk'.index = disk.index
    BY <1>2, PerformHeads
  <2>2. \A active \in disk.index : active \subseteq Ids
    BY DEF EntriesTypeOK
  <2>3. CASE op.kind = "Clear"
    <3>1. op.at = 3
      BY <1>2, <2>3, PerformHeads DEF Writing
    <3>2. \A active \in disk.index : op.id \notin active
      BY <2>3, <3>1 DEF OperationFacts, ClearFacts
    <3> QED
      BY <1>2, <2>1, <2>2, <3>2, PerformHeads DEF NoneDangling
  <2>4. CASE op.kind # "Clear"
    BY <1>0, <1>2, <2>1, <2>2, <2>4, PerformHeads DEF NoneDangling
  <2> QED
    BY <2>3, <2>4
<1> QED
  BY <1>1, <1>2

\* A recovery that no index names is named by none until it is published.
LEMMA OutStaysOut ==
  ASSUME EntriesTypeOK, OpTypeOK, op \in Operation, Perform, NEW id \in Ids,
         op.kind = "Publish" => op.id # id,
         \A active \in disk.index : id \notin active
  PROVE  \A active \in disk'.index : id \notin active
<1>1. index \in disk.index
  BY DEF EntriesTypeOK
<1> QED
  BY <1>1, PerformIndex

-----------------------------------------------------------------------------
(* Operations begin.                                                       *)

\* An operation begins at its first step and has written nothing.
LEMMA Begins ==
  ASSUME EntriesTypeOK, NEW kind \in Kinds, NEW id \in Ids, NEW next \in AnyHead,
         Begin(kind, id, next)
  PROVE  /\ op' \in Operation /\ op' # Free
         /\ op'.kind = kind /\ op'.id = id /\ op'.next = next
         /\ op'.old = heads[id] /\ op'.at = 1
         /\ op'.at <= Len(Steps[op'.kind])
         /\ UNCHANGED entries
<1>1. op' = [kind |-> kind, id |-> id, next |-> next, old |-> heads[id], at |-> 1]
      /\ UNCHANGED entries
  BY DEF Begin
<1>2. heads[id] \in AnyHead \cup {NoHead}
  BY DEF EntriesTypeOK
<1>3. op' \in Operation /\ op' # Free
  BY <1>1, <1>2 DEF Operation, Free, Kinds, Writing
<1>4. 1 <= Len(Steps[kind])
  <2>1. \/ Steps[kind] = Steps.Publish \/ Steps[kind] = Steps.Replace
        \/ Steps[kind] = Steps.Rebase \/ Steps[kind] = Steps.Clear
        \/ Steps[kind] = Steps.Confirm
    BY DEF Kinds, Writing
  <2> QED
    BY <2>1, PublishTable, ReplaceTable, RebaseTable, ClearTable, ConfirmTable
<1> QED
  BY <1>1, <1>3, <1>4

\* What an idle store is like.
LEMMA IdleIs ==
  ASSUME StoreInvariant, Idle
  PROVE  store = "Open" /\ op = Free /\ op.kind = "Free" /\ op.kind \notin Kinds
BY DEF Idle, Free, Kinds, Writing

\* What a step keeps that leaves the entries alone and marks nothing as ready.
LEMMA IdleKeeps ==
  ASSUME StoreInvariant, Idle, UNCHANGED <<entries, store, authority, restartedUnsynced>>,
         \A id \in Ids : status'[id] \in {"Ready", "Cleared", "Unused"} => status'[id] = status[id]
  PROVE  /\ EntriesTypeOK' /\ ClearedStaysCleared' /\ DurableInv' /\ OpensAgain'
         /\ (\A id \in Ids : status[id] = "Unused" => heads[id] = NoHead /\ id \notin index)
         /\ UnusedAbsent'
<1>0. store = "Open" /\ op.kind = "Free" /\ op.kind \notin Writing /\ store' = "Open"
      /\ UNCHANGED <<index, heads, objects, disk>>
  BY IdleIs DEF Kinds, entries
<1> USE DEF StoreInvariant
<1>1. EntriesTypeOK' /\ OpensAgain'
  BY <1>0 DEF EntriesTypeOK, OpensAgain
<1>2. ClearedStaysCleared'
  BY <1>0 DEF ClearedStaysCleared
<1>3. \A id \in Ids : status[id] = "Unused" => heads[id] = NoHead /\ id \notin index
  BY <1>0 DEF UnusedAbsent
<1>4. UnusedAbsent'
  BY <1>0, <1>3 DEF UnusedAbsent
<1>5. DurableInv'
  <2>1. ASSUME NEW id \in Ids, NEW s PROVE Held(id, s) => Held(id, s)'
    BY <1>0 DEF Held, Durable
  <2>2. ReadyHeld => ReadyHeld'
    BY <2>1 DEF ReadyHeld
  <2>3. ReadySettled => ReadySettled'
    BY <1>0 DEF ReadySettled, Renamed
  <2>4. NoneDangling => NoneDangling'
    BY <1>0 DEF NoneDangling
  <2>5. OpeningSynced'
    BY <1>0 DEF OpeningSynced
  <2> QED
    BY <2>2, <2>3, <2>4, <2>5 DEF DurableInv
<1> QED
  BY <1>1, <1>2, <1>3, <1>4, <1>5

\* A base PDF is streamed for a new recovery.
LEMMA StageNewKeeps ==
  ASSUME NEW id \in Ids, StoreInvariant, StageNew(id)
  PROVE  StoreInvariant'
<1> USE DEF StageNew, session
<1>0. Idle /\ op.kind \notin Kinds /\ store = "Open" /\ op = Free /\ op.kind = "Free"
  BY IdleIs
<1>1. EntriesTypeOK' /\ ClearedStaysCleared' /\ DurableInv' /\ OpensAgain' /\ UnusedAbsent'
  BY <1>0, IdleKeeps
<1>2. OpTypeOK'
  BY <1>0 DEF StoreInvariant, OpTypeOK, Free
<1>3. SessionTypeOK'
  BY DEF StoreInvariant, SessionTypeOK
<1>4. OperationFacts' /\ StatusFacts'
  BY <1>0 DEF OperationFacts, StatusFacts, Kinds
<1> QED
  BY <1>1, <1>2, <1>3, <1>4 DEF StoreInvariant

\* A base PDF is streamed for a recovery whose session holds its current head.
LEMMA StageRebaseKeeps ==
  ASSUME NEW id \in Ids, StoreInvariant, StageRebase(id)
  PROVE  StoreInvariant'
<1> USE DEF StageRebase, session
<1>0. Idle /\ op.kind \notin Kinds /\ store = "Open" /\ op = Free /\ op.kind = "Free"
  BY IdleIs
<1>1. EntriesTypeOK' /\ ClearedStaysCleared' /\ DurableInv' /\ OpensAgain' /\ UnusedAbsent'
  BY <1>0, IdleKeeps
<1>2. authority[id] \in AnyHead
  BY DEF StoreInvariant, SessionTypeOK
<1>3. OpTypeOK'
  BY <1>0, <1>2 DEF StoreInvariant, OpTypeOK, Free
<1>4. SessionTypeOK'
  BY DEF StoreInvariant, SessionTypeOK
<1>5. UNCHANGED <<heads, index, status>> /\ authority[id].sequence \in Nat
      /\ heads[id].sequence = authority[id].sequence
  BY <1>2, HeadFields DEF entries, Current, SameCheckpoint
<1>6. OperationFacts' /\ StatusFacts'
  BY <1>0, <1>5 DEF OperationFacts, StatusFacts, Kinds
<1> QED
  BY <1>1, <1>3, <1>4, <1>6 DEF StoreInvariant

\* A staged operation may be refused.
LEMMA FreeKeepsTypes ==
  ASSUME StoreInvariant, op = Free, op' = Free, UNCHANGED store, store = "Open",
         staged' = NotStaging
  PROVE  OpTypeOK'
BY DEF StoreInvariant, OpTypeOK, Free, NotStaging, Kinds, Writing

\* An operation that begins has the shape of one, and is at a step of its table.
LEMMA BeginKeepsTypes ==
  ASSUME StoreInvariant, store = "Open", UNCHANGED store, op' \in Operation, op' # Free,
         op'.at <= Len(Steps[op'.kind]),
         staged' = NotStaging \/ (staged' = staged /\ op'.kind \notin {"Publish", "Rebase"})
  PROVE  OpTypeOK'
<1>1. op'.kind \in Kinds /\ op'.kind # "Collect"
  BY DEF Operation, Kinds, Writing
<1> QED
  BY <1>1 DEF StoreInvariant, OpTypeOK, NotStaging, Kinds, Writing

\* The identifier of a new recovery is one that nothing names.
LEMMA BeginPublishKeeps ==
  ASSUME NEW base, NEW timeline, StoreInvariant, BeginPublish(base, timeline)
  PROVE  StoreInvariant'
<1> DEFINE id == staged.id
           next == [sequence |-> 1, base |-> base, timeline |-> timeline]
<1>0. Idle /\ op.kind \notin Kinds /\ store = "Open" /\ op = Free /\ op.kind = "Free"
      /\ UNCHANGED <<store, openings, restartedUnsynced>> /\ staged' = NotStaging
      /\ staged'.kind = "Free"
  BY IdleIs DEF BeginPublish, NotStaging
<1>1. id \in Ids /\ status[id] = "Unused" /\ heads[id] = NoHead /\ id \notin index
  <2>1. staged \in StagedNew
    BY DEF StoreInvariant, OpTypeOK, BeginPublish, NotStaging
  <2> QED
    BY <1>0, <2>1 DEF StoreInvariant, StatusFacts, UnusedAbsent, BeginPublish
<1>2. next \in AnyHead
  BY <1>1 DEF BeginPublish, AnyHead, Objects
<1>3. CASE Begin("Publish", id, next) /\ UNCHANGED session
  <2>1. /\ op' \in Operation /\ op' # Free
        /\ op'.kind = "Publish" /\ op'.id = id /\ op'.next = next
        /\ op'.old = heads[id] /\ op'.at = 1
        /\ op'.at <= Len(Steps[op'.kind])
        /\ UNCHANGED <<entries, status, authority>>
    BY <1>1, <1>2, <1>3, Begins DEF Kinds, Writing, session, StoreInvariant
  <2>2. EntriesTypeOK' /\ ClearedStaysCleared' /\ DurableInv' /\ OpensAgain' /\ UnusedAbsent'
    BY <1>0, <2>1, IdleKeeps
  <2>3. OpTypeOK'
    BY <1>0, <2>1, BeginKeepsTypes
  <2>4. SessionTypeOK'
    BY <2>1 DEF StoreInvariant, SessionTypeOK
  <2>5. Position(op') = 1 /\ UNCHANGED <<heads, index>> /\ next.sequence = 1
    BY <2>1 DEF Position, entries
  <2>6. OperationFacts'
    BY <1>1, <2>1, <2>5 DEF OperationFacts, WriteFacts
  <2>7. StatusFacts'
    BY <1>0, <1>1, <2>1 DEF StatusFacts
  <2> QED
    BY <2>2, <2>3, <2>4, <2>6, <2>7 DEF StoreInvariant
<1>4. CASE status' = [status EXCEPT ![id] = "Failed"] /\ UNCHANGED <<entries, op, authority>>
  <2>0. status' \in [Ids -> Statuses]
        /\ \A j \in Ids : status'[j] = status[j] \/ (j = id /\ status'[j] = "Failed")
    BY <1>1, <1>4 DEF StoreInvariant, SessionTypeOK, Statuses
  <2>1. EntriesTypeOK' /\ ClearedStaysCleared' /\ DurableInv' /\ OpensAgain' /\ UnusedAbsent'
    BY <1>0, <1>4, <2>0, IdleKeeps
  <2>2. OpTypeOK'
    BY <1>0, <1>4, FreeKeepsTypes
  <2>3. SessionTypeOK'
    BY <1>4, <2>0 DEF StoreInvariant, SessionTypeOK
  <2>4. OperationFacts' /\ StatusFacts'
    BY <1>0, <1>4 DEF OperationFacts, StatusFacts, Kinds, NotStaging
  <2> QED
    BY <2>1, <2>2, <2>3, <2>4 DEF StoreInvariant
<1> QED
  BY <1>3, <1>4 DEF BeginPublish

\* The head is looked at again when the base PDF is staged, so the next one
\* succeeds it.
LEMMA BeginRebaseKeeps ==
  ASSUME NEW base, NEW timeline, StoreInvariant, BeginRebase(base, timeline)
  PROVE  StoreInvariant'
<1> DEFINE id == staged.id
           next == [sequence |-> staged.expected.sequence + 1, base |-> base,
                    timeline |-> timeline]
<1>0. Idle /\ op.kind \notin Kinds /\ store = "Open" /\ op = Free /\ op.kind = "Free"
      /\ UNCHANGED <<store, openings, restartedUnsynced, status, authority>>
      /\ staged' = NotStaging /\ staged'.kind = "Free"
  BY IdleIs DEF BeginRebase, NotStaging, session
<1>1. /\ id \in Ids /\ staged.expected \in AnyHead /\ staged.kind = "Rebase"
      /\ status[id] # "Unused" /\ staged.expected.sequence \in Nat
  <2>1. staged \in StagedRebase
    BY DEF StoreInvariant, OpTypeOK, BeginRebase, NotStaging
  <2> QED
    BY <2>1, HeadFields DEF StoreInvariant, StatusFacts
<1>2. next \in AnyHead
  BY <1>1 DEF BeginRebase, AnyHead, Objects
<1>3. CASE Current(id, staged.expected) /\ Begin("Rebase", id, next)
  <2>1. /\ op' \in Operation /\ op' # Free
        /\ op'.kind = "Rebase" /\ op'.id = id /\ op'.next = next
        /\ op'.old = heads[id] /\ op'.at = 1
        /\ op'.at <= Len(Steps[op'.kind])
        /\ UNCHANGED entries
    BY <1>1, <1>2, <1>3, Begins DEF Kinds, Writing, StoreInvariant
  <2>2. EntriesTypeOK' /\ ClearedStaysCleared' /\ DurableInv' /\ OpensAgain' /\ UnusedAbsent'
    BY <1>0, <2>1, IdleKeeps
  <2>3. OpTypeOK'
    BY <1>0, <2>1, BeginKeepsTypes
  <2>4. SessionTypeOK'
    BY <1>0 DEF StoreInvariant, SessionTypeOK
  <2>5. /\ Position(op') = 1 /\ UNCHANGED <<heads, index>> /\ id \in index
        /\ heads[id].sequence = staged.expected.sequence
        /\ next.sequence = heads[id].sequence + 1
    BY <1>3, <2>1 DEF Position, entries, Current, SameCheckpoint
  <2>6. OperationFacts'
    BY <1>1, <2>1, <2>5 DEF OperationFacts, WriteFacts
  <2>7. status[id] # "Ambiguous"
    BY <1>1, <2>5 DEF StoreInvariant, StatusFacts
  <2>8. StatusFacts'
    BY <1>0, <1>1, <2>1, <2>7 DEF StatusFacts
  <2> QED
    BY <2>2, <2>3, <2>4, <2>6, <2>8 DEF StoreInvariant
<1>4. CASE UNCHANGED <<entries, op>>
  <2>1. EntriesTypeOK' /\ ClearedStaysCleared' /\ DurableInv' /\ OpensAgain' /\ UnusedAbsent'
    BY <1>0, <1>4, IdleKeeps
  <2>2. OpTypeOK'
    BY <1>0, <1>4, FreeKeepsTypes
  <2>3. SessionTypeOK'
    BY <1>0 DEF StoreInvariant, SessionTypeOK
  <2>4. OperationFacts' /\ StatusFacts'
    BY <1>0, <1>4 DEF OperationFacts, StatusFacts, Kinds, NotStaging
  <2> QED
    BY <2>1, <2>2, <2>3, <2>4 DEF StoreInvariant
<1> QED
  BY <1>3, <1>4 DEF BeginRebase

\* A confirmation begins with the head in place and its objects there.
LEMMA BeginConfirmKeeps ==
  ASSUME NEW id \in Ids, StoreInvariant, Idle, status[id] \in {"Ready", "Ambiguous"},
         id \in index, heads[id] # NoHead,
         heads[id].base \in objects, heads[id].timeline \in objects,
         Begin("Confirm", id, heads[id]),
         UNCHANGED <<staged, store, session, openings, restartedUnsynced>>
  PROVE  StoreInvariant'
<1>0. op.kind \notin Kinds /\ store = "Open" /\ op = Free /\ op.kind = "Free"
      /\ UNCHANGED <<status, authority>>
  BY IdleIs DEF session
<1>1. heads[id] \in AnyHead
  BY DEF StoreInvariant, EntriesTypeOK
<1>2. /\ op' \in Operation /\ op' # Free
      /\ op'.kind = "Confirm" /\ op'.id = id /\ op'.next = heads[id]
      /\ op'.old = heads[id] /\ op'.at = 1
      /\ op'.at <= Len(Steps[op'.kind])
      /\ UNCHANGED entries
  BY <1>1, Begins DEF Kinds, StoreInvariant
<1>3. EntriesTypeOK' /\ ClearedStaysCleared' /\ DurableInv' /\ OpensAgain' /\ UnusedAbsent'
  BY <1>0, <1>2, IdleKeeps
<1>4. OpTypeOK'
  BY <1>0, <1>2, BeginKeepsTypes
<1>5. SessionTypeOK'
  BY <1>0 DEF StoreInvariant, SessionTypeOK
<1>6. OperationFacts'
  BY <1>2 DEF OperationFacts, ConfirmFacts, Writing, entries
<1>7. UNCHANGED <<heads, index>>
  BY <1>2 DEF entries
<1>8. StatusFacts'
  BY <1>0, <1>2, <1>7 DEF StatusFacts, StoreInvariant
<1> QED
  BY <1>3, <1>4, <1>5, <1>6, <1>8 DEF StoreInvariant

\* A session asks for a confirmation of an ambiguous checkpoint.
LEMMA ConfirmKeeps ==
  ASSUME NEW id \in Ids, StoreInvariant, Confirm(id)
  PROVE  StoreInvariant'
BY BeginConfirmKeeps DEF Confirm, Current, Complete

\* The same timeline is confirmed, another one replaces the head's.
LEMMA ReplaceKeeps ==
  ASSUME NEW id \in Ids, NEW timeline \in Timelines[id], StoreInvariant, Replace(id, timeline)
  PROVE  StoreInvariant'
<1> DEFINE next == [sequence |-> heads[id].sequence + 1, base |-> heads[id].base,
                    timeline |-> timeline]
<1>0. Idle /\ op.kind \notin Kinds /\ store = "Open" /\ op = Free /\ op.kind = "Free"
      /\ UNCHANGED <<staged, store, openings, restartedUnsynced, status, authority>>
  BY IdleIs DEF Replace, session
<1>1. /\ heads[id] \in AnyHead /\ id \in index /\ status[id] = "Ready"
      /\ heads[id].timeline = authority[id].timeline /\ heads[id].base \in objects
  BY DEF StoreInvariant, EntriesTypeOK, Replace, Current, SameCheckpoint
<1>2. next \in AnyHead /\ next.sequence = heads[id].sequence + 1 /\ next.base = heads[id].base
  <2>1. timeline \in Objects
    BY DEF Objects
  <2>2. heads[id].base \in Objects /\ heads[id].sequence \in Nat
    BY <1>1, HeadFields
  <2> QED
    BY <2>1, <2>2 DEF AnyHead
<1>3. CASE timeline = authority[id].timeline
  <2>1. timeline \in objects /\ Begin("Confirm", id, heads[id])
    BY <1>3 DEF Replace
  <2>2. heads[id] # NoHead
    BY <1>1, HeadFields
  <2> QED
    BY <1>0, <1>1, <1>3, <2>1, <2>2, BeginConfirmKeeps DEF session
<1>4. CASE timeline # authority[id].timeline
  <2>0. Begin("Replace", id, next)
    BY <1>4 DEF Replace
  <2>1. /\ op' \in Operation /\ op' # Free
        /\ op'.kind = "Replace" /\ op'.id = id /\ op'.next = next
        /\ op'.old = heads[id] /\ op'.at = 1
        /\ op'.at <= Len(Steps[op'.kind])
        /\ UNCHANGED entries
    BY <1>2, <2>0, Begins DEF Kinds, Writing, StoreInvariant
  <2>2. EntriesTypeOK' /\ ClearedStaysCleared' /\ DurableInv' /\ OpensAgain' /\ UnusedAbsent'
    BY <1>0, <2>1, IdleKeeps
  <2>3. OpTypeOK'
    BY <1>0, <2>1, BeginKeepsTypes
  <2>4. SessionTypeOK'
    BY <1>0 DEF StoreInvariant, SessionTypeOK
  <2>5. Position(op') = 2 /\ UNCHANGED <<heads, index, objects>>
    BY <2>1 DEF Position, entries
  <2>6. OperationFacts'
    BY <1>1, <1>2, <2>1, <2>5 DEF OperationFacts, WriteFacts
  <2>7. StatusFacts'
    BY <1>0, <1>1, <2>1, <2>5 DEF StatusFacts, StoreInvariant
  <2> QED
    BY <2>2, <2>3, <2>4, <2>6, <2>7 DEF StoreInvariant
<1> QED
  BY <1>3, <1>4

\* A recovery that is retired is no longer relied on.
LEMMA ClearKeeps ==
  ASSUME NEW id \in Ids, StoreInvariant, Clear(id)
  PROVE  StoreInvariant'
<1>0. Idle /\ op.kind \notin Kinds /\ store = "Open" /\ op = Free /\ op.kind = "Free"
      /\ UNCHANGED <<staged, store, openings, restartedUnsynced, authority>>
      /\ status[id] \in {"Ready", "Ambiguous"}
  BY IdleIs DEF Clear
<1>1. PICK next \in {"Closing", "Retained"} : status' = [status EXCEPT ![id] = next]
  BY DEF Clear
<1>2. /\ status' \in [Ids -> Statuses] /\ status'[id] = next
      /\ \A j \in Ids \ {id} : status'[j] = status[j]
  BY <1>1 DEF StoreInvariant, SessionTypeOK, Statuses
<1>3. SessionTypeOK'
  BY <1>0, <1>2 DEF StoreInvariant, SessionTypeOK
<1>4. CASE Current(id, authority[id])
  <2>1. Begin("Clear", id, heads[id]) /\ status'[id] = "Closing"
    BY <1>4, <1>2 DEF Clear, StoreInvariant, SessionTypeOK
  <2>2. heads[id] \in AnyHead
    BY <1>4 DEF StoreInvariant, EntriesTypeOK, Current, SameCheckpoint
  <2>3. /\ op' \in Operation /\ op' # Free
        /\ op'.kind = "Clear" /\ op'.id = id /\ op'.at = 1
        /\ op'.at <= Len(Steps[op'.kind])
        /\ UNCHANGED entries
    BY <2>1, <2>2, Begins DEF Kinds, StoreInvariant
  <2>4. EntriesTypeOK' /\ ClearedStaysCleared' /\ DurableInv' /\ OpensAgain' /\ UnusedAbsent'
    BY <1>0, <1>1, <1>2, <2>3, IdleKeeps
  <2>5. OpTypeOK'
    BY <1>0, <2>3, BeginKeepsTypes
  <2>6. OperationFacts'
    BY <2>3 DEF OperationFacts, ClearFacts, Writing
  <2>7. UNCHANGED <<heads, index>>
    BY <2>3 DEF entries
  <2>8. StatusFacts'
    BY <1>0, <1>2, <2>1, <2>3, <2>7 DEF StatusFacts, StoreInvariant, OpTypeOK, NotStaging
  <2> QED
    BY <1>3, <2>4, <2>5, <2>6, <2>8 DEF StoreInvariant
<1>5. CASE ~ Current(id, authority[id])
  <2>1. UNCHANGED <<entries, op>>
    BY <1>5 DEF Clear
  <2>2. EntriesTypeOK' /\ ClearedStaysCleared' /\ DurableInv' /\ OpensAgain' /\ UnusedAbsent'
    BY <1>0, <1>1, <1>2, <2>1, IdleKeeps
  <2>3. OpTypeOK'
    BY <1>0, <2>1 DEF StoreInvariant, OpTypeOK
  <2>4. OperationFacts'
    BY <1>0, <2>1 DEF OperationFacts, Kinds
  <2>5. UNCHANGED <<heads, index>>
    BY <2>1 DEF entries
  <2>6. StatusFacts'
    BY <1>0, <1>2, <2>1, <2>5 DEF StatusFacts, StoreInvariant, OpTypeOK, NotStaging
  <2> QED
    BY <1>3, <2>2, <2>3, <2>4, <2>6 DEF StoreInvariant
<1> QED
  BY <1>4, <1>5

-----------------------------------------------------------------------------
(* Operations go on and end.                                               *)

\* An operation leaves the heads of other recoveries, and their place in the
\* index, alone.
LEMMA PerformOthers ==
  ASSUME EntriesTypeOK, OpTypeOK, op \in Operation, Perform, NEW id \in Ids \ {op.id}
  PROVE  heads'[id] = heads[id] /\ (id \in index' <=> id \in index)
<1>1. op.id \in Ids /\ op.next \in AnyHead
  BY DEF Operation
<1>2. op.next.base \in Objects /\ op.next.timeline \in Objects
  BY <1>1, HeadFields
<1>3. index \cup {op.id} \in SUBSET Ids /\ index \ {op.id} \in SUBSET Ids
  BY <1>1 DEF EntriesTypeOK
<1>4. CASE op.kind \in Writing
  BY <1>1, <1>2, <1>3, <1>4, WriteDoes, Added, ObjectsSynced, HeadsSynced, StoreSynced,
     HeadSet, IndexSet, Dropped
<1>5. CASE op.kind = "Confirm"
  BY <1>5, ConfirmDoes, ObjectsSynced, HeadsSynced, StoreSynced
<1>6. CASE op.kind = "Clear"
  BY <1>1, <1>3, <1>6, ClearDoes, ObjectsSynced, HeadsSynced, StoreSynced,
     HeadSet, IndexSet, Dropped
<1> QED
  BY <1>4, <1>5, <1>6 DEF Operation, Kinds

\* What a step of operation o has done to the entries, whatever it then tells
\* the session.
Performed(o) ==
  /\ EntriesTypeOK'
  /\ o.kind \in Writing => WriteFacts(o, Position(o) + 1)'
  /\ o.kind = "Confirm" => ConfirmFacts(o, o.at + 1)'
  /\ o.kind = "Clear" => ClearFacts(o, o.at + 1)'
  /\ \A id \in Ids \ {o.id} : heads'[id] = heads[id] /\ (id \in index' <=> id \in index)
  /\ \A id \in Ids : status[id] = "Cleared" => \A active \in disk'.index : id \notin active
  /\ ~ restartedUnsynced =>
       /\ NoneDangling'
       /\ \A id \in Ids : status[id] = "Ready" =>
            /\ \A s \in Nat : s = authority[id].sequence => Held(id, s)'
            /\ \/ disk'.heads[id] = {heads'[id]}
               \/ o.kind \in Writing /\ o.id = id /\ Position(o) = 5

\* A step under the lease has that effect.
LEMMA Performs ==
  ASSUME StoreInvariant, store = "Open", NEW o \in Operation, o = op, Perform
  PROVE  Performed(o)
<1>0. /\ EntriesTypeOK /\ OpTypeOK /\ OperationFacts /\ op \in Operation
      /\ o.at \in Nat \ {0} /\ o.id \in Ids /\ o.kind \in Kinds /\ o # Free
  BY DEF StoreInvariant, Operation, Free, Kinds, Writing
<1>1. o.at <= Len(Steps[o.kind])
  BY <1>0 DEF OpTypeOK
<1>2. ASSUME o.kind \in Writing
      PROVE  EntriesTypeOK' /\ WriteFacts(o, Position(o) + 1)'
  <2>2. Position(o) \in 1 .. 8
    <3>1. CASE o.kind = "Publish"
      <4>1. Len(Steps[o.kind]) = 8
        BY <3>1, PublishTable
      <4> QED
        BY <1>0, <1>1, <3>1, <4>1 DEF Position
    <3>2. CASE o.kind = "Replace"
      <4>1. Len(Steps[o.kind]) = 7
        BY <3>2, ReplaceTable
      <4> QED
        BY <1>0, <1>1, <3>2, <4>1 DEF Position
    <3>3. CASE o.kind = "Rebase"
      <4>1. Len(Steps[o.kind]) = 8
        BY <3>3, RebaseTable
      <4> QED
        BY <1>0, <1>1, <3>3, <4>1 DEF Position
    <3> QED
      BY <1>2, <3>1, <3>2, <3>3 DEF Writing
  <2>3. WriteFacts(o, Position(o))
    BY <1>0, <1>2 DEF OperationFacts
  <2> QED
    BY <1>0, <1>2, <2>2, <2>3, WritesAdvance
<1>3. ASSUME o.kind = "Confirm"
      PROVE  EntriesTypeOK' /\ ConfirmFacts(o, o.at + 1)'
  <2>1. Steps[o.kind] = Steps.Confirm
    BY <1>3
  <2>2. o.at \in 1 .. 3
    BY <1>0, <1>1, <2>1, ConfirmTable
  <2>3. ConfirmFacts(o, o.at)
    BY <1>0, <1>3 DEF OperationFacts
  <2> QED
    BY <1>0, <1>3, <2>2, <2>3, ConfirmAdvances
<1>4. ASSUME o.kind = "Clear"
      PROVE  EntriesTypeOK' /\ ClearFacts(o, o.at + 1)'
  <2>1. Steps[o.kind] = Steps.Clear
    BY <1>4
  <2>2. o.at \in 1 .. 7
    BY <1>0, <1>1, <2>1, ClearTable
  <2>3. ClearFacts(o, o.at)
    BY <1>0, <1>4 DEF OperationFacts
  <2> QED
    BY <1>0, <1>4, <2>2, <2>3, ClearAdvances
<1>5. EntriesTypeOK'
  BY <1>0, <1>2, <1>3, <1>4 DEF Kinds
<1>6. \A id \in Ids \ {o.id} : heads'[id] = heads[id] /\ (id \in index' <=> id \in index)
  BY <1>0, PerformOthers
<1>7. ASSUME NEW id \in Ids, status[id] = "Cleared"
      PROVE  \A active \in disk'.index : id \notin active
  <2>1. \A active \in disk.index : id \notin active
    BY <1>7 DEF StoreInvariant, ClearedStaysCleared
  <2>2. op.kind = "Publish" => op.id # id
    BY <1>7 DEF StoreInvariant, StatusFacts
  <2> QED
    BY <1>0, <2>1, <2>2, OutStaysOut
<1>8. ASSUME ~ restartedUnsynced
      PROVE  /\ NoneDangling'
             /\ \A id \in Ids : status[id] = "Ready" =>
                  /\ \A s \in Nat : s = authority[id].sequence => Held(id, s)'
                  /\ \/ disk'.heads[id] = {heads'[id]}
                     \/ o.kind \in Writing /\ o.id = id /\ Position(o) = 5
  <2>1. NoneDangling /\ ReadyHeld /\ ReadySettled
    BY <1>8 DEF StoreInvariant, DurableInv
  <2>2. NoneDangling'
    BY <1>0, <2>1, NoneDanglingStays
  <2>3. ASSUME NEW id \in Ids, status[id] = "Ready"
        PROVE  /\ \A s \in Nat : s = authority[id].sequence => Held(id, s)'
               /\ \/ disk'.heads[id] = {heads'[id]}
                  \/ o.kind \in Writing /\ o.id = id /\ Position(o) = 5
    <3>1. op.kind \in {"Clear", "Publish"} => op.id # id
      BY <2>3 DEF StoreInvariant, StatusFacts
    <3>2. disk.heads[id] = {heads[id]} \/ Renamed(id)
      BY <2>1, <2>3 DEF ReadySettled
    <3>3. ASSUME NEW s \in Nat, s = authority[id].sequence PROVE Held(id, s)'
      <4>1. Held(id, s)
        BY <2>1, <2>3, <3>3 DEF ReadyHeld
      <4> QED
        BY <1>0, <3>1, <3>2, <4>1, HeldStays
    <3>4. ASSUME ~ (o.kind \in Writing /\ o.id = id /\ Position(o) = 5)
          PROVE  disk'.heads[id] = {heads'[id]}
      BY <1>0, <3>1, <3>2, <3>4, SettledStays
    <3> QED
      BY <3>3, <3>4
  <2> QED
    BY <2>2, <2>3
<1> QED
  BY <1>2, <1>3, <1>4, <1>5, <1>6, <1>7, <1>8 DEF Performed

\* The steps whose failure is passed over.
PassedOver == Removals \cup {"TrySyncHeads", "TrySyncObjects"}

\* They come after the head was synced, and in a retirement after the index was.
LEMMA PassedOverAt ==
  ASSUME NEW o \in Operation, o.kind \in Kinds, o.at \in Nat \ {0}, o.at <= Len(Steps[o.kind]),
         Steps[o.kind][o.at] \in PassedOver
  PROVE  /\ o.kind # "Confirm"
         /\ o.kind = "Clear" => o.at >= 3
         /\ o.kind \in Writing => o.kind # "Publish" /\ Position(o) >= 7
<1> USE DEF PassedOver, Removals
<1>1. CASE o.kind = "Publish"
  <2>1. o.at \in {1, 2, 3, 4, 5, 6, 7, 8}
    BY <1>1, PublishTable
  <2> QED
    BY <1>1, <2>1, PublishTable
<1>2. CASE o.kind = "Replace"
  <2>1. o.at \in {1, 2, 3, 4, 5, 6, 7}
    BY <1>2, ReplaceTable
  <2> QED
    BY <1>2, <2>1, ReplaceTable DEF Position
<1>3. CASE o.kind = "Rebase"
  <2>1. o.at \in {1, 2, 3, 4, 5, 6, 7, 8}
    BY <1>3, RebaseTable
  <2>2. o.at \in {7, 8}
    BY <1>3, <2>1, RebaseTable
  <2>3. Position(o) = o.at
    BY <1>3 DEF Position
  <2> QED
    BY <1>3, <2>2, <2>3
<1>4. CASE o.kind = "Confirm"
  <2>1. o.at \in {1, 2, 3}
    BY <1>4, ConfirmTable
  <2> QED
    BY <1>4, <2>1, ConfirmTable
<1>5. CASE o.kind = "Clear"
  <2>1. o.at \in {1, 2, 3, 4, 5, 6, 7}
    BY <1>5, ClearTable
  <2> QED
    BY <1>5, <2>1, ClearTable DEF Writing
<1> QED
  BY <1>1, <1>2, <1>3, <1>4, <1>5 DEF Kinds, Writing

\* A failed removal, and a failed sync at the end of a retirement, is passed over.
LEMMA Skips ==
  ASSUME StoreInvariant, store = "Open", NEW o \in Operation, o = op,
         NEW step \in PassedOver, Doing(step), UNCHANGED entries
  PROVE  Performed(o)
<1>0. /\ EntriesTypeOK /\ OpTypeOK /\ OperationFacts /\ op \in Operation
      /\ o.at \in Nat \ {0} /\ o.id \in Ids /\ o.kind \in Kinds /\ o # Free
      /\ UNCHANGED <<index, heads, objects, disk>>
  BY DEF StoreInvariant, Operation, Free, Kinds, Writing, entries
<1>1. o.at <= Len(Steps[o.kind]) /\ Steps[o.kind][o.at] \in PassedOver
  BY <1>0 DEF OpTypeOK, Doing
<1>2. /\ o.kind # "Confirm"
      /\ o.kind = "Clear" => o.at >= 3
      /\ o.kind \in Writing => o.kind # "Publish" /\ Position(o) >= 7
  BY <1>0, <1>1, PassedOverAt
<1>3. ASSUME o.kind \in Writing
      PROVE  Position(o) \in Nat /\ WriteFacts(o, Position(o)) /\ WriteFacts(o, Position(o) + 1)'
  <2>1. Position(o) \in Nat
    BY <1>0 DEF Position
  <2>2. WriteFacts(o, Position(o))
    BY <1>0, <1>3 DEF OperationFacts
  <2>3. ASSUME NEW p \in Nat, p >= 7, WriteFacts(o, p) PROVE WriteFacts(o, p + 1)'
    <3>1. /\ o.next.base \in objects /\ Durable(o.next.base)
          /\ o.next.timeline \in objects /\ Durable(o.next.timeline)
          /\ o.id \in index /\ o.next.sequence = o.old.sequence + 1 /\ o.kind # "Publish"
          /\ heads[o.id] = o.next /\ disk.heads[o.id] = {o.next}
      BY <1>2, <1>3, <2>3 DEF WriteFacts
    <3>2. /\ o.next.base \in objects' /\ Durable(o.next.base)'
          /\ o.next.timeline \in objects' /\ Durable(o.next.timeline)'
          /\ o.id \in index' /\ heads'[o.id] = o.next /\ disk'.heads[o.id] = {o.next}
      BY <1>0, <3>1 DEF Durable
    <3>3. ~ (p + 1 <= 5)
      BY <2>3
    <3> QED
      BY <3>1, <3>2, <3>3 DEF WriteFacts
  <2> QED
    BY <1>2, <1>3, <2>1, <2>2, <2>3
<1>4. ASSUME o.kind = "Clear" PROVE ClearFacts(o, o.at + 1)'
  <2>1. ClearFacts(o, o.at)
    BY <1>0, <1>4 DEF OperationFacts
  <2> QED
    BY <1>0, <1>2, <1>4, <2>1 DEF ClearFacts
<1>5. EntriesTypeOK'
  BY <1>0 DEF EntriesTypeOK
<1>6. ASSUME ~ restartedUnsynced
      PROVE  /\ NoneDangling'
             /\ \A id \in Ids : status[id] = "Ready" =>
                  /\ \A s \in Nat : s = authority[id].sequence => Held(id, s)'
                  /\ disk'.heads[id] = {heads'[id]}
  <2>1. NoneDangling /\ ReadyHeld /\ ReadySettled
    BY <1>6 DEF StoreInvariant, DurableInv
  <2>2. NoneDangling'
    BY <1>0, <2>1 DEF NoneDangling
  <2>3. \A id \in Ids, s \in Nat : Held(id, s) => Held(id, s)'
    BY <1>0 DEF Held, Durable
  <2>4. \A id \in Ids : ~ Renamed(id)
    BY <1>0, <1>2 DEF Renamed
  <2> QED
    BY <1>0, <2>1, <2>2, <2>3, <2>4 DEF ReadyHeld, ReadySettled
<1> QED
  BY <1>0, <1>2, <1>3, <1>4, <1>5, <1>6
     DEF Performed, StoreInvariant, ClearedStaysCleared

\* An operation that is under way is at its next step.
LEMMA AdvanceKeeps ==
  ASSUME StoreInvariant, store = "Open", NEW o \in Operation, o = op, Performed(o),
         o.at # Len(Steps[o.kind]), op' = [op EXCEPT !.at = @ + 1],
         UNCHANGED <<staged, store, restartedUnsynced, status, authority>>
  PROVE  StoreInvariant'
<1>0. /\ o.at \in Nat \ {0} /\ o.id \in Ids /\ o.kind \in Kinds
      /\ o.next \in AnyHead /\ o.old \in AnyHead \cup {NoHead} /\ o # Free
      /\ o.at <= Len(Steps[o.kind])
  BY DEF StoreInvariant, OpTypeOK, Operation, Free, Kinds, Writing
<1>1. /\ op' \in Operation /\ op'.kind = o.kind /\ op'.id = o.id
      /\ op'.next = o.next /\ op'.old = o.old /\ op'.at = o.at + 1
  BY <1>0 DEF Operation
<1>2. op' # Free /\ Position(op') = Position(o) + 1 /\ o.kind # "Collect"
  BY <1>0, <1>1 DEF Position, Free, Kinds, Writing
<1>3. op'.at <= Len(Steps[op'.kind])
  BY <1>0, <1>1, StepCounts
<1>4. OpTypeOK'
  <2>1. op'.kind \in Kinds /\ op'.kind # "Collect" /\ store' = "Open"
    BY <1>0, <1>1, <1>2
  <2> QED
    BY <1>1, <1>2, <1>3, <2>1 DEF StoreInvariant, OpTypeOK
<1>5. SessionTypeOK'
  BY DEF StoreInvariant, SessionTypeOK
<1>6. OperationFacts'
  BY <1>1, <1>2 DEF Performed, OperationFacts, WriteFacts, ConfirmFacts, ClearFacts
<1>7. StatusFacts'
  <2>1. ASSUME staged.kind = "Rebase", staged.id = o.id, staged.id \in index'
        PROVE  /\ heads'[staged.id].sequence >= staged.expected.sequence
               /\ status[staged.id] = "Ambiguous"
                    => heads'[staged.id].sequence > staged.expected.sequence
    <3>0. staged.expected \in AnyHead /\ staged.expected.sequence \in Nat
      <4>1. staged \in StagedRebase
        BY <2>1 DEF StoreInvariant, OpTypeOK, NotStaging
      <4> QED
        BY <4>1, HeadFields
    <3>1. o.kind # "Clear"
      BY <1>0, <2>1 DEF Performed, ClearFacts
    <3>2. o.kind \notin {"Publish", "Rebase"}
      BY <2>1 DEF StoreInvariant, OpTypeOK, NotStaging
    <3>3. CASE o.kind = "Replace"
      <4>1. WriteFacts(o, Position(o)) /\ WriteFacts(o, Position(o) + 1)'
        BY <3>3 DEF StoreInvariant, OperationFacts, Performed, Writing
      <4>2. Position(o) \in Nat /\ (heads'[o.id] = o.old \/ heads'[o.id] = o.next)
        BY <1>0, <3>3, <4>1 DEF WriteFacts, Position
      <4>3. /\ o.old.sequence >= staged.expected.sequence
            /\ o.next.sequence = o.old.sequence + 1
            /\ status[o.id] = "Ready"
        BY <2>1, <3>3, <4>1 DEF StoreInvariant, StatusFacts, WriteFacts
      <4>4. o.old.sequence \in Nat
        BY <1>0, HeadFields DEF NoHead
      <4> QED
        BY <1>0, <2>1, <3>0, <4>2, <4>3, <4>4
    <3>4. CASE o.kind = "Confirm"
      <4>1. /\ heads[o.id] = o.next /\ heads'[o.id] = o.next /\ o.id \in index
        BY <3>4 DEF Performed, StoreInvariant, OperationFacts, ConfirmFacts
      <4> QED
        BY <2>1, <4>1 DEF StoreInvariant, StatusFacts
    <3> QED
      BY <1>0, <3>1, <3>2, <3>3, <3>4 DEF Kinds, Writing
  <2>2. ASSUME staged.kind = "Rebase" PROVE staged.id \in Ids
    BY <2>2 DEF StoreInvariant, OpTypeOK, NotStaging
  <2> QED
    BY <1>1, <2>1, <2>2 DEF StoreInvariant, StatusFacts, Performed
<1>8. UnusedAbsent'
  <2>1. ASSUME NEW id \in Ids, status[id] = "Unused", ~ (o.kind = "Publish" /\ o.id = id)
        PROVE  heads'[id] = NoHead /\ id \notin index'
    <3>1. id # o.id
      BY <1>0, <2>1 DEF StoreInvariant, StatusFacts, Kinds, Writing
    <3>2. heads[id] = NoHead /\ id \notin index
      BY <2>1 DEF StoreInvariant, UnusedAbsent
    <3> QED
      BY <3>1, <3>2 DEF Performed
  <2> QED
    BY <1>1, <2>1 DEF UnusedAbsent
<1>9. ClearedStaysCleared' /\ OpensAgain'
  BY DEF Performed, ClearedStaysCleared, OpensAgain
<1>10. DurableInv'
  <2>1. ASSUME ~ restartedUnsynced
        PROVE  NoneDangling' /\ ReadyHeld' /\ ReadySettled' /\ OpeningSynced'
    <3>1. \A id \in Ids : status[id] = "Ready" => authority[id].sequence \in Nat
      BY HeadFields DEF StoreInvariant, SessionTypeOK
    <3>2. NoneDangling' /\ OpeningSynced'
      BY <2>1 DEF Performed, OpeningSynced
    <3>3. ReadyHeld'
      <4>1. \A id \in Ids : status[id] = "Ready" => Held(id, authority[id].sequence)'
        BY <2>1, <3>1 DEF Performed
      <4> QED
        BY <4>1 DEF ReadyHeld
    <3>4. ReadySettled'
      BY <1>1, <1>2, <2>1 DEF Performed, ReadySettled, Renamed
    <3> QED
      BY <3>2, <3>3, <3>4
  <2> QED
    BY <2>1 DEF DurableInv
<1> QED
  BY <1>4, <1>5, <1>6, <1>7, <1>8, <1>9, <1>10 DEF StoreInvariant, Performed

\* What an operation that has done its last step holds: its recovery is durable.
LEMMA FinishHeld ==
  ASSUME StoreInvariant, store = "Open", NEW o \in Operation, o = op, Performed(o),
         o.at = Len(Steps[o.kind]), o.kind # "Clear",
         o.kind \in {"Replace", "Rebase"} => status[o.id] = "Ready",
         ~ restartedUnsynced
  PROVE  Held(o.id, o.next.sequence)' /\ disk'.heads[o.id] = {heads'[o.id]}
<1>0. /\ o.id \in Ids /\ o.kind \in Kinds /\ o.next \in AnyHead /\ o.next # NoHead
      /\ o.next.sequence \in Nat
  BY HeadFields DEF Operation
<1>1. CASE o.kind = "Confirm"
  <2>1. o.at + 1 = 4
    BY <1>0, <1>1, StepCounts
  <2>2. ConfirmFacts(o, 4)'
    BY <1>1, <2>1 DEF Performed
  <2> QED
    BY <1>0, <2>2 DEF ConfirmFacts, Held
<1>2. CASE o.kind \in Writing
  <2>1. Position(o) + 1 = 9
    BY <1>0, <1>2, StepCounts DEF Position, Writing
  <2>2. WriteFacts(o, 9)'
    BY <1>2, <2>1 DEF Performed
  <2>3. /\ heads'[o.id] = o.next /\ disk'.heads[o.id] = {o.next}
        /\ Durable(o.next.base)' /\ Durable(o.next.timeline)'
    BY <2>2 DEF WriteFacts
  <2>4. \A active \in disk'.index : o.id \in active
    <3>1. CASE o.kind = "Publish"
      BY <2>2, <3>1 DEF WriteFacts
    <3>2. CASE o.kind # "Publish"
      <4>1. status[o.id] = "Ready"
        BY <1>2, <3>2 DEF Writing
      <4>2. authority[o.id].sequence \in Nat
        BY <1>0, <4>1, HeadFields DEF StoreInvariant, SessionTypeOK
      <4> QED
        BY <1>0, <4>1, <4>2 DEF Performed, Held
    <3> QED
      BY <3>1, <3>2
  <2> QED
    BY <1>0, <2>3, <2>4 DEF Held
<1> QED
  BY <1>0, <1>1, <1>2 DEF Kinds

\* An operation ends and its session learns of it.
LEMMA FinishKeeps ==
  ASSUME StoreInvariant, store = "Open", NEW o \in Operation, o = op, Performed(o),
         o.at = Len(Steps[o.kind]), op' = Free, Succeed,
         UNCHANGED <<staged, store, restartedUnsynced>>
  PROVE  StoreInvariant'
<1>0. /\ o.id \in Ids /\ o.kind \in Kinds /\ o.next \in AnyHead /\ op'.kind = "Free"
      /\ op'.kind \notin Kinds
      /\ o.next.sequence \in Nat /\ "Free" # "Collect" /\ store' = "Open"
  BY HeadFields DEF Operation, Free, Kinds, Writing
<1>1. status \in [Ids -> Statuses] /\ authority \in [Ids -> AnyHead \cup {NoHead}]
  BY DEF StoreInvariant, SessionTypeOK
<1>2. /\ status' \in [Ids -> Statuses] /\ authority' \in [Ids -> AnyHead \cup {NoHead}]
      /\ \A id \in Ids \ {o.id} : status'[id] = status[id] /\ authority'[id] = authority[id]
      /\ \/ o.kind = "Clear" /\ status'[o.id] = "Cleared" /\ authority' = authority
         \/ /\ o.kind # "Clear" /\ status'[o.id] = "Ready" /\ authority'[o.id] = o.next
            /\ status[o.id] \in {"Ready", "Ambiguous", "Unused"}
         \/ /\ o.kind # "Clear" /\ UNCHANGED <<status, authority>>
            /\ status[o.id] \notin {"Ready", "Ambiguous", "Unused"}
  <2>1. CASE o.kind = "Clear"
    BY <1>0, <1>1, <2>1 DEF Succeed, Statuses
  <2>2. CASE o.kind # "Clear" /\ status[o.id] \in {"Ready", "Ambiguous", "Unused"}
    <3>1. /\ status' = [status EXCEPT ![o.id] = "Ready"]
          /\ authority' = [authority EXCEPT ![o.id] = o.next]
      BY <2>2 DEF Succeed, Learn
    <3> QED
      BY <1>0, <1>1, <2>2, <3>1 DEF Statuses
  <2>3. CASE o.kind # "Clear" /\ status[o.id] \notin {"Ready", "Ambiguous", "Unused"}
    <3>1. UNCHANGED <<status, authority>>
      BY <2>3 DEF Succeed, Learn, session
    <3> QED
      BY <1>1, <2>3, <3>1
  <2> QED
    BY <2>1, <2>2, <2>3
<1>3. o.kind \in {"Replace", "Rebase"} /\ status[o.id] \in {"Ready", "Ambiguous", "Unused"}
      => status[o.id] = "Ready"
  BY DEF StoreInvariant, StatusFacts
<1>4. OpTypeOK'
  BY <1>0 DEF StoreInvariant, OpTypeOK
<1>5. SessionTypeOK'
  <2>1. \A id \in Ids : status'[id] \in {"Ready", "Ambiguous"} => authority'[id] \in AnyHead
    BY <1>0, <1>2 DEF StoreInvariant, SessionTypeOK
  <2> QED
    BY <1>2, <2>1 DEF SessionTypeOK
<1>6. OperationFacts'
  BY <1>0 DEF OperationFacts, Kinds
<1>7. staged.kind = "Publish" => staged.id # o.id
  BY <1>0 DEF StoreInvariant, StatusFacts, OpTypeOK, NotStaging, Kinds, Writing
<1>8. StatusFacts'
  <2>1. ASSUME staged.kind = "Rebase", staged.id = o.id
        PROVE  /\ status'[o.id] # "Unused"
               /\ o.id \in index' =>
                    /\ heads'[o.id].sequence >= staged.expected.sequence
                    /\ status'[o.id] # "Ambiguous"
    <3>1. o.kind \notin {"Publish", "Rebase"} /\ status[o.id] # "Unused"
      BY <2>1 DEF StoreInvariant, OpTypeOK, NotStaging, StatusFacts
    <3>2. status'[o.id] # "Unused" /\ status'[o.id] # "Ambiguous"
      BY <1>2, <3>1
    <3>3. CASE o.kind = "Clear"
      <4>1. o.at + 1 = 8
        BY <1>0, <3>3, StepCounts
      <4> QED
        BY <3>2, <3>3, <4>1 DEF Performed, ClearFacts
    <3>4. CASE o.kind = "Replace"
      <4>1. Position(o) + 1 = 9
        BY <1>0, <3>4, StepCounts DEF Position
      <4>2. WriteFacts(o, 9)' /\ o.old.sequence >= staged.expected.sequence
        BY <2>1, <3>4, <4>1 DEF Performed, StoreInvariant, StatusFacts, Writing
      <4>3. heads'[o.id] = o.next /\ o.next.sequence = o.old.sequence + 1
        BY <3>4, <4>2 DEF WriteFacts
      <4>4. o.old.sequence \in Nat
        BY HeadFields DEF NoHead, Operation
      <4>5. staged.expected.sequence \in Nat
        <5>1. staged \in StagedRebase
          BY <2>1 DEF StoreInvariant, OpTypeOK, NotStaging
        <5> QED
          BY <5>1, HeadFields
      <4> QED
        BY <3>2, <4>2, <4>3, <4>4, <4>5
    <3>5. CASE o.kind = "Confirm"
      <4>1. heads[o.id] = o.next /\ heads'[o.id] = o.next /\ o.id \in index
        BY <3>5 DEF Performed, StoreInvariant, OperationFacts, ConfirmFacts
      <4> QED
        BY <2>1, <3>2, <4>1 DEF StoreInvariant, StatusFacts
    <3> QED
      BY <1>0, <3>1, <3>3, <3>4, <3>5 DEF Kinds, Writing
  <2>2. ASSUME staged.kind \in {"Publish", "Rebase"} PROVE staged.id \in Ids
    BY <2>2 DEF StoreInvariant, OpTypeOK, NotStaging
  <2> QED
    BY <1>0, <1>2, <1>7, <2>1, <2>2 DEF StoreInvariant, StatusFacts, Performed
<1>9. UnusedAbsent'
  <2>1. ASSUME NEW id \in Ids, status'[id] = "Unused"
        PROVE  heads'[id] = NoHead /\ id \notin index'
    <3>1. id # o.id
      BY <1>2, <2>1
    <3>2. status[id] = "Unused"
      BY <1>2, <2>1, <3>1
    <3>3. heads[id] = NoHead /\ id \notin index
      BY <3>1, <3>2 DEF StoreInvariant, UnusedAbsent
    <3> QED
      BY <3>1, <3>3 DEF Performed
  <2> QED
    BY <1>0, <2>1 DEF UnusedAbsent
<1>10. ClearedStaysCleared'
  <2>1. ASSUME NEW id \in Ids, status'[id] = "Cleared"
        PROVE  \A active \in disk'.index : id \notin active
    <3>1. CASE status[id] = "Cleared"
      BY <3>1 DEF Performed
    <3>2. CASE status[id] # "Cleared"
      <4>1. id = o.id /\ o.kind = "Clear"
        BY <1>2, <2>1, <3>2
      <4>2. o.at + 1 = 8
        BY <1>0, <4>1, StepCounts
      <4> QED
        BY <4>1, <4>2 DEF Performed, ClearFacts
    <3> QED
      BY <3>1, <3>2
  <2> QED
    BY <2>1 DEF ClearedStaysCleared
<1>11. DurableInv'
  <2>1. ASSUME ~ restartedUnsynced
        PROVE  NoneDangling' /\ ReadyHeld' /\ ReadySettled' /\ OpeningSynced'
    <3>1. \A id \in Ids : status[id] = "Ready" => authority[id].sequence \in Nat
      BY HeadFields DEF StoreInvariant, SessionTypeOK
    <3>2. NoneDangling' /\ OpeningSynced'
      BY <1>0, <2>1 DEF Performed, OpeningSynced
    <3>3. ASSUME NEW id \in Ids, status'[id] = "Ready"
          PROVE  Held(id, authority[id].sequence)' /\ disk'.heads[id] = {heads'[id]}
      <4>1. CASE id # o.id
        <5>1. status[id] = "Ready" /\ authority'[id] = authority[id]
          BY <1>2, <3>3, <4>1
        <5>2. Held(id, authority[id].sequence)'
          BY <2>1, <3>1, <5>1 DEF Performed
        <5>3. disk'.heads[id] = {heads'[id]}
          BY <2>1, <4>1, <5>1 DEF Performed
        <5> QED
          BY <5>1, <5>2, <5>3 DEF Held, Durable
      <4>2. CASE id = o.id
        <5>1. o.kind # "Clear" /\ authority'[o.id] = o.next
              /\ status[o.id] \in {"Ready", "Ambiguous", "Unused"}
          BY <1>2, <3>3, <4>2
        <5>2. Held(o.id, o.next.sequence)' /\ disk'.heads[o.id] = {heads'[o.id]}
          BY <1>3, <2>1, <5>1, FinishHeld
        <5> QED
          BY <4>2, <5>1, <5>2 DEF Held, Durable
      <4> QED
        BY <4>1, <4>2
    <3>4. ReadyHeld'
      BY <3>3 DEF ReadyHeld, Held, Durable
    <3>5. ReadySettled'
      BY <3>3 DEF ReadySettled
    <3> QED
      BY <3>2, <3>4, <3>5
  <2> QED
    BY <2>1 DEF DurableInv
<1>12. OpensAgain'
  BY <1>0 DEF OpensAgain
<1> QED
  BY <1>4, <1>5, <1>6, <1>8, <1>9, <1>10, <1>11, <1>12 DEF StoreInvariant, Performed

\* Either way the invariant holds.
LEMMA GoOnKeeps ==
  ASSUME StoreInvariant, store = "Open", NEW o \in Operation, o = op, Performed(o),
         \/ o.at = Len(Steps[o.kind]) /\ op' = Free /\ Succeed
         \/ o.at # Len(Steps[o.kind]) /\ op' = [op EXCEPT !.at = @ + 1] /\ UNCHANGED session,
         UNCHANGED <<staged, store, openings, restartedUnsynced>>
  PROVE  StoreInvariant'
BY AdvanceKeeps, FinishKeeps DEF session

\* A step of an open store is one of its operation, never of the collection.
LEMMA UnderWay ==
  ASSUME StoreInvariant, store = "Open", op # Free
  PROVE  op \in Operation
BY DEF StoreInvariant, OpTypeOK, Collection

\* A step that succeeds.
LEMMA StepKeeps ==
  ASSUME StoreInvariant, Step
  PROVE  StoreInvariant'
<1>1. store = "Open" /\ Perform /\ op # Free
  BY DEF Step, Perform, Doing
<1>2. op \in Operation
  BY <1>1, UnderWay
<1>3. PICK o \in Operation : o = op
  BY <1>2
<1>4. Performed(o)
  BY <1>1, <1>3, Performs
<1> QED
  BY <1>1, <1>3, <1>4, GoOnKeeps DEF Step

\* A removal or a sync of a retirement that fails and is ignored.
LEMMA PassOverKeeps ==
  ASSUME StoreInvariant, PassOver
  PROVE  StoreInvariant'
<1>1. store = "Open" /\ op # Free /\ UNCHANGED entries
  BY DEF PassOver, Doing
<1>2. PICK step \in PassedOver : Doing(step)
  BY DEF PassOver, PassedOver
<1>3. PICK o \in Operation : o = op
  BY <1>1, UnderWay
<1>4. Performed(o)
  BY <1>1, <1>2, <1>3, Skips
<1> QED
  BY <1>1, <1>3, <1>4, GoOnKeeps DEF PassOver

\* A write or a sync that fails.  Its session stops relying on the recovery when
\* the next head was renamed; otherwise the old head is still in place, synced.
LEMMA FailKeeps ==
  ASSUME StoreInvariant, Fail
  PROVE  StoreInvariant'
<1>1. /\ store = "Open" /\ op # Free /\ op' = Free /\ op'.kind = "Free"
      /\ UNCHANGED <<index, heads, objects, disk, staged, store, restartedUnsynced>>
  BY DEF Fail, Doing, entries, Free
<1>2. op \in Operation
  BY <1>1, UnderWay
<1>3. PICK o \in Operation : o = op
  BY <1>2
<1>4. /\ o.id \in Ids /\ o.kind \in Kinds /\ o.next \in AnyHead
      /\ op'.kind \notin Kinds /\ "Free" # "Collect" /\ store' = "Open"
  BY <1>1 DEF Operation, Kinds, Writing
<1>5. status \in [Ids -> Statuses] /\ authority \in [Ids -> AnyHead \cup {NoHead}]
  BY DEF StoreInvariant, SessionTypeOK
<1> DEFINE learns == status[o.id] \in {"Ready", "Ambiguous", "Unused"}
           changes == /\ status'[o.id] \in {"Ambiguous", "Failed", "Retained"}
                      /\ status'[o.id] = "Ambiguous" =>
                           /\ authority'[o.id] = o.next
                           /\ o.kind \in {"Replace", "Rebase"} => heads[o.id] = o.next
                           /\ o.kind # "Confirm"
           stays == /\ UNCHANGED <<status, authority>>
                    /\ o.kind \notin {"Publish", "Clear"}
                    /\ o.kind \in {"Replace", "Rebase"} /\ learns => heads[o.id] # o.next
<1>6. /\ status' \in [Ids -> Statuses] /\ authority' \in [Ids -> AnyHead \cup {NoHead}]
      /\ \A id \in Ids \ {o.id} : status'[id] = status[id] /\ authority'[id] = authority[id]
      /\ changes \/ stays
  <2>1. CASE o.kind = "Publish"
    <3>1. learns
      BY <1>3, <2>1 DEF StoreInvariant, StatusFacts
    <3>2. PICK new \in {"Ambiguous", "Failed"} :
            /\ status' = [status EXCEPT ![o.id] = new]
            /\ authority' = [authority EXCEPT ![o.id] = o.next]
      BY <1>3, <2>1, <3>1 DEF Fail, Learn
    <3> QED
      BY <1>4, <1>5, <2>1, <3>2 DEF Statuses
  <2>2. CASE o.kind \in {"Replace", "Rebase"} /\ heads[o.id] = o.next /\ learns
    <3>1. /\ status' = [status EXCEPT ![o.id] = "Ambiguous"]
          /\ authority' = [authority EXCEPT ![o.id] = o.next]
      BY <1>3, <2>2 DEF Fail, Learn
    <3> QED
      BY <1>4, <1>5, <2>2, <3>1 DEF Statuses
  <2>3. CASE o.kind \in {"Replace", "Rebase"} /\ ~ (heads[o.id] = o.next /\ learns)
    <3>1. UNCHANGED <<status, authority>>
      BY <1>3, <2>3 DEF Fail, Learn, session
    <3> QED
      BY <1>5, <2>3, <3>1
  <2>4. CASE o.kind = "Clear"
    <3>1. status' = [status EXCEPT ![o.id] = "Retained"] /\ UNCHANGED authority
      BY <1>3, <2>4 DEF Fail
    <3> QED
      BY <1>4, <1>5, <2>4, <3>1 DEF Statuses
  <2>5. CASE o.kind = "Confirm"
    <3>1. UNCHANGED <<status, authority>>
      BY <1>3, <2>5 DEF Fail, session
    <3> QED
      BY <1>5, <2>5, <3>1
  <2> QED
    BY <1>4, <2>1, <2>2, <2>3, <2>4, <2>5 DEF Kinds, Writing
<1>7. EntriesTypeOK' /\ OpensAgain'
  BY <1>1 DEF StoreInvariant, EntriesTypeOK, OpensAgain
<1>8. OpTypeOK'
  BY <1>1, <1>4 DEF StoreInvariant, OpTypeOK
<1>9. SessionTypeOK'
  <2>1. \A id \in Ids : status'[id] \in {"Ready", "Ambiguous"} => authority'[id] \in AnyHead
    BY <1>4, <1>6 DEF StoreInvariant, SessionTypeOK
  <2> QED
    BY <1>6, <2>1 DEF SessionTypeOK
<1>10. OperationFacts'
  BY <1>1 DEF OperationFacts, Writing
<1>11. staged.kind = "Publish" => staged.id # o.id
  BY <1>3, <1>4 DEF StoreInvariant, StatusFacts, OpTypeOK, NotStaging, Kinds, Writing
<1>12. StatusFacts'
  <2>1. ASSUME staged.kind = "Rebase", staged.id = o.id, changes
        PROVE  /\ status'[o.id] # "Unused"
               /\ o.id \in index /\ status'[o.id] = "Ambiguous"
                    => heads[o.id].sequence > staged.expected.sequence
    <3>1. o.kind \notin {"Publish", "Rebase"}
      BY <1>3, <2>1 DEF StoreInvariant, OpTypeOK, NotStaging
    <3>2. ASSUME status'[o.id] = "Ambiguous"
          PROVE  heads[o.id].sequence > staged.expected.sequence
      <4>0. o.kind # "Clear"
        BY <1>3, <1>4, <3>2 DEF Fail, StoreInvariant, SessionTypeOK
      <4>1. o.kind = "Replace" /\ heads[o.id] = o.next
        BY <1>4, <2>1, <3>1, <3>2, <4>0 DEF Kinds, Writing
      <4>2. o.old.sequence >= staged.expected.sequence
        BY <1>3, <2>1, <4>1 DEF StoreInvariant, StatusFacts
      <4>3. o.next.sequence = o.old.sequence + 1
        BY <1>3, <4>1 DEF StoreInvariant, OperationFacts, WriteFacts, Writing
      <4>4. o.old.sequence \in Nat
        BY HeadFields DEF NoHead, Operation
      <4>5. staged.expected.sequence \in Nat
        <5>1. staged \in StagedRebase
          BY <2>1 DEF StoreInvariant, OpTypeOK, NotStaging
        <5> QED
          BY <5>1, HeadFields
      <4> QED
        BY <4>1, <4>2, <4>3, <4>4, <4>5
    <3> QED
      BY <2>1, <3>2
  <2>2. ASSUME staged.kind = "Rebase" PROVE staged.id \in Ids
    BY <2>2 DEF StoreInvariant, OpTypeOK, NotStaging
  <2>3. ASSUME staged.kind = "Publish" PROVE status'[staged.id] = "Unused"
    <3>1. staged.id \in Ids
      BY <2>3 DEF StoreInvariant, OpTypeOK, NotStaging
    <3> QED
      BY <1>6, <1>11, <2>3, <3>1 DEF StoreInvariant, StatusFacts
  <2>4. ASSUME staged.kind = "Rebase"
        PROVE  /\ status'[staged.id] # "Unused"
               /\ staged.id \in index =>
                    /\ heads[staged.id].sequence >= staged.expected.sequence
                    /\ status'[staged.id] = "Ambiguous"
                         => heads[staged.id].sequence > staged.expected.sequence
    <3>1. /\ status[staged.id] # "Unused"
          /\ staged.id \in index =>
               /\ heads[staged.id].sequence >= staged.expected.sequence
               /\ status[staged.id] = "Ambiguous"
                    => heads[staged.id].sequence > staged.expected.sequence
      BY <2>4 DEF StoreInvariant, StatusFacts
    <3> QED
      BY <1>6, <2>1, <2>2, <2>4, <3>1
  <2> QED
    BY <1>1, <2>3, <2>4 DEF StatusFacts
<1>13. UnusedAbsent'
  <2>1. ASSUME NEW id \in Ids, status'[id] = "Unused"
        PROVE  heads[id] = NoHead /\ id \notin index
    <3>1. status[id] = "Unused" /\ ~ (o.kind = "Publish" /\ o.id = id)
      BY <1>6, <2>1
    <3> QED
      BY <1>1, <1>3, <3>1 DEF StoreInvariant, UnusedAbsent
  <2> QED
    BY <1>1, <2>1 DEF UnusedAbsent
<1>14. ClearedStaysCleared'
  BY <1>1, <1>6 DEF StoreInvariant, ClearedStaysCleared
<1>15. DurableInv'
  <2>1. ASSUME ~ restartedUnsynced
        PROVE  NoneDangling' /\ ReadyHeld' /\ ReadySettled' /\ OpeningSynced'
    <3>1. NoneDangling /\ ReadyHeld /\ ReadySettled
      BY <2>1 DEF StoreInvariant, DurableInv
    <3>2. NoneDangling' /\ OpeningSynced'
      BY <1>1, <3>1 DEF NoneDangling, OpeningSynced
    <3>3. \A id \in Ids : status'[id] = "Ready" => status[id] = "Ready" /\ authority'[id] = authority[id]
      BY <1>6
    <3>4. ReadyHeld'
      BY <1>1, <3>1, <3>3 DEF ReadyHeld, Held, Durable
    <3>5. ASSUME NEW id \in Ids, status'[id] = "Ready"
          PROVE  disk.heads[id] = {heads[id]}
      <4>1. disk.heads[id] = {heads[id]} \/ Renamed(id)
        BY <1>1, <3>1, <3>3, <3>5 DEF ReadySettled
      <4>2. CASE Renamed(id)
        <5>1. o.kind \in Writing /\ o.id = id /\ Position(o) = 6
          BY <1>3, <4>2 DEF Renamed
        <5>2. heads[o.id] = o.next
          BY <1>3, <5>1 DEF StoreInvariant, OperationFacts, WriteFacts
        <5>3. status[o.id] = "Ready"
          BY <3>3, <3>5, <5>1
        <5> QED
          BY <1>6, <3>5, <5>1, <5>2, <5>3 DEF Writing
      <4> QED
        BY <4>1, <4>2
    <3>6. ReadySettled'
      BY <1>1, <3>5 DEF ReadySettled
    <3> QED
      BY <3>2, <3>4, <3>6
  <2> QED
    BY <1>1, <2>1 DEF DurableInv
<1> QED
  BY <1>7, <1>8, <1>9, <1>10, <1>12, <1>13, <1>14, <1>15 DEF StoreInvariant

-----------------------------------------------------------------------------
(* The program starts, ends and loses power.                               *)

\* A store that is not open has no operation but the collection at its start.
LEMMA ClosedIs ==
  ASSUME StoreInvariant, store # "Open"
  PROVE  staged = NotStaging /\ op \in {Free} \cup Collection /\ op.kind \notin Kinds
         /\ (store # "Opening" => op = Free)
BY DEF StoreInvariant, OpTypeOK, Operation, Collection, Free, Kinds, Writing

\* The program starts.  A start that reads what the disk surely holds finds every
\* head that the index names.
LEMMA OpenKeeps ==
  ASSUME StoreInvariant, Open
  PROVE  StoreInvariant'
<1>1. /\ UNCHANGED <<index, heads, objects, disk, staged, status, authority>>
      /\ store = "Closed" /\ restartedUnsynced' = (restartedUnsynced \/ Unsynced)
      /\ staged = NotStaging /\ op = Free /\ staged' = NotStaging
      /\ staged'.kind = "Free"
  BY ClosedIs DEF Open, entries, session, NotStaging
<1>2. /\ store' \in {"Blocked", "Opening"}
      /\ store' = "Blocked" => op' = Free /\ \E id \in index : heads[id] = NoHead
      /\ store' = "Opening" => /\ op' = [kind |-> "Collect", at |-> 1, swept |-> {}]
                               /\ \A id \in index : heads[id] # NoHead
  BY <1>1 DEF Open
<1>3. op'.kind = "Collect" <=> store' = "Opening"
  BY <1>2 DEF Free
<1>4. op'.kind \notin Kinds /\ op'.kind \notin Writing
  BY <1>2 DEF Free, Kinds, Writing
<1>5. EntriesTypeOK' /\ SessionTypeOK'
  BY <1>1 DEF StoreInvariant, EntriesTypeOK, SessionTypeOK
<1>6. OpTypeOK'
  <2>1. op' \in {Free} \cup Collection
    BY <1>2 DEF Collection
  <2>2. op' # Free => op'.at <= Len(Steps[op'.kind])
    <3>1. op' # Free => op'.kind = "Collect" /\ op'.at = 1 /\ Steps[op'.kind] = Steps.Collect
      BY <1>2
    <3> QED
      BY <3>1, CollectTable
  <2> QED
    BY <1>1, <1>2, <1>3, <1>4, <2>1, <2>2 DEF OpTypeOK, NotStaging, Free
<1>7. OperationFacts' /\ StatusFacts'
  BY <1>1, <1>4 DEF OperationFacts, StatusFacts, Kinds, Writing
<1>8. UnusedAbsent'
  BY <1>2 DEF UnusedAbsent
<1>9. ClearedStaysCleared'
  BY <1>1 DEF StoreInvariant, ClearedStaysCleared
<1>10. OpensAgain'
  <2>1. ASSUME ~ restartedUnsynced, NEW id \in index, heads[id] = NoHead PROVE FALSE
    <3>1. NoneDangling /\ index \in disk.index /\ heads[id] \in disk.heads[id]
      BY <2>1 DEF StoreInvariant, DurableInv, EntriesTypeOK
    <3> QED
      BY <2>1, <3>1 DEF NoneDangling
  <2> QED
    BY <1>1, <1>2, <2>1 DEF OpensAgain
<1>11. DurableInv'
  <2>1. ASSUME ~ restartedUnsynced, ~ Unsynced
        PROVE  NoneDangling' /\ ReadyHeld' /\ ReadySettled' /\ OpeningSynced'
    <3>1. NoneDangling' /\ ReadyHeld'
      BY <1>1, <2>1 DEF StoreInvariant, DurableInv, NoneDangling, ReadyHeld, Held, Durable
    <3>2. ReadySettled'
      BY <1>2 DEF ReadySettled
    <3>3. ASSUME store' = "Opening", NEW id \in index
          PROVE  /\ disk.heads[id] = {heads[id]} /\ heads[id] # NoHead
                 /\ heads[id].base \in objects => Durable(heads[id].base)
                 /\ heads[id].timeline \in objects => Durable(heads[id].timeline)
      <4>1. id \in Ids /\ heads[id] # NoHead /\ disk.heads = SyncedHeads
        BY <1>2, <2>1, <3>3 DEF StoreInvariant, EntriesTypeOK, Unsynced
      <4>2. heads[id] \in AnyHead
        BY <4>1 DEF StoreInvariant, EntriesTypeOK
      <4>3. \A object \in {heads[id].base, heads[id].timeline} :
               object \in Objects /\ disk.objects[object] = SyncedObjects[object]
        BY <2>1, <4>1, <4>2, HeadFields DEF Unsynced
      <4> QED
        BY <4>1, <4>3 DEF SyncedHeads, SyncedObjects, Durable
    <3>4. disk.index = {index}
      BY <2>1 DEF Unsynced, SyncedIndex
    <3>5. OpeningSynced'
      BY <1>1, <3>3, <3>4 DEF OpeningSynced, Durable
    <3> QED
      BY <3>1, <3>2, <3>5
  <2> QED
    BY <1>1, <2>1 DEF DurableInv
<1> QED
  BY <1>5, <1>6, <1>7, <1>8, <1>9, <1>10, <1>11 DEF StoreInvariant

\* What one step of the collection does: no recovery of the index is touched.
Collected ==
  /\ EntriesTypeOK' /\ UNCHANGED index /\ disk'.index = disk.index
  /\ objects' \subseteq objects
  /\ \A id \in index : /\ heads'[id] = heads[id]
                       /\ disk'.heads[id] = disk.heads[id] \/ disk'.heads[id] = {heads[id]}
  /\ \A id \in Ids \ index : heads'[id] = NoHead \/ (op.at > 1 /\ heads'[id] = heads[id])
  /\ \A x \in Objects : x \in Referenced /\ Durable(x) => Durable(x)'
  /\ op.at = 4 => UNCHANGED <<heads, objects>>

\* The collection of a store that opens is at one of its four steps.
LEMMA Collecting ==
  ASSUME StoreInvariant, store = "Opening"
  PROVE  /\ op \in Collection /\ op # Free /\ op.at \in {1, 2, 3, 4} /\ op.kind = "Collect"
         /\ \A step : Doing(step) <=> Steps.Collect[op.at] = step
<1>1. op \in Collection /\ op # Free
  BY DEF StoreInvariant, OpTypeOK, Operation, Free, Kinds, Writing
<1>2. op.kind = "Collect" /\ Steps[op.kind] = Steps.Collect /\ op.at \in Nat \ {0}
      /\ op.at <= Len(Steps.Collect)
  BY <1>1 DEF Collection, StoreInvariant, OpTypeOK
<1> QED
  BY <1>1, <1>2, CollectTable DEF Doing

\* The collection removes orphans only.
LEMMA CollectDoes ==
  ASSUME StoreInvariant, store = "Opening", Collect
  PROVE  Collected
<1>0. EntriesTypeOK
  BY DEF StoreInvariant
<1>1. \/ Doing("SweepHeads") /\ op.at = 1
      \/ Doing("SweepObjects") /\ op.at = 2
      \/ Doing("SyncHeads") /\ op.at = 3
      \/ Doing("SyncObjects") /\ op.at = 4
  BY Collecting, CollectTable DEF Collect
<1>2. CASE op.at = 1
  <2>1. /\ heads' = [id \in Ids |-> IF id \in OrphanHeads THEN NoHead ELSE heads[id]]
        /\ disk' = [disk EXCEPT !.heads =
                     [id \in Ids |-> IF id \in OrphanHeads THEN @[id] \cup {NoHead} ELSE @[id]]]
        /\ UNCHANGED <<index, objects>>
    BY <1>2, Collecting, CollectTable DEF Collect
  <2>2. disk'.index = disk.index /\ disk'.objects = disk.objects
    BY <1>0, <2>1 DEF EntriesTypeOK
  <2>3. \A id \in Ids : disk'.heads[id] = IF id \in OrphanHeads THEN disk.heads[id] \cup {NoHead}
                                                                ELSE disk.heads[id]
    BY <1>0, <2>1 DEF EntriesTypeOK
  <2>4. disk' \in DiskType
    BY <1>0, <2>1 DEF EntriesTypeOK, DiskType
  <2>5. heads' \in [Ids -> AnyHead \cup {NoHead}]
    BY <1>0, <2>1 DEF EntriesTypeOK
  <2>6. \A id \in Ids : heads'[id] \in disk'.heads[id]
    BY <1>0, <2>1, <2>3 DEF EntriesTypeOK
  <2>7. EntriesTypeOK'
    BY <1>0, <2>1, <2>2, <2>4, <2>5, <2>6 DEF EntriesTypeOK, DiskType
  <2>8. \A id \in index : id \in Ids /\ id \notin OrphanHeads
    BY <1>0 DEF EntriesTypeOK, OrphanHeads
  <2>9. \A id \in Ids \ index : heads'[id] = NoHead
    BY <2>1 DEF OrphanHeads
  <2>10. \A x \in Objects : Durable(x) => Durable(x)'
    BY <2>2 DEF Durable
  <2>11. \A id \in index : heads'[id] = heads[id] /\ disk'.heads[id] = disk.heads[id]
    BY <2>1, <2>3, <2>8
  <2> QED
    BY <1>2, <2>1, <2>2, <2>7, <2>9, <2>10, <2>11 DEF Collected
<1>3. CASE op.at = 2
  <2>1. /\ objects' = objects \cap Referenced
        /\ disk' = [disk EXCEPT !.objects =
                     [o \in Objects |-> IF o \in OrphanObjects THEN @[o] \cup {FALSE} ELSE @[o]]]
        /\ UNCHANGED <<index, heads>>
    BY <1>3, Collecting, CollectTable DEF Collect
  <2>2. disk'.index = disk.index /\ disk'.heads = disk.heads
    BY <1>0, <2>1 DEF EntriesTypeOK
  <2>3. \A o \in Objects : disk'.objects[o] = IF o \in OrphanObjects THEN disk.objects[o] \cup {FALSE}
                                                                    ELSE disk.objects[o]
    BY <1>0, <2>1 DEF EntriesTypeOK
  <2>4. disk' \in DiskType
    BY <1>0, <2>1 DEF EntriesTypeOK, DiskType
  <2>5. /\ \A o \in objects' : TRUE \in disk'.objects[o]
        /\ \A o \in Objects \ objects' : FALSE \in disk'.objects[o]
    BY <1>0, <2>1, <2>3 DEF EntriesTypeOK, OrphanObjects
  <2>6. EntriesTypeOK'
    BY <1>0, <2>1, <2>2, <2>4, <2>5 DEF EntriesTypeOK, DiskType
  <2>7. \A x \in Objects : x \in Referenced /\ Durable(x) => Durable(x)'
    BY <2>3 DEF Durable, OrphanObjects
  <2> QED
    BY <1>3, <2>1, <2>2, <2>6, <2>7 DEF Collected
<1>4. CASE op.at \in {3, 4}
  <2>1. SyncsHeads \/ SyncsObjects \/ UNCHANGED <<index, heads, objects, disk>>
    BY <1>4, Collecting, CollectTable DEF Collect, SyncsHeads, SyncsObjects
  <2>2. \A id \in index : id \in Ids
    BY <1>0 DEF EntriesTypeOK
  <2>3. CASE SyncsHeads
    <3>1. \A x \in Objects : Durable(x) => Durable(x)'
      BY <1>0, <2>3, HeadsSynced DEF Durable
    <3> QED
      BY <1>0, <1>4, <2>2, <2>3, <3>1, HeadsSynced DEF Collected
  <2>4. CASE SyncsObjects
    <3>1. \A x \in Objects : Durable(x) => x \in objects
      BY <1>0 DEF EntriesTypeOK, Durable
    <3> QED
      BY <1>0, <1>4, <2>4, <3>1, ObjectsSynced DEF Collected
  <2>5. CASE UNCHANGED <<index, heads, objects, disk>>
    <3>1. EntriesTypeOK'
      BY <1>0, <2>5 DEF EntriesTypeOK
    <3>2. \A x \in Objects : Durable(x) => Durable(x)'
      BY <2>5 DEF Durable
    <3> QED
      BY <1>4, <2>5, <3>1, <3>2 DEF Collected
  <2> QED
    BY <2>1, <2>3, <2>4, <2>5
<1> QED
  BY <1>1, <1>2, <1>3, <1>4

\* The collection goes on, and at its end the sessions load what they find.
LEMMA CollectStepKeeps ==
  ASSUME StoreInvariant, CollectStep
  PROVE  StoreInvariant'
<1>0. /\ store = "Opening" /\ Collect /\ staged = NotStaging /\ staged' = NotStaging
      /\ staged'.kind = "Free" /\ restartedUnsynced' = restartedUnsynced
  BY ClosedIs DEF CollectStep, NotStaging
<1>1. Collected /\ op \in Collection /\ op.at \in {1, 2, 3, 4} /\ EntriesTypeOK
  BY <1>0, CollectDoes, Collecting DEF StoreInvariant
<1>2. index \subseteq Ids
  BY <1>1 DEF EntriesTypeOK
<1>3. ASSUME ~ restartedUnsynced
      PROVE  /\ disk'.index = {index}
             /\ \A id \in index :
                   /\ disk'.heads[id] = {heads[id]} /\ heads[id] # NoHead /\ heads'[id] = heads[id]
                   /\ heads[id].base \in objects => Durable(heads[id].base)'
                   /\ heads[id].timeline \in objects => Durable(heads[id].timeline)'
             /\ \A id \in index, s \in Nat : Held(id, s) => Held(id, s)'
  <2>1. OpeningSynced
    BY <1>3 DEF StoreInvariant, DurableInv
  <2>2. \A id \in index :
          /\ disk'.heads[id] = {heads[id]} /\ heads[id] # NoHead /\ heads'[id] = heads[id]
          /\ disk.heads[id] = {heads[id]}
    BY <1>0, <1>1, <2>1 DEF OpeningSynced, Collected
  <2>3. ASSUME NEW id \in index, NEW x \in {heads[id].base, heads[id].timeline}, Durable(x)
        PROVE  Durable(x)'
    <3>1. heads[id] \in AnyHead
      BY <1>1, <1>2, <2>2 DEF EntriesTypeOK
    <3>2. x \in Referenced
      BY <2>3 DEF Referenced
    <3>3. x \in Objects
      BY <3>1, HeadFields
    <3> QED
      BY <1>1, <2>3, <3>2, <3>3 DEF Collected
  <2>4. disk'.index = {index} /\ disk.index = {index}
    BY <1>0, <1>1, <2>1 DEF OpeningSynced, Collected
  <2>5. \A id \in index, s \in Nat : Held(id, s) => Held(id, s)'
    BY <2>2, <2>3, <2>4 DEF Held
  <2>6. ASSUME NEW id \in index
        PROVE  /\ heads[id].base \in objects => Durable(heads[id].base)'
               /\ heads[id].timeline \in objects => Durable(heads[id].timeline)'
    <3>1. /\ heads[id].base \in objects => Durable(heads[id].base)
          /\ heads[id].timeline \in objects => Durable(heads[id].timeline)
      BY <1>0, <2>1 DEF OpeningSynced
    <3>2. PICK base, timeline : base = heads[id].base /\ timeline = heads[id].timeline
      OBVIOUS
    <3>3. Durable(base) => Durable(base)'
      BY <2>3, <3>2
    <3>4. Durable(timeline) => Durable(timeline)'
      BY <2>3, <3>2
    <3> QED
      BY <2>2, <3>1, <3>2, <3>3, <3>4 DEF Durable
  <2> QED
    BY <2>2, <2>4, <2>5, <2>6
<1>4. ASSUME ~ restartedUnsynced, NEW id \in Ids, NEW s \in Nat, Held(id, s)
      PROVE  id \in index /\ Held(id, s)'
  <2>1. id \in index
    BY <1>0, <1>4 DEF StoreInvariant, DurableInv, OpeningSynced, Held
  <2> QED
    BY <1>3, <1>4, <2>1
<1>5. EntriesTypeOK'
  BY <1>1 DEF Collected
<1>6. ASSUME ~ restartedUnsynced PROVE NoneDangling'
  BY <1>1, <1>2, <1>3, <1>6 DEF NoneDangling
<1>7. CASE op.at # 4
  <2>0. op.at # Len(CollectSteps)
    BY <1>1, <1>7 DEF CollectSteps
  <2>1. /\ UNCHANGED <<store, status, authority>> /\ store' = "Opening"
        /\ op' \in Collection /\ op'.at = op.at + 1 /\ op'.kind = "Collect" /\ op' # Free
        /\ op'.at <= 4
    <3>1. op' = [kind |-> "Collect", at |-> op.at + 1, swept |-> op.swept \cup Sweeps]
          /\ UNCHANGED <<store, status, authority>>
      BY <2>0 DEF CollectStep, session
    <3>2. op.swept \cup Sweeps \in SUBSET {"heads", "objects"} /\ op.at + 1 \in Nat \ {0}
          /\ op.at + 1 <= 4
      BY <1>1, <1>7 DEF Collection, Sweeps
    <3> QED
      BY <1>0, <3>1, <3>2 DEF Collection, Free
  <2>2. OpTypeOK'
    <3>1. op'.kind \notin Kinds /\ Steps[op'.kind] = Steps.Collect /\ op'.kind \notin {"Publish", "Rebase"}
      BY <2>1 DEF Kinds, Writing
    <3>2. op'.at <= Len(Steps[op'.kind])
      BY <2>1, <3>1, CollectTable
    <3> QED
      BY <1>0, <2>1, <3>1, <3>2 DEF OpTypeOK, NotStaging, Free
  <2>3. SessionTypeOK'
    BY <2>1 DEF StoreInvariant, SessionTypeOK
  <2>4. OperationFacts' /\ StatusFacts'
    BY <1>0, <2>1 DEF OperationFacts, StatusFacts, Writing
  <2>5. UnusedAbsent'
    <3>1. \A id \in Ids \ index' : heads'[id] = NoHead
      BY <1>0, <1>1 DEF Collected, StoreInvariant, UnusedAbsent
    <3> QED
      BY <2>1, <3>1 DEF UnusedAbsent
  <2>6. ClearedStaysCleared'
    BY <1>1, <2>1 DEF Collected, StoreInvariant, ClearedStaysCleared
  <2>7. OpensAgain'
    BY <2>1 DEF OpensAgain
  <2>8. DurableInv'
    <3>1. ASSUME ~ restartedUnsynced
          PROVE  NoneDangling' /\ ReadyHeld' /\ ReadySettled' /\ OpeningSynced'
      <4>1. ASSUME NEW id \in Ids, status[id] = "Ready" PROVE Held(id, authority[id].sequence)'
        <5>1. PICK s \in Nat : s = authority[id].sequence
          BY <4>1, HeadFields DEF StoreInvariant, SessionTypeOK
        <5>2. Held(id, s)
          BY <3>1, <4>1, <5>1 DEF StoreInvariant, DurableInv, ReadyHeld
        <5>3. Held(id, s)' /\ s = authority'[id].sequence
          BY <1>4, <2>1, <3>1, <5>1, <5>2
        <5> QED
          BY <5>3 DEF Held
      <4>2. ReadyHeld'
        BY <2>1, <4>1 DEF ReadyHeld
      <4>3. ReadySettled'
        BY <2>1 DEF ReadySettled
      <4>4. OpeningSynced'
        BY <1>1, <1>3, <3>1 DEF OpeningSynced, Collected
      <4> QED
        BY <1>6, <3>1, <4>2, <4>3, <4>4
    <3> QED
      BY <1>0, <3>1 DEF DurableInv
  <2> QED
    BY <1>5, <2>2, <2>3, <2>4, <2>5, <2>6, <2>7, <2>8 DEF StoreInvariant
<1>8. CASE op.at = 4
  <2>0. op.at = Len(CollectSteps)
    BY <1>8 DEF CollectSteps
  <2>1. /\ op' = Free /\ op'.kind = "Free" /\ op'.kind \notin Kinds /\ store' = "Open"
        /\ status' = [id \in Ids |-> Found(id)]
        /\ authority' = [id \in Ids |-> IF Found(id) = "Ready" THEN heads[id] ELSE NoHead]
        /\ UNCHANGED <<index, heads, objects>>
    BY <1>1, <1>8, <2>0, SMTT(30) DEF CollectStep, Free, Kinds, Writing, Collected
  <2>2. \A id \in Ids : status[id] \in Statuses
    BY DEF StoreInvariant, SessionTypeOK
  <2>3. ASSUME NEW id \in Ids
        PROVE  /\ status'[id] \in Statuses /\ status'[id] # "Ambiguous"
               /\ status'[id] = "Ready" => /\ id \in index /\ Complete(heads[id])
                                           /\ authority'[id] = heads[id] /\ heads[id] \in AnyHead
               /\ status'[id] \in {"Unused", "Cleared"} => id \notin index /\ status[id] = status'[id]
               /\ authority'[id] \in AnyHead \cup {NoHead}
    <3>1. status'[id] = Found(id) /\ heads[id] \in AnyHead \cup {NoHead}
          /\ authority'[id] = IF Found(id) = "Ready" THEN heads[id] ELSE NoHead
      BY <1>1, <2>1 DEF EntriesTypeOK
    <3> QED
      BY <2>2, <3>1 DEF Found, Statuses, Complete
  <2>4. SessionTypeOK'
    <3>1. status' \in [Ids -> Statuses] /\ authority' \in [Ids -> AnyHead \cup {NoHead}]
      BY <2>1, <2>3
    <3> QED
      BY <2>3, <3>1 DEF SessionTypeOK
  <2>5. OpTypeOK'
    BY <1>0, <2>1 DEF OpTypeOK, NotStaging, Free
  <2>6. OperationFacts' /\ StatusFacts'
    BY <1>0, <2>1 DEF OperationFacts, StatusFacts, Kinds
  <2>7. UnusedAbsent'
    <3>1. \A id \in Ids \ index : heads[id] = NoHead
      BY <1>0, <1>8 DEF StoreInvariant, UnusedAbsent
    <3> QED
      BY <2>1, <2>3, <3>1 DEF UnusedAbsent
  <2>8. ClearedStaysCleared'
    BY <1>1, <2>3 DEF Collected, StoreInvariant, ClearedStaysCleared
  <2>9. OpensAgain'
    BY <2>1 DEF OpensAgain
  <2>10. DurableInv'
    <3>1. ASSUME ~ restartedUnsynced
          PROVE  NoneDangling' /\ ReadyHeld' /\ ReadySettled' /\ OpeningSynced'
      <4>1. ASSUME NEW id \in Ids, status'[id] = "Ready"
            PROVE  Held(id, authority[id].sequence)' /\ disk'.heads[id] = {heads'[id]}
        <5>1. /\ id \in index /\ heads[id].base \in objects /\ heads[id].timeline \in objects
              /\ authority'[id] = heads[id] /\ heads[id] # NoHead /\ heads[id].sequence \in Nat
          BY <2>3, <4>1, HeadFields DEF Complete
        <5>2. /\ disk'.index = {index} /\ disk'.heads[id] = {heads[id]}
              /\ Durable(heads[id].base)' /\ Durable(heads[id].timeline)'
          BY <1>3, <3>1, <5>1
        <5>3. /\ heads'[id] = heads[id] /\ authority'[id].sequence = heads[id].sequence
              /\ heads[id].sequence >= authority'[id].sequence
          BY <2>1, <5>1
        <5>4. \A active \in disk'.index : id \in active
          BY <5>1, <5>2
        <5> QED
          BY <5>1, <5>2, <5>3, <5>4 DEF Held
      <4>2. ReadyHeld' /\ ReadySettled'
        BY <4>1 DEF ReadyHeld, ReadySettled
      <4>3. OpeningSynced'
        BY <2>1 DEF OpeningSynced
      <4> QED
        BY <1>6, <3>1, <4>2, <4>3
    <3> QED
      BY <1>0, <3>1 DEF DurableInv
  <2> QED
    BY <1>5, <2>4, <2>5, <2>6, <2>7, <2>8, <2>9, <2>10 DEF StoreInvariant
<1> QED
  BY <1>7, <1>8

\* A program that ends, or whose collection fails, leaves the entries as they are.
LEMMA StopKeeps ==
  ASSUME StoreInvariant, UNCHANGED <<entries, session, restartedUnsynced>>,
         op' = Free, staged' = NotStaging, store' \in {"Closed", "Unavailable"}
  PROVE  StoreInvariant'
<1>0. /\ UNCHANGED <<index, heads, objects, disk, status, authority>>
      /\ op'.kind = "Free" /\ op'.kind \notin Kinds /\ staged'.kind = "Free"
  BY DEF entries, session, Free, NotStaging, Kinds, Writing
<1>1. EntriesTypeOK' /\ SessionTypeOK' /\ ClearedStaysCleared'
  BY <1>0 DEF StoreInvariant, EntriesTypeOK, SessionTypeOK, ClearedStaysCleared
<1>2. OpTypeOK'
  BY <1>0 DEF OpTypeOK, NotStaging, Free
<1>3. OperationFacts' /\ StatusFacts' /\ UnusedAbsent' /\ OpensAgain'
  BY <1>0 DEF OperationFacts, StatusFacts, UnusedAbsent, OpensAgain, Kinds
<1>4. DurableInv'
  <2>1. NoneDangling => NoneDangling'
    BY <1>0 DEF NoneDangling
  <2>2. ReadyHeld => ReadyHeld'
    BY <1>0 DEF ReadyHeld, Held, Durable
  <2>3. ReadySettled' /\ OpeningSynced'
    BY DEF ReadySettled, OpeningSynced
  <2> QED
    BY <2>1, <2>2, <2>3 DEF StoreInvariant, DurableInv
<1> QED
  BY <1>1, <1>2, <1>3, <1>4 DEF StoreInvariant

\* The collection fails.
LEMMA CollectFailsKeeps ==
  ASSUME StoreInvariant, CollectFails
  PROVE  StoreInvariant'
<1>1. staged = NotStaging /\ UNCHANGED <<staged, entries, session, restartedUnsynced>>
      /\ op' = Free /\ store' = "Unavailable"
  BY ClosedIs DEF CollectFails
<1> QED
  BY <1>1, StopKeeps

\* The process ends.
LEMMA EndKeeps ==
  ASSUME StoreInvariant, End
  PROVE  StoreInvariant'
BY StopKeeps DEF End

\* Power is lost: what was held in every value of an entry is held in the one
\* that is left, and that one is durable.
LEMMA PowerLossKeeps ==
  ASSUME StoreInvariant, PowerLoss
  PROVE  StoreInvariant'
<1>0. /\ UNCHANGED <<status, authority, restartedUnsynced>> /\ op' = Free
      /\ op'.kind = "Free" /\ op'.kind \notin Kinds
      /\ staged' = NotStaging /\ staged'.kind = "Free" /\ store' = "Closed"
  BY DEF PowerLoss, session, Free, NotStaging, Kinds, Writing
<1>1. EntriesTypeOK
  BY DEF StoreInvariant
<1>2. /\ index' \in disk.index /\ index' \in SUBSET Ids
      /\ \A id \in Ids : heads'[id] \in disk.heads[id]
      /\ objects' \in SUBSET Objects
      /\ \A o \in Objects : (o \in objects') \in disk.objects[o]
      /\ disk' = [index |-> {index'}, heads |-> [id \in Ids |-> {heads'[id]}],
                  objects |-> [o \in Objects |-> IF o \in objects' THEN {TRUE} ELSE {FALSE}]]
  BY <1>1 DEF PowerLoss, SyncedIndex, SyncedHeads, SyncedObjects, EntriesTypeOK
<1>3. heads' \in [Ids -> AnyHead \cup {NoHead}]
  <2>1. PICK kept \in [Ids -> UNION {disk.heads[id] : id \in Ids}] : heads' = kept
    BY DEF PowerLoss
  <2>2. \A id \in Ids : heads'[id] \in AnyHead \cup {NoHead}
    BY <1>1, <1>2 DEF EntriesTypeOK
  <2> QED
    BY <2>1, <2>2
<1>4. /\ disk'.index = {index'} /\ \A id \in Ids : disk'.heads[id] = {heads'[id]}
      /\ \A o \in Objects : disk'.objects[o] = IF o \in objects' THEN {TRUE} ELSE {FALSE}
  BY <1>2
<1>5. disk' \in DiskType
  <2>1. /\ {index'} \in SUBSET SUBSET Ids
        /\ [id \in Ids |-> {heads'[id]}] \in [Ids -> SUBSET (AnyHead \cup {NoHead})]
        /\ [o \in Objects |-> IF o \in objects' THEN {TRUE} ELSE {FALSE}]
             \in [Objects -> SUBSET BOOLEAN]
    BY <1>2, <1>3
  <2> QED
    BY <1>2, <2>1 DEF DiskType
<1>6. EntriesTypeOK'
  BY <1>2, <1>3, <1>4, <1>5 DEF EntriesTypeOK, DiskType
<1>7. SessionTypeOK'
  BY <1>0 DEF StoreInvariant, SessionTypeOK
<1>8. OpTypeOK'
  BY <1>0 DEF OpTypeOK, NotStaging, Free
<1>9. OperationFacts' /\ StatusFacts' /\ UnusedAbsent' /\ OpensAgain'
  BY <1>0 DEF OperationFacts, StatusFacts, UnusedAbsent, OpensAgain, Kinds
<1>10. ClearedStaysCleared'
  BY <1>0, <1>2, <1>4 DEF StoreInvariant, ClearedStaysCleared
<1>11. ASSUME NEW o \in Objects, Durable(o) PROVE Durable(o)'
  <2>1. (o \in objects') \in {TRUE}
    BY <1>2, <1>11 DEF Durable
  <2>2. o \in objects'
    BY <2>1, Zenon
  <2> QED
    BY <1>4, <2>2 DEF Durable
<1>12. DurableInv'
  <2>1. ASSUME ~ restartedUnsynced
        PROVE  NoneDangling' /\ ReadyHeld' /\ ReadySettled' /\ OpeningSynced'
    <3>1. NoneDangling /\ ReadyHeld
      BY <2>1 DEF StoreInvariant, DurableInv
    <3>2. NoneDangling'
      BY <1>2, <1>4, <3>1 DEF NoneDangling
    <3>3. ASSUME NEW id \in Ids, status[id] = "Ready" PROVE Held(id, authority[id].sequence)'
      <4>1. Held(id, authority[id].sequence) /\ heads'[id] \in disk.heads[id]
        BY <1>2, <3>1, <3>3 DEF ReadyHeld
      <4>2. PICK head \in AnyHead : head = heads'[id]
        BY <1>3, <4>1 DEF Held
      <4>3. /\ head.sequence >= authority[id].sequence
            /\ Durable(head.base) /\ Durable(head.timeline)
        BY <4>1, <4>2 DEF Held
      <4>4. Durable(head.base)' /\ Durable(head.timeline)'
        BY <1>11, <4>3, HeadFields
      <4>5. disk'.heads[id] = {head} /\ head # NoHead /\ authority' = authority
        BY <1>0, <1>4, <4>2, HeadFields
      <4>6. id \in index'
        BY <1>2, <4>1 DEF Held
      <4> QED
        BY <1>4, <4>3, <4>4, <4>5, <4>6 DEF Held
    <3>4. ReadyHeld'
      BY <1>0, <3>3 DEF ReadyHeld
    <3>5. ReadySettled' /\ OpeningSynced'
      BY <1>0 DEF ReadySettled, OpeningSynced
    <3> QED
      BY <3>2, <3>4, <3>5
  <2> QED
    BY <1>0, <2>1 DEF DurableInv
<1> QED
  BY <1>6, <1>7, <1>8, <1>9, <1>10, <1>12 DEF StoreInvariant

-----------------------------------------------------------------------------
(* Together.                                                               *)

\* An empty store satisfies the invariant.
LEMMA StoreStarts == Init => StoreInvariant
<1> SUFFICES ASSUME Init PROVE StoreInvariant
  OBVIOUS
<1> USE DEF Init
<1>1. EntriesTypeOK
  BY DEF EntriesTypeOK
<1>2. OpTypeOK
  BY DEF OpTypeOK, Free, NotStaging, Kinds, Writing
<1>3. SessionTypeOK
  BY DEF SessionTypeOK, Statuses
<1>4. OperationFacts /\ StatusFacts /\ UnusedAbsent /\ OpensAgain /\ ClearedStaysCleared
  BY DEF OperationFacts, StatusFacts, UnusedAbsent, OpensAgain, ClearedStaysCleared, Free,
         NotStaging, Writing
<1>5. DurableInv
  BY DEF DurableInv, NoneDangling, ReadyHeld, ReadySettled, OpeningSynced
<1> QED
  BY <1>1, <1>2, <1>3, <1>4, <1>5 DEF StoreInvariant

\* A step that changes nothing keeps it.
LEMMA StandingStill ==
  ASSUME StoreInvariant, UNCHANGED vars
  PROVE  StoreInvariant'
<1>1. UNCHANGED <<index, heads, objects, disk, op, staged, store, status, authority, restartedUnsynced>>
  BY DEF vars, entries, session
<1>2. EntriesTypeOK' /\ SessionTypeOK' /\ OpTypeOK' /\ UnusedAbsent'
  BY <1>1 DEF StoreInvariant, EntriesTypeOK, SessionTypeOK, OpTypeOK, UnusedAbsent
<1>3. OperationFacts'
  <2>1. Position(op)' = Position(op)
    BY <1>1 DEF Position
  <2>2. op.kind \in Writing => WriteFacts(op, Position(op))'
    BY <1>1, <2>1 DEF StoreInvariant, OperationFacts, WriteFacts, Durable
  <2>3. op.kind = "Confirm" => ConfirmFacts(op, op.at)'
    BY <1>1 DEF StoreInvariant, OperationFacts, ConfirmFacts, Durable
  <2>4. op.kind = "Clear" => ClearFacts(op, op.at)'
    BY <1>1 DEF StoreInvariant, OperationFacts, ClearFacts
  <2> QED
    BY <1>1, <2>2, <2>3, <2>4 DEF OperationFacts
<1>4. StatusFacts' /\ ClearedStaysCleared' /\ OpensAgain'
  BY <1>1 DEF StoreInvariant, StatusFacts, ClearedStaysCleared, OpensAgain
<1>5. DurableInv'
  BY <1>1 DEF StoreInvariant, DurableInv, NoneDangling, ReadyHeld, ReadySettled, Renamed, Position,
              OpeningSynced, Held, Durable
<1> QED
  BY <1>2, <1>3, <1>4, <1>5 DEF StoreInvariant

\* The invariant is inductive.
LEMMA EveryStepKeeps == StoreInvariant /\ [Next]_vars => StoreInvariant'
<1> SUFFICES ASSUME StoreInvariant, [Next]_vars PROVE StoreInvariant'
  OBVIOUS
<1>1. ASSUME NEW id \in Ids, StageNew(id) \/ StageRebase(id) \/ Confirm(id) \/ Clear(id)
      PROVE  StoreInvariant'
  BY <1>1, StageNewKeeps, StageRebaseKeeps, ConfirmKeeps, ClearKeeps
<1>2. ASSUME NEW base, NEW timeline, BeginPublish(base, timeline) \/ BeginRebase(base, timeline)
      PROVE  StoreInvariant'
  BY <1>2, BeginPublishKeeps, BeginRebaseKeeps
<1>3. ASSUME NEW id \in Ids, NEW timeline \in Timelines[id], Replace(id, timeline)
      PROVE  StoreInvariant'
  BY <1>3, ReplaceKeeps
<1>4. CASE Step \/ Fail \/ PassOver
  BY <1>4, StepKeeps, FailKeeps, PassOverKeeps
<1>5. CASE Open \/ CollectStep \/ CollectFails \/ End \/ PowerLoss
  BY <1>5, OpenKeeps, CollectStepKeeps, CollectFailsKeeps, EndKeeps, PowerLossKeeps
<1>6. CASE UNCHANGED vars
  BY <1>6, StandingStill
<1> QED
  BY <1>1, <1>2, <1>3, <1>4, <1>5, <1>6 DEF Next

\* The inductive invariant holds of every reachable state of the store.
THEOREM StoreIsSound == Spec => []StoreInvariant
BY StoreStarts, EveryStepKeeps, PTL DEF Spec

\* A recovery its session was told is durable survives any power loss, with a
\* head at least as new as its session's and the PDF and timeline that head names.
THEOREM ReadySurvives == Spec => []ReadyRecoverySurvives
<1>1. StoreInvariant => ReadyRecoverySurvives
  BY DEF StoreInvariant, DurableInv, ReadyHeld, Held, Durable, ReadyRecoverySurvives, DurablyHeld
<1> QED
  BY <1>1, StoreIsSound, PTL

\* A recovery whose retirement was acknowledged is named by no index that a
\* power loss may leave.
THEOREM ClearedStays == Spec => []ClearedStaysCleared
<1>1. StoreInvariant => ClearedStaysCleared
  BY DEF StoreInvariant
<1> QED
  BY <1>1, StoreIsSound, PTL

\* A start is blocked by a missing head only after one that found entries which
\* were not synced.
THEOREM AlwaysOpensAgain == Spec => []OpensAgain
<1>1. StoreInvariant => OpensAgain
  BY DEF StoreInvariant
<1> QED
  BY <1>1, StoreIsSound, PTL

\* While the store is open only the rename of a head changes a head into another,
\* and at its position the old one is still in place.
LEMMA StepAdvances ==
  ASSUME StoreInvariant, Next, NEW id \in Ids, store = "Open", store' = "Open",
         heads'[id] \notin {heads[id], NoHead}
  PROVE  \/ heads[id] = NoHead /\ id \notin index /\ heads'[id].sequence = 1
         \/ id \in index /\ heads'[id].sequence = heads[id].sequence + 1
<1>1. Step
  <2>1. ASSUME UNCHANGED entries PROVE FALSE
    BY <2>1 DEF entries
  <2> QED
    BY <2>1 DEF Next, StageNew, StageRebase, Confirm, Clear, BeginPublish, BeginRebase, Replace,
                Begin, Fail, PassOver, Open, CollectStep, CollectFails, End, PowerLoss
<1>2. EntriesTypeOK /\ OpTypeOK /\ Perform /\ op # Free
  BY <1>1 DEF StoreInvariant, Step, Perform, Doing
<1>3. op \in Operation
  BY <1>2, UnderWay
<1>4. op.kind \in Writing /\ Position(op) = 5 /\ op.id = id /\ heads'[id] = op.next
  BY <1>2, <1>3, PerformHeads
<1>5. WriteFacts(op, 5)
  BY <1>4 DEF StoreInvariant, OperationFacts
<1> QED
  BY <1>4, <1>5 DEF WriteFacts

\* A stale session never erases a newer checkpoint: a head is replaced only by
\* its successor, and an identifier without a head by the first one.
THEOREM CheckpointsOnlyAdvance == Spec => CheckpointsAdvance
<1> DEFINE Advances ==
             \A id \in Ids :
                store = "Open" /\ store' = "Open" /\ heads'[id] \notin {heads[id], NoHead} =>
                   \/ heads[id] = NoHead /\ id \notin index /\ heads'[id].sequence = 1
                   \/ id \in index /\ heads'[id].sequence = heads[id].sequence + 1
<1>1. StoreInvariant /\ [Next]_vars => [Advances]_vars
  BY StepAdvances
<1> HIDE DEF Advances
<1>2. Spec => [][Advances]_vars
  BY <1>1, StoreIsSound, PTL DEF Spec
<1> QED
  BY <1>2 DEF Advances, CheckpointsAdvance

-----------------------------------------------------------------------------
(* The bounds: a head names a PDF and a timeline of its own document.      *)

HeadsOf(id) == [sequence: 1 .. MaxSequence, base: Bases[id], timeline: Timelines[id]]

OwnHeads ==
  /\ \A id \in Ids : disk.heads[id] \subseteq HeadsOf(id) \cup {NoHead}
  /\ \A id \in Ids : authority[id] \in HeadsOf(id) \cup {NoHead}
  /\ op.kind \in Kinds => op.next \in HeadsOf(op.id) /\ op.old \in HeadsOf(op.id) \cup {NoHead}
  /\ staged.kind = "Rebase" => staged.expected \in HeadsOf(staged.id)
  /\ restartedUnsynced \in BOOLEAN

\* The store starts without a head.
LEMMA OwnHeadsInit == Init => OwnHeads
<1> SUFFICES ASSUME Init PROVE OwnHeads
  OBVIOUS
<1>1. \A id \in Ids : disk.heads[id] = {NoHead} /\ authority[id] = NoHead
  BY DEF Init
<1>2. op.kind \notin Kinds /\ staged.kind # "Rebase" /\ restartedUnsynced \in BOOLEAN
  BY DEF Init, Free, NotStaging, Kinds, Writing
<1> QED
  BY <1>1, <1>2 DEF OwnHeads

\* A session that is ready or ambiguous holds a head of its document.
LEMMA HeldIsOwn ==
  ASSUME StoreInvariant, OwnHeads, NEW id \in Ids, status[id] \in {"Ready", "Ambiguous"}
  PROVE  authority[id] \in HeadsOf(id)
<1>1. authority[id] # NoHead
  BY DEF StoreInvariant, SessionTypeOK, AnyHead, NoHead
<1> QED
  BY <1>1 DEF OwnHeads

\* The head of a document that a program sees is one of those the disk may hold.
LEMMA SeenIsOwn ==
  ASSUME StoreInvariant, OwnHeads, NEW id \in Ids
  PROVE  heads[id] \in HeadsOf(id) \cup {NoHead}
BY DEF StoreInvariant, EntriesTypeOK, OwnHeads

\* An operation begins with the next head of its own document.
LEMMA BeginsOwn ==
  ASSUME StoreInvariant, OwnHeads, NEW kind \in Kinds, NEW id \in Ids, NEW next \in HeadsOf(id),
         Begin(kind, id, next), UNCHANGED <<authority, restartedUnsynced>>,
         staged' \in {staged, NotStaging}
  PROVE  OwnHeads'
BY SeenIsOwn DEF Begin, OwnHeads, entries, NotStaging

\* Only RenameHead puts a head in place, that of its operation.
LEMMA StepsKeepOwn ==
  ASSUME StoreInvariant, OwnHeads, Step \/ PassOver \/ Fail
  PROVE  OwnHeads'
<1>0. EntriesTypeOK /\ OpTypeOK /\ op \in Operation
  BY UnderWay DEF StoreInvariant, Step, PassOver, Fail, Perform, Doing
<1>1. op.kind \in Kinds /\ op.id \in Ids
  BY <1>0 DEF Operation
<1>2. \A id \in Ids : disk'.heads[id] \subseteq HeadsOf(id) \cup {NoHead}
  <2>1. CASE Perform
    <3>2. ASSUME NEW head \in HeadsOf(op.id) \cup {NoHead}, SetHead(op.id, head)
          PROVE  \A id \in Ids : disk'.heads[id] \subseteq HeadsOf(id) \cup {NoHead}
      BY <1>0, <1>1, <3>2 DEF SetHead, OwnHeads, EntriesTypeOK, DiskType
    <3>3. CASE disk' = [disk EXCEPT !.heads = SyncedHeads]
      BY <1>0, <3>3, SeenIsOwn DEF SyncedHeads, EntriesTypeOK, DiskType
    <3>4. CASE disk'.heads = disk.heads
      BY <3>4 DEF OwnHeads
    <3>5. op.next \in HeadsOf(op.id)
      BY <1>1 DEF OwnHeads
    <3>6. \/ \E head \in {op.next, NoHead} : SetHead(op.id, head)
          \/ disk' = [disk EXCEPT !.heads = SyncedHeads]
          \/ disk'.heads = disk.heads
      BY <2>1, <1>0 DEF Perform, AddObject, SetIndex, RemoveUnreferenced, EntriesTypeOK, DiskType
    <3> QED
      BY <3>2, <3>3, <3>4, <3>5, <3>6
  <2>2. CASE UNCHANGED disk
    BY <2>2 DEF OwnHeads
  <2> QED
    BY <2>1, <2>2 DEF Step, PassOver, Fail, entries
<1>3. \A id \in Ids : authority'[id] \in HeadsOf(id) \cup {NoHead}
  BY <1>1 DEF Step, PassOver, Fail, Succeed, Learn, session, OwnHeads, StoreInvariant, SessionTypeOK
<1>4. op' = Free \/ op' = [op EXCEPT !.at = @ + 1]
  BY DEF Step, PassOver, Fail
<1>5. op'.kind \in Kinds => op'.next \in HeadsOf(op'.id) /\ op'.old \in HeadsOf(op'.id) \cup {NoHead}
  BY <1>0, <1>4 DEF OwnHeads, Free, Operation, Kinds, Writing
<1> QED
  BY <1>2, <1>3, <1>5 DEF OwnHeads, Step, PassOver, Fail

\* Starting and ending the program make no head.
LEMMA LifeKeepsOwn ==
  ASSUME StoreInvariant, OwnHeads, Open \/ CollectStep \/ CollectFails \/ End \/ PowerLoss
  PROVE  OwnHeads'
<1> USE DEF Free, Kinds, Writing, NotStaging, session
<1>1. CASE Open
  BY <1>1 DEF Open, OwnHeads, entries
<1>2. CASE CollectStep
  <2>1. \A id \in Ids : disk'.heads[id] \subseteq HeadsOf(id) \cup {NoHead}
    <3>0. disk \in DiskType
      BY DEF StoreInvariant, EntriesTypeOK
    <3>1. CASE disk'.heads = disk.heads
      BY <3>1 DEF OwnHeads
    <3>2. CASE disk' = [disk EXCEPT !.heads = SyncedHeads]
      BY <3>0, <3>2, SeenIsOwn DEF SyncedHeads
    <3>3. CASE \A id \in Ids : disk'.heads[id] \in {disk.heads[id], disk.heads[id] \cup {NoHead}}
      BY <3>3 DEF OwnHeads
    <3>4. ASSUME Doing("SweepHeads"),
                 disk' = [disk EXCEPT !.heads =
                            [id \in Ids |-> IF id \in OrphanHeads THEN @[id] \cup {NoHead} ELSE @[id]]]
          PROVE  \A id \in Ids : disk'.heads[id] \in {disk.heads[id], disk.heads[id] \cup {NoHead}}
      BY <3>0, <3>4
    <3>5. Collect
      BY <1>2 DEF CollectStep
    <3>6. \/ disk'.heads = disk.heads
          \/ disk' = [disk EXCEPT !.heads = SyncedHeads]
          \/ \A id \in Ids : disk'.heads[id] \in {disk.heads[id], disk.heads[id] \cup {NoHead}}
      BY <3>0, <3>4, <3>5 DEF Collect
    <3> QED
      BY <3>1, <3>2, <3>3, <3>6
  <2>2. \A id \in Ids : authority'[id] \in HeadsOf(id) \cup {NoHead}
    BY <1>2, SeenIsOwn DEF CollectStep, OwnHeads
  <2> QED
    BY <1>2, <2>1, <2>2 DEF CollectStep, OwnHeads
<1>3. CASE CollectFails \/ End
  BY <1>3 DEF CollectFails, End, OwnHeads, entries
<1>4. CASE PowerLoss
  BY <1>4 DEF PowerLoss, OwnHeads, SyncedHeads
<1> QED
  BY <1>1, <1>2, <1>3, <1>4

LEMMA OwnHeadsStep == StoreInvariant /\ OwnHeads /\ [Next]_vars => OwnHeads'
<1> SUFFICES ASSUME StoreInvariant, OwnHeads, [Next]_vars PROVE OwnHeads'
  OBVIOUS
<1> USE DEF session
<1>1. ASSUME NEW id \in Ids, StageNew(id) PROVE OwnHeads'
  BY <1>1 DEF StageNew, OwnHeads, entries
<1>2. ASSUME NEW id \in Ids, StageRebase(id) PROVE OwnHeads'
  BY <1>2, HeldIsOwn DEF StageRebase, OwnHeads, entries
<1>3. ASSUME NEW id \in Ids, Confirm(id) PROVE OwnHeads'
  BY <1>3, BeginsOwn, SeenIsOwn DEF Confirm, Complete, Kinds
<1>4. ASSUME NEW id \in Ids, Clear(id) PROVE OwnHeads'
  <2>1. CASE Current(id, authority[id])
    BY <1>4, <2>1, BeginsOwn, SeenIsOwn DEF Clear, Current, SameCheckpoint, Kinds
  <2>2. CASE ~ Current(id, authority[id])
    BY <1>4, <2>2 DEF Clear, OwnHeads, entries
  <2> QED
    BY <2>1, <2>2
<1>5. ASSUME NEW base, NEW timeline, BeginPublish(base, timeline) PROVE OwnHeads'
  <2>1. staged.id \in Ids
    BY <1>5 DEF BeginPublish, StoreInvariant, OpTypeOK, NotStaging
  <2>2. [sequence |-> 1, base |-> base, timeline |-> timeline] \in HeadsOf(staged.id)
    BY <1>5, StoreAssumption DEF BeginPublish, HeadsOf
  <2>3. CASE Cardinality(index) < MaxActive
    BY <1>5, <2>1, <2>2, <2>3, BeginsOwn DEF BeginPublish, Kinds, Writing
  <2>4. CASE ~ (Cardinality(index) < MaxActive)
    BY <1>5, <2>4 DEF BeginPublish, OwnHeads, entries, NotStaging
  <2> QED
    BY <2>3, <2>4
<1>6. ASSUME NEW base, NEW timeline, BeginRebase(base, timeline) PROVE OwnHeads'
  <2>1. staged.id \in Ids /\ staged.expected \in HeadsOf(staged.id)
    BY <1>6 DEF BeginRebase, StoreInvariant, OpTypeOK, NotStaging, OwnHeads
  <2>2. [sequence |-> staged.expected.sequence + 1, base |-> base, timeline |-> timeline]
           \in HeadsOf(staged.id)
    BY <1>6, <2>1, StoreAssumption DEF BeginRebase, HeadsOf
  <2>3. CASE Current(staged.id, staged.expected)
    BY <1>6, <2>1, <2>2, <2>3, BeginsOwn DEF BeginRebase, Kinds, Writing
  <2>4. CASE ~ Current(staged.id, staged.expected)
    BY <1>6, <2>4 DEF BeginRebase, OwnHeads, entries, NotStaging
  <2> QED
    BY <2>3, <2>4
<1>7. ASSUME NEW id \in Ids, NEW timeline \in Timelines[id], Replace(id, timeline) PROVE OwnHeads'
  <2>1. /\ heads[id] \in HeadsOf(id) /\ heads[id].sequence = authority[id].sequence
        /\ authority[id].sequence < MaxSequence
    BY <1>7, SeenIsOwn DEF Replace, Current, SameCheckpoint
  <2>2. [sequence |-> heads[id].sequence + 1, base |-> heads[id].base, timeline |-> timeline]
           \in HeadsOf(id)
    BY <2>1, StoreAssumption DEF HeadsOf
  <2> QED
    BY <1>7, <2>1, <2>2, BeginsOwn DEF Replace, Kinds, Writing
<1>8. CASE UNCHANGED vars
  BY <1>8 DEF vars, entries, OwnHeads
<1> QED
  BY <1>1, <1>2, <1>3, <1>4, <1>5, <1>6, <1>7, <1>8, StepsKeepOwn, LifeKeepsOwn DEF Next

\* The state of the store has its shape, heads of one document never name another
\* document's PDF or timeline, and the store opens again after every power loss.
THEOREM StoreIsWellFormed == Spec => []StoreInv
<1>1. ASSUME StoreInvariant, OwnHeads PROVE StoreInv
  <2>1. heads \in [Ids -> Heads \cup {NoHead}]
    <3>1. \A id \in Ids : heads[id] \in HeadsOf(id) \cup {NoHead}
      BY <1>1, SeenIsOwn
    <3>2. DOMAIN heads = Ids /\ heads = [id \in Ids |-> heads[id]]
      BY <1>1 DEF StoreInvariant, EntriesTypeOK
    <3>3. \A id \in Ids : HeadsOf(id) \subseteq Heads
      BY DEF Heads, HeadsOf
    <3> QED
      BY <3>1, <3>2, <3>3
  <2>2. \A id \in Ids : status[id] \in {"Ready", "Ambiguous"} => authority[id] \in Heads
    <3> SUFFICES ASSUME NEW id \in Ids, status[id] \in {"Ready", "Ambiguous"}
                 PROVE  authority[id] \in Heads
      OBVIOUS
    <3>1. authority[id] \in AnyHead
      BY <1>1 DEF StoreInvariant, SessionTypeOK
    <3>2. authority[id] # NoHead
      BY <3>1 DEF AnyHead, NoHead
    <3> QED
      BY <1>1, <3>2 DEF OwnHeads, Heads, HeadsOf
  <2>3. op.kind \in {"Free", "Publish", "Replace", "Rebase", "Clear", "Confirm", "Collect"}
    BY <1>1 DEF StoreInvariant, OpTypeOK, Operation, Collection, Free, Kinds, Writing
  <2> QED
    <3>1. EntriesTypeOK /\ OpTypeOK /\ SessionTypeOK /\ StatusFacts /\ OpensAgain
      BY <1>1 DEF StoreInvariant
    <3>2. \A object \in Objects : (object \in objects) \in disk.objects[object]
      <4> SUFFICES ASSUME NEW object \in Objects PROVE (object \in objects) \in disk.objects[object]
        OBVIOUS
      <4>1. CASE object \in objects
        <5>1. TRUE \in disk.objects[object]
          BY <3>1, <4>1 DEF EntriesTypeOK
        <5>2. (object \in objects) = TRUE
          BY <4>1
        <5> QED
          BY <5>1, <5>2, Zenon
      <4>2. CASE object \notin objects
        <5>1. FALSE \in disk.objects[object]
          BY <3>1, <4>2 DEF EntriesTypeOK
        <5>2. (object \in objects) = FALSE
          BY <4>2
        <5> QED
          BY <5>1, <5>2, Zenon
      <4> QED
        BY <4>1, <4>2
    <3>3. /\ index \in SUBSET Ids /\ objects \in SUBSET Objects /\ index \in disk.index
          /\ \A id \in Ids : heads[id] \in disk.heads[id]
      BY <3>1 DEF EntriesTypeOK
    <3>4. /\ store \in {"Closed", "Opening", "Open", "Unavailable", "Blocked"}
          /\ op.kind = "Collect" <=> store = "Opening"
      BY <3>1 DEF OpTypeOK
    <3>5. staged.kind = "Publish" => status[staged.id] = "Unused"
      BY <3>1 DEF StatusFacts
    <3>6. status \in [Ids -> Statuses] /\ restartedUnsynced \in BOOLEAN
      BY <1>1, <3>1 DEF SessionTypeOK, OwnHeads
    <3> QED
      BY <2>1, <2>2, <2>3, <3>1, <3>2, <3>3, <3>4, <3>5, <3>6, Zenon DEF StoreTypeOK, StoreInv
<1>2. Init => OwnHeads
  BY OwnHeadsInit
<1>3. StoreInvariant /\ OwnHeads /\ [Next]_vars => OwnHeads'
  BY OwnHeadsStep
<1> QED
  BY <1>1, <1>2, <1>3, StoreIsSound, PTL DEF Spec

=============================================================================
