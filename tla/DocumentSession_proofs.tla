------------------------ MODULE DocumentSession_proofs ------------------------
(***************************************************************************)
(* A tab without the unsaved mark is saved, edits are gone with their tab  *)
(* only when the user discards them, and the checkpoint a session holds is *)
(* what it shows, for any documents, windows, revisions, saves, moves and  *)
(* faults.                                                                 *)
(*                                                                         *)
(* None is inductive alone.  A save works and is answered at moments of    *)
(* its own, so DocumentsInv also says which tasks an open document may     *)
(* have: one at a time, fitting the state of its recovery, and a save only *)
(* of the revision that is still on the screen.  Between the work of a     *)
(* save and its answer the file is ahead of the session (FileKnown).       *)
(* CoverInv says of every checkpoint on its way that it is what the        *)
(* session will show when it gets it, LeftoversInv that every checkpoint   *)
(* has one keeper, or a task that sees to it.                              *)
(*                                                                         *)
(* ShapeInv is what the type invariant lacks to be inductive: histories    *)
(* know no revision that is still to come, a prepared document has a       *)
(* checkpoint, and no dialog or prompt lets a document close with its save *)
(* that has a publication warning to be answered first.  Without the last  *)
(* one, closing such a document could fail and leave its window waiting    *)
(* for a save with no dialog.                                              *)
(***************************************************************************)
EXTENDS DocumentSession, TLAPS

Results == {"Waiting", "Failed", "Saved", "Warned", "Durable", "Unconfirmed", "Conflict"}
SaveTasks == [kind : {"Save"}, doc : Docs, target : {"Opened", "New"}, revision : Nat,
              generation : Nat, result : Results]
PrepareTasks == [kind : {"Prepare"}, doc : Docs, window : Windows, head : Checkpoints,
                 result : Results]
CheckTasks == [kind : {"Confirm", "Repair"}, doc : Docs, revision : Nat, result : Results]
CleanupTasks == [kind : {"Cleanup"}, doc : Docs, head : Checkpoints, result : Results]
Tasks == SaveTasks \cup PrepareTasks \cup CheckTasks \cup CleanupTasks

Timelines == [revision : Nat, saved : Nat, past : Seq(Nat), future : Seq(Nat), next : Nat]
Recoveries == [preparation : Preparations, head : Checkpoints \cup {NoHead}, current : BOOLEAN,
               loose : SUBSET Checkpoints]

SessionTypes ==
    /\ open \subseteq Docs /\ home \in [Docs -> Windows]
    /\ timeline \in [Docs -> Timelines]
    /\ save \in [Docs -> [status : {"Idle", "Saving", "Failed"}, generation : Nat]]
    /\ recovery \in [Docs -> Recoveries]
    /\ file \in [Docs -> Int]
    /\ tasks \subseteq Tasks

\* What the background may be doing for an open document.
Fits(t) ==
    LET preparation == recovery[t.doc].preparation IN
    /\ t.kind = "Save" => /\ Saving(t.doc) /\ t.generation = save[t.doc].generation
                          /\ preparation = "Ready"
                          /\ t.target = "Opened" => t.doc \notin untitled
    /\ t.kind = "Prepare" => preparation = "Pending"
    /\ t.kind \in {"Confirm", "Repair"} =>
          preparation \in {"Ambiguous", "RebaseFailed"} /\ t.doc \in confirming

TasksFit(d) == d \in open => \A t \in tasks : t.doc = d => Fits(t)
OneTask(d) == d \in open => \A t, u \in tasks :
    t.doc = d /\ u.doc = d /\ t.kind # "Cleanup" /\ u.kind # "Cleanup" => t = u
SavesTheScreen(d) == \A t \in tasks : t.doc = d /\ t.kind = "Save" => t.revision = Revision(d)

\* The file of the session's path holds the revision known as saved, or
\* already the one whose save is still to be answered.
Written(t) == t.kind = "Save" /\ t.target = "Opened" /\ t.result \in {"Saved", "Warned"}
FileKnown(d) == d \in open /\ d \notin untitled =>
    file[d] = Saved(d) \/ \E t \in tasks : t.doc = d /\ Written(t) /\ file[d] = t.revision

SavedOrDiscarded(d) ==
    d \in open \/ d \in discarded \/ (d \notin untitled /\ file[d] = Revision(d))

DocumentInv(d) ==
    /\ TasksFit(d)
    /\ OneTask(d)
    /\ SavesTheScreen(d)
    /\ FileKnown(d)
    /\ SavedOrDiscarded(d)

DocumentsInv == SessionTypes /\ \A d \in Docs : DocumentInv(d)

USE SessionAssumption
-----------------------------------------------------------------------------
(* Types of what the operations on checkpoints return.                     *)

LEMMA RecoveryFields ==
    ASSUME NEW r \in Recoveries, NEW preparation \in Preparations,
           NEW head \in Checkpoints \cup {NoHead}, NEW current \in BOOLEAN
    PROVE  /\ [r EXCEPT !.preparation = preparation] \in Recoveries
           /\ [r EXCEPT !.head = head] \in Recoveries
           /\ [r EXCEPT !.current = current] \in Recoveries
  BY DEF Recoveries

LEMMA CheckpointType ==
    ASSUME SessionTypes, NEW d \in Docs
    PROVE  Checkpoint(d) \in Checkpoints
  BY DEF SessionTypes, Timelines, Checkpoint, Checkpoints, Revision, Saved

LEMMA ReplaceType ==
    ASSUME SessionTypes, NEW d \in Docs, NEW checkpoint \in Checkpoints,
           NEW new \in ReplaceOutcomes(d, checkpoint)
    PROVE  new.recovery \in Recoveries
  <1> DEFINE r == recovery[d]
             published == [r EXCEPT !.head = checkpoint]
             conflict == [r EXCEPT !.preparation = "Failed", !.head = NoHead]
             unconfirmed == [published EXCEPT !.preparation = "Ambiguous"]
             unloaded == [published EXCEPT !.current = FALSE]
  <1>1. r \in Recoveries
    BY DEF SessionTypes
  <1>2. published \in Recoveries
    BY <1>1 DEF Recoveries
  <1>3. conflict \in Recoveries
    BY <1>1 DEF Recoveries, Preparations
  <1>4. unconfirmed \in Recoveries /\ unloaded \in Recoveries
    <2> HIDE DEF published
    <2> QED
      BY <1>2 DEF Recoveries, Preparations
  <1>5. \/ new = [outcome |-> "Conflict", recovery |-> conflict]
        \/ new = [outcome |-> "Durable", recovery |-> published]
        \/ new = [outcome |-> "Unconfirmed", recovery |-> unconfirmed]
        \/ new = [outcome |-> "Unwritten", recovery |-> r]
        \/ new = [outcome |-> "Unloaded", recovery |-> unloaded]
    BY DEF ReplaceOutcomes, When
  <1> HIDE DEF r, published, conflict, unconfirmed, unloaded
  <1>6. QED
    BY <1>1, <1>2, <1>3, <1>4, <1>5

LEMMA RebaseType ==
    ASSUME SessionTypes, NEW d \in Docs, NEW revision \in Nat,
           NEW new \in RebaseOutcomes(d, revision)
    PROVE  new \in Recoveries
  <1> DEFINE r == recovery[d]
             failed == [r EXCEPT !.preparation = "RebaseFailed"]
             head == [revision |-> revision, saved |-> revision, saveAs |-> FALSE]
             rebased == [r EXCEPT !.head = head]
             unconfirmed == [rebased EXCEPT !.preparation = "Ambiguous"]
             unloaded == [rebased EXCEPT !.preparation = "RebaseFailed", !.current = FALSE]
  <1>1. r \in Recoveries /\ head \in Checkpoints
    BY DEF SessionTypes, Checkpoints
  <1>2. new \in {failed, rebased, unconfirmed, unloaded}
    BY DEF RebaseOutcomes, When
  <1>3. failed \in Recoveries
    BY <1>1 DEF Recoveries, Preparations
  <1> HIDE DEF head
  <1>4. rebased \in Recoveries
    BY <1>1 DEF Recoveries
  <1> HIDE DEF rebased
  <1>5. unconfirmed \in Recoveries /\ unloaded \in Recoveries
    BY <1>4 DEF Recoveries, Preparations
  <1>6. QED
    BY <1>2, <1>3, <1>4, <1>5

LEMMA ClearType ==
    ASSUME NEW d, NEW r \in Recoveries, NEW new \in ClearOutcomes(d, r)
    PROVE  new \in Recoveries
  <1> DEFINE cleared == [r EXCEPT !.head = NoHead, !.current = FALSE]
  <1>1. new \in {cleared, r}
    BY DEF ClearOutcomes, When
  <1>2. cleared \in Recoveries
    BY DEF Recoveries
  <1>3. QED
    BY <1>1, <1>2

\* A task that is finished keeps everything but its result.
LEMMA TaskFinished ==
    ASSUME NEW t \in Tasks, NEW result \in Results
    PROVE  LET u == [t EXCEPT !.result = result] IN
           /\ u \in Tasks /\ u.result = result
           /\ u.kind = t.kind /\ u.doc = t.doc
           /\ t.kind = "Save" => /\ t \in SaveTasks /\ u.revision = t.revision
                                 /\ u.target = t.target /\ u.generation = t.generation
  <1>1. CASE t \in SaveTasks
    BY <1>1 DEF Tasks, SaveTasks
  <1>2. CASE t \in PrepareTasks
    BY <1>2 DEF Tasks, PrepareTasks
  <1>3. CASE t \in CheckTasks
    BY <1>3 DEF Tasks, CheckTasks
  <1>4. CASE t \in CleanupTasks
    BY <1>4 DEF Tasks, CleanupTasks
  <1>5. QED
    BY <1>1, <1>2, <1>3, <1>4 DEF Tasks

LEMMA TaskKind ==
    ASSUME NEW t \in Tasks
    PROVE  /\ t.kind \in TaskKinds /\ t.doc \in Docs
           /\ t.kind = "Save" => t \in SaveTasks
           /\ t.kind = "Prepare" => t \in PrepareTasks
           /\ t.kind \in {"Confirm", "Repair"} => t \in CheckTasks
           /\ t.kind = "Cleanup" => t \in CleanupTasks
  BY DEF Tasks, SaveTasks, PrepareTasks, CheckTasks, CleanupTasks, TaskKinds

-----------------------------------------------------------------------------
(* Consequences of the invariant.                                          *)

\* Nothing but a cleanup runs for a document that can be edited or saved.
LEMMA ReadyIsFree ==
    ASSUME DocumentsInv, NEW d \in open, ~ Saving(d), recovery[d].preparation = "Ready",
           NEW t \in tasks, t.doc = d
    PROVE  t.kind = "Cleanup"
  BY TaskKind DEF DocumentsInv, DocumentInv, SessionTypes, TasksFit, Fits, TaskKinds

LEMMA CleanIsSaved ==
    ASSUME DocumentsInv
    PROVE  CleanMeansSaved
  BY DEF DocumentsInv, DocumentInv, SessionTypes, CleanMeansSaved, FileKnown, Written,
         SavesTheScreen, Dirty

LEMMA ClosedIsSaved ==
    ASSUME DocumentsInv
    PROVE  ClosedDocumentsAreSaved
  BY DEF DocumentsInv, DocumentInv, ClosedDocumentsAreSaved, SavedOrDiscarded

sessionVars == <<open, home, timeline, untitled, save, recovery, file, tasks, confirming, discarded>>

LEMMA Untouched == DocumentsInv /\ UNCHANGED sessionVars => DocumentsInv'
  BY DEF DocumentsInv, DocumentInv, sessionVars, SessionTypes, TasksFit, Fits, OneTask,
         SavesTheScreen, FileKnown, Written, SavedOrDiscarded, Saving, Revision, Saved

\* A step is about one document; nothing of the others changes.
StaysSame(e) ==
    /\ (e \in open') <=> (e \in open)
    /\ (e \in untitled') <=> (e \in untitled)
    /\ (e \in confirming') <=> (e \in confirming)
    /\ e \in discarded => e \in discarded'
    /\ timeline'[e] = timeline[e] /\ save'[e] = save[e]
    /\ recovery'[e] = recovery[e] /\ file'[e] = file[e]

OthersAlone(d) ==
    /\ \A e \in Docs \ {d} : StaysSame(e)
    /\ \A t \in tasks \cup tasks' : t.doc # d => t \in tasks /\ t \in tasks'

LEMMA OneDocumentChanges ==
    ASSUME DocumentsInv, NEW d \in Docs, OthersAlone(d), SessionTypes', DocumentInv(d)'
    PROVE  DocumentsInv'
  <1>1. ASSUME NEW e \in Docs, e # d
        PROVE  DocumentInv(e)'
    <2>1. DocumentInv(e) /\ StaysSame(e)
      BY <1>1 DEF DocumentsInv, OthersAlone
    <2>2. \A t : t.doc = e => (t \in tasks <=> t \in tasks')
      BY <1>1 DEF OthersAlone
    <2>3. TasksFit(e)'
      <3>1. ASSUME NEW t, t.doc = e
            PROVE  Fits(t)' <=> Fits(t)
        BY <2>1, <3>1 DEF Fits, StaysSame, Saving
      <3>2. QED
        BY <2>1, <2>2, <3>1 DEF DocumentInv, TasksFit, StaysSame
    <2>4. OneTask(e)'
      BY <2>1, <2>2 DEF DocumentInv, OneTask, StaysSame
    <2>5. SavesTheScreen(e)'
      BY <2>1, <2>2 DEF DocumentInv, SavesTheScreen, StaysSame, Revision
    <2>6. FileKnown(e)'
      BY <2>1, <2>2 DEF DocumentInv, FileKnown, Written, StaysSame, Saved
    <2>7. SavedOrDiscarded(e)'
      BY <2>1 DEF DocumentInv, SavedOrDiscarded, StaysSame, Revision
    <2>8. QED
      BY <2>3, <2>4, <2>5, <2>6, <2>7 DEF DocumentInv
  <1>2. QED
    BY <1>1 DEF DocumentsInv

-----------------------------------------------------------------------------
(* Edits, undo and redo.                                                   *)

LEMMA TimelineTypes ==
    ASSUME NEW t \in Timelines
    PROVE  /\ Edited(t) \in Timelines /\ Edited(t).saved = t.saved
           /\ t.past # <<>> => Undone(t) \in Timelines /\ Undone(t).saved = t.saved
           /\ t.future # <<>> => Redone(t) \in Timelines /\ Redone(t).saved = t.saved
  <1>1. /\ t.revision \in Nat /\ t.saved \in Nat /\ t.next \in Nat
        /\ t.past \in Seq(Nat) /\ t.future \in Seq(Nat)
    BY DEF Timelines
  <1>2. ASSUME NEW s \in Seq(Nat), s # <<>>
        PROVE  s[Len(s)] \in Nat /\ SubSeq(s, 1, Len(s) - 1) \in Seq(Nat)
    BY <1>2
  <1>3. ASSUME NEW s \in Seq(Nat), NEW n \in Nat
        PROVE  Append(s, n) \in Seq(Nat)
    OBVIOUS
  <1>4. Edited(t) \in Timelines /\ Edited(t).saved = t.saved
    <2> DEFINE next == t.next + 1
               past == Append(t.past, t.revision)
    <2>1. next \in Nat /\ past \in Seq(Nat) /\ <<>> \in Seq(Nat)
      BY <1>1, <1>3
    <2>2. Edited(t) = [t EXCEPT !.revision = t.next, !.next = next, !.past = past, !.future = <<>>]
      BY DEF Edited
    <2> HIDE DEF next, past
    <2>3. QED
      BY <1>1, <2>1, <2>2 DEF Timelines
  <1>5. ASSUME t.past # <<>>
        PROVE  Undone(t) \in Timelines /\ Undone(t).saved = t.saved
    <2> DEFINE last == t.past[Len(t.past)]
               left == SubSeq(t.past, 1, Len(t.past) - 1)
               future == Append(t.future, t.revision)
    <2>1. last \in Nat /\ left \in Seq(Nat) /\ future \in Seq(Nat)
      BY <1>1, <1>2, <1>3, <1>5
    <2>2. Undone(t) = [t EXCEPT !.revision = last, !.past = left, !.future = future]
      BY DEF Undone
    <2> HIDE DEF last, left, future
    <2>3. QED
      BY <1>1, <2>1, <2>2 DEF Timelines
  <1>6. ASSUME t.future # <<>>
        PROVE  Redone(t) \in Timelines /\ Redone(t).saved = t.saved
    <2> DEFINE last == t.future[Len(t.future)]
               left == SubSeq(t.future, 1, Len(t.future) - 1)
               past == Append(t.past, t.revision)
    <2>1. last \in Nat /\ left \in Seq(Nat) /\ past \in Seq(Nat)
      BY <1>1, <1>2, <1>3, <1>6
    <2>2. Redone(t) = [t EXCEPT !.revision = last, !.future = left, !.past = past]
      BY DEF Redone
    <2> HIDE DEF last, left, past
    <2>3. QED
      BY <1>1, <2>1, <2>2 DEF Timelines
  <1>7. QED
    BY <1>4, <1>5, <1>6

LEMMA CommitStep ==
    ASSUME DocumentsInv, NEW d \in Docs, NEW changed \in Timelines, changed.saved = Saved(d),
           NEW outdates, Commit(d, changed, outdates)
    PROVE  DocumentsInv'
  <1>1. d \in open /\ ~ Saving(d) /\ recovery[d].preparation = "Ready"
    BY DEF Commit, Editable
  <1>2. SessionTypes /\ DocumentInv(d)
    BY DEF DocumentsInv
  <1>3. PICK new \in ReplaceOutcomes(d, [Checkpoint(d) EXCEPT !.revision = changed.revision]) :
           /\ recovery' = [recovery EXCEPT ![d] = new.recovery]
           /\ timeline' = IF Keeps(new.outcome) THEN [timeline EXCEPT ![d] = changed] ELSE timeline
    BY DEF Commit
  <1>4. new.recovery \in Recoveries
    <2>1. Checkpoint(d) \in Checkpoints /\ changed.revision \in Nat
      BY <1>2, CheckpointType DEF Timelines
    <2>2. [Checkpoint(d) EXCEPT !.revision = changed.revision] \in Checkpoints
      BY <2>1 DEF Checkpoints
    <2>3. QED
      BY <1>2, <1>3, <2>2, ReplaceType
  <1>5. UNCHANGED <<open, home, untitled, save, file, tasks, confirming, discarded>>
    BY DEF Commit
  <1>6. SessionTypes'
    BY <1>2, <1>3, <1>4, <1>5 DEF SessionTypes
  <1>7. OthersAlone(d)
    BY <1>2, <1>3, <1>5 DEF OthersAlone, StaysSame, SessionTypes
  <1>8. \A t \in tasks : t.doc = d => t.kind = "Cleanup"
    BY <1>1, ReadyIsFree
  <1>9. Saved(d)' = Saved(d)
    BY <1>2, <1>3 DEF Saved, SessionTypes
  <1>10. DocumentInv(d)'
    BY <1>1, <1>2, <1>5, <1>8, <1>9
    DEF DocumentInv, TasksFit, Fits, OneTask, SavesTheScreen, FileKnown, Written, SavedOrDiscarded
  <1>11. QED
    BY <1>6, <1>7, <1>10, OneDocumentChanges

LEMMA EditStep ==
    ASSUME DocumentsInv, NEW d \in Docs, Edit(d) \/ Undo(d) \/ Redo(d)
    PROVE  DocumentsInv'
  <1>1. timeline[d] \in Timelines /\ Saved(d) = timeline[d].saved
    BY DEF DocumentsInv, SessionTypes, Saved
  <1>2. CASE Edit(d)
    BY <1>1, <1>2, TimelineTypes, CommitStep DEF Edit
  <1>3. CASE Undo(d)
    BY <1>1, <1>3, TimelineTypes, CommitStep DEF Undo
  <1>4. CASE Redo(d)
    BY <1>1, <1>4, TimelineTypes, CommitStep DEF Redo
  <1>5. QED
    BY <1>2, <1>3, <1>4

-----------------------------------------------------------------------------
(* Closing.                                                                *)

\* A document closes when it is saved or was discarded.
LEMMA CloseStep ==
    ASSUME DocumentsInv, NEW d \in open, NEW shown, Close(d, shown, recovery[d]),
           UNCHANGED <<home, timeline, untitled, save, file, tasks>>, discarded \subseteq discarded',
           d \in discarded' \/ d \in open' \/ ~ Dirty(d)
    PROVE  DocumentsInv'
  <1>1. SessionTypes /\ DocumentInv(d) /\ d \in Docs /\ recovery[d] \in Recoveries
    BY DEF DocumentsInv, SessionTypes
  <1>2. ~ Dirty(d) => d \notin untitled /\ file[d] = Revision(d)
    BY CleanIsSaved DEF CleanMeansSaved, Dirty
  <1>3. CASE /\ open' = open \ {d} /\ confirming' = confirming \ {d}
             /\ \E cleared \in ClearOutcomes(d, recovery[d]) :
                   recovery' = [recovery EXCEPT ![d] = cleared]
    <2>1. PICK cleared \in Recoveries : recovery' = [recovery EXCEPT ![d] = cleared]
      BY <1>1, <1>3, ClearType
    <2>2. SessionTypes'
      BY <1>1, <1>3, <2>1 DEF SessionTypes
    <2>3. OthersAlone(d)
      BY <1>1, <1>3, <2>1 DEF OthersAlone, StaysSame, SessionTypes
    <2>4. DocumentInv(d)'
      BY <1>1, <1>2, <1>3
      DEF DocumentInv, TasksFit, OneTask, SavesTheScreen, FileKnown, SavedOrDiscarded, Revision
    <2>5. QED
      BY <1>1, <2>2, <2>3, <2>4, OneDocumentChanges
  <1>4. CASE UNCHANGED <<open, recovery, confirming>>
    <2>1. SessionTypes'
      BY <1>1, <1>4 DEF SessionTypes
    <2>2. OthersAlone(d)
      BY <1>4 DEF OthersAlone, StaysSame
    <2>3. DocumentInv(d)'
      BY <1>1, <1>4 DEF DocumentInv, TasksFit, Fits, OneTask, SavesTheScreen, FileKnown, Written,
         SavedOrDiscarded, Revision, Saved, Saving
    <2>4. QED
      BY <1>1, <2>1, <2>2, <2>3, OneDocumentChanges
  <1>5. [recovery EXCEPT ![d] = recovery[d]] = recovery
    BY <1>1 DEF SessionTypes
  <1>6. QED
    BY <1>3, <1>4, <1>5 DEF Close

LEMMA AnswerCloseStep ==
    ASSUME DocumentsInv, NEW d \in open, NEW shown, NEW warning, AnswerClose(d, shown, warning),
           UNCHANGED <<home, timeline, untitled, save, file, tasks, discarded>>
    PROVE  DocumentsInv'
  <1>1. CASE warning # 0 \/ Dirty(d)
    BY <1>1, Untouched DEF AnswerClose, Stay, sessionVars
  <1>2. CASE ~ (warning # 0 \/ Dirty(d))
    BY <1>2, CloseStep DEF AnswerClose
  <1>3. QED
    BY <1>1, <1>2

LEMMA CloseSteps ==
    ASSUME DocumentsInv,
           \/ \E d \in Docs : RequestClose(d)
           \/ \E w \in Windows : CancelClose(w) \/ Discard(w) \/ ContinueClose(w)
    PROVE  DocumentsInv'
  <1>1. ASSUME NEW d \in Docs, RequestClose(d)
        PROVE  DocumentsInv'
    BY <1>1, AnswerCloseStep DEF RequestClose
  <1>2. ASSUME NEW w \in Windows, CancelClose(w)
        PROVE  DocumentsInv'
    BY <1>2, Untouched DEF CancelClose, sessionVars, documents, history
  <1>3. ASSUME NEW w \in Windows, Discard(w)
        PROVE  DocumentsInv'
    <2>1. Pending(w) \in open
      BY <1>3 DEF Discard, Shown
    <2>2. Pending(w) \in discarded' \/ Pending(w) \in open'
      BY <1>3, <2>1 DEF Discard
    <2>3. QED
      BY <1>3, <2>1, <2>2, CloseStep DEF Discard
  <1>4. ASSUME NEW w \in Windows, ContinueClose(w)
        PROVE  DocumentsInv'
    <2>1. Pending(w) \in open
      BY <1>4 DEF ContinueClose, Shown
    <2>2. QED
      BY <1>4, <2>1, AnswerCloseStep DEF ContinueClose
  <1>5. QED
    BY <1>1, <1>2, <1>3, <1>4

-----------------------------------------------------------------------------
(* Saving.                                                                 *)

\* A new save is the only task, and saves what is on the screen.
LEMMA StartStep ==
    ASSUME DocumentsInv, NEW d, NEW target \in {"Opened", "New"}, Savable(d, target), Start(d, target),
           UNCHANGED <<open, home, timeline, untitled, recovery, file, confirming, discarded>>
    PROVE  DocumentsInv'
  <1> DEFINE new == [kind |-> "Save", doc |-> d, target |-> target, revision |-> Revision(d),
                     generation |-> save[d].generation + 1, result |-> "Waiting"]
             saving == [status |-> "Saving", generation |-> save[d].generation + 1]
  <1>1. d \in open /\ ~ Saving(d) /\ recovery[d].preparation = "Ready" /\ (target = "Opened" => d \notin untitled)
    BY DEF Savable
  <1>2. SessionTypes /\ d \in Docs /\ DocumentInv(d)
    BY <1>1 DEF DocumentsInv, SessionTypes
  <1>3. save' = [save EXCEPT ![d] = saving] /\ tasks' = tasks \cup {new}
    BY DEF Start
  <1>4. save[d].generation \in Nat /\ Revision(d) \in Nat
    BY <1>2 DEF SessionTypes, Timelines, Revision
  <1>5. new \in Tasks /\ saving \in [status : {"Idle", "Saving", "Failed"}, generation : Nat]
    BY <1>2, <1>4 DEF Tasks, SaveTasks, Results
  <1>6. /\ new.doc = d /\ new.kind = "Save" /\ new.target = target /\ new.revision = Revision(d)
        /\ new.generation = saving.generation /\ saving.status = "Saving"
    OBVIOUS
  <1> HIDE DEF new, saving
  <1>7. SessionTypes'
    BY <1>2, <1>3, <1>5 DEF SessionTypes
  <1>8. OthersAlone(d)
    BY <1>2, <1>3, <1>6 DEF OthersAlone, StaysSame, SessionTypes
  <1>9. \A t \in tasks : t.doc = d => t.kind = "Cleanup"
    BY <1>1, ReadyIsFree
  <1>10. save'[d] = saving
    BY <1>2, <1>3 DEF SessionTypes
  <1>11. Revision(d)' = Revision(d) /\ Saved(d)' = Saved(d)
    BY DEF Revision, Saved
  <1>12. TasksFit(d)'
    BY <1>1, <1>3, <1>6, <1>9, <1>10 DEF TasksFit, Fits, Saving
  <1>13. OneTask(d)' /\ SavesTheScreen(d)'
    BY <1>3, <1>6, <1>9, <1>11 DEF OneTask, SavesTheScreen
  <1>14. FileKnown(d)' /\ SavedOrDiscarded(d)'
    BY <1>1, <1>2, <1>3, <1>9, <1>11 DEF DocumentInv, FileKnown, SavedOrDiscarded, Written
  <1>15. QED
    BY <1>2, <1>7, <1>8, <1>12, <1>13, <1>14, OneDocumentChanges DEF DocumentInv

\* A status that is not "Saving" may become another one that is not.
LEMMA NotSavingStep ==
    ASSUME DocumentsInv, NEW d \in open, ~ Saving(d),
           NEW status \in [status : {"Idle", "Failed"}, generation : Nat],
           save' = [save EXCEPT ![d] = status],
           UNCHANGED <<open, home, timeline, untitled, recovery, file, tasks, confirming, discarded>>
    PROVE  DocumentsInv'
  <1>1. SessionTypes /\ d \in Docs /\ DocumentInv(d)
    BY DEF DocumentsInv, SessionTypes
  <1>2. SessionTypes' /\ OthersAlone(d)
    BY <1>1 DEF SessionTypes, OthersAlone, StaysSame
  <1>3. DocumentInv(d)'
    BY <1>1 DEF DocumentInv, TasksFit, Fits, OneTask, SavesTheScreen, FileKnown, Written,
       SavedOrDiscarded, Revision, Saved
  <1>4. QED
    BY <1>1, <1>2, <1>3, OneDocumentChanges

LEMMA RefusedStep ==
    ASSUME DocumentsInv, NEW d, Refused(d),
           UNCHANGED <<open, home, timeline, untitled, recovery, file, confirming, discarded>>
    PROVE  DocumentsInv'
  <1>1. CASE d \in open /\ ~ Saving(d)
    <2> DEFINE failed == [status |-> "Failed", generation |-> save[d].generation + 1]
    <2>1. failed \in [status : {"Idle", "Failed"}, generation : Nat]
      BY <1>1 DEF DocumentsInv, SessionTypes
    <2>2. save' = [save EXCEPT ![d] = failed] /\ UNCHANGED tasks
      BY <1>1 DEF Refused
    <2> HIDE DEF failed
    <2>3. QED
      BY <1>1, <2>1, <2>2, NotSavingStep
  <1>2. CASE ~ (d \in open /\ ~ Saving(d))
    BY <1>2, Untouched DEF Refused, sessionVars
  <1>3. QED
    BY <1>1, <1>2

LEMMA SaveSteps ==
    ASSUME DocumentsInv,
           \/ \E d \in Docs : Save(d) \/ DismissFailure(d)
           \/ \E w \in Windows : SaveAndClose(w) \/ NoTarget(w)
                                 \/ \E target \in {"Opened", "New"} : PickTarget(w, target)
    PROVE  DocumentsInv'
  <1> DEFINE Rest == UNCHANGED <<open, home, timeline, untitled, recovery, file, confirming, discarded>>
  <1>1. ASSUME Rest, UNCHANGED <<save, tasks>>
        PROVE  DocumentsInv'
    BY <1>1, Untouched DEF sessionVars
  <1>2. ASSUME Rest, NEW d, NEW target \in {"Opened", "New"}, BeginSave(d, target)
        PROVE  DocumentsInv'
    BY <1>2, StartStep, RefusedStep DEF BeginSave
  <1>3. ASSUME Rest, NEW d, NEW target \in {"Opened", "New"}, BeginCloseSave(d, target)
        PROVE  DocumentsInv'
    BY <1>1, <1>3, StartStep DEF BeginCloseSave
  <1>4. ASSUME NEW d \in Docs, Save(d)
        PROVE  DocumentsInv'
    BY <1>1, <1>2, <1>4 DEF Save, history
  <1>5. ASSUME NEW d \in Docs, DismissFailure(d)
        PROVE  DocumentsInv'
    <2> DEFINE idle == [save[d] EXCEPT !.status = "Idle"]
    <2>1. d \in open /\ ~ Saving(d) /\ Rest /\ UNCHANGED tasks
      BY <1>5 DEF DismissFailure, Saving, history
    <2>2. idle \in [status : {"Idle", "Failed"}, generation : Nat]
      BY DEF DocumentsInv, SessionTypes
    <2>3. save' = [save EXCEPT ![d] = idle]
      BY <1>5 DEF DismissFailure
    <2> HIDE DEF idle
    <2>4. QED
      BY <2>1, <2>2, <2>3, NotSavingStep
  <1>6. ASSUME NEW w \in Windows, SaveAndClose(w)
        PROVE  DocumentsInv'
    BY <1>1, <1>3, <1>6 DEF SaveAndClose, history
  <1>7. ASSUME NEW w \in Windows, NoTarget(w)
        PROVE  DocumentsInv'
    BY <1>1, <1>7, RefusedStep DEF NoTarget, history
  <1>8. ASSUME NEW w \in Windows, NEW target \in {"Opened", "New"}, PickTarget(w, target)
        PROVE  DocumentsInv'
    BY <1>1, <1>2, <1>3, <1>8 DEF PickTarget, history
  <1>9. QED
    BY <1>4, <1>5, <1>6, <1>7, <1>8

-----------------------------------------------------------------------------
(* What background tasks do, and what becomes of their results.            *)

\* A task is done: it stays, with a result; what its work changed is the file or
\* the document's checkpoints.
LEMMA FinishStep ==
    ASSUME DocumentsInv, NEW t \in tasks, NEW result \in Results, Finish(t, result),
           UNCHANGED <<open, home, timeline, untitled, save, confirming, discarded>>,
           NEW r \in Recoveries, recovery' = [recovery EXCEPT ![t.doc] = r],
           r.preparation = recovery[t.doc].preparation,
           \/ t.kind # "Save" /\ UNCHANGED file
           \/ /\ t.kind = "Save" /\ t.result = "Waiting" /\ result \in {"Failed", "Saved", "Warned"}
              /\ file' = IF t.target = "Opened" /\ result # "Failed"
                         THEN [file EXCEPT ![t.doc] = t.revision] ELSE file
    PROVE  DocumentsInv'
  <1> DEFINE d == t.doc
             u == [t EXCEPT !.result = result]
  <1>1. SessionTypes /\ t \in Tasks
    BY DEF DocumentsInv, SessionTypes
  <1>2. d \in Docs /\ DocumentInv(d) /\ (t.kind = "Save" => t.revision \in Nat)
    BY <1>1, TaskKind DEF DocumentsInv, SaveTasks
  <1>3. /\ u \in Tasks /\ u.doc = d /\ u.kind = t.kind /\ u.result = result
        /\ t.kind = "Save" => /\ u.revision = t.revision /\ u.target = t.target
                              /\ u.generation = t.generation
    BY <1>1, TaskFinished
  <1>4. tasks' = (tasks \ {t}) \cup {u}
    BY DEF Finish
  <1>5. /\ recovery'[d] = r /\ \A e \in Docs \ {d} : recovery'[e] = recovery[e] /\ file'[e] = file[e]
    BY <1>1, <1>2 DEF SessionTypes
  <1>6. file' \in [Docs -> Int]
    BY <1>1, <1>2 DEF SessionTypes
  <1> HIDE DEF u
  <1>7. SessionTypes'
    BY <1>1, <1>2, <1>3, <1>4, <1>6 DEF SessionTypes
  <1>8. OthersAlone(d)
    BY <1>3, <1>4, <1>5 DEF OthersAlone, StaysSame
  <1>9. TasksFit(d)'
    <2>1. d \in open => (Fits(t) => Fits(u)')
      BY <1>2, <1>3, <1>5 DEF Fits, Saving
    <2>2. ASSUME NEW x \in tasks, x.doc = d, Fits(x)
          PROVE  Fits(x)'
      BY <1>2, <1>5, <2>2 DEF Fits, Saving
    <2>3. QED
      BY <1>2, <1>4, <2>1, <2>2 DEF DocumentInv, TasksFit
  <1>10. OneTask(d)'
    BY <1>2, <1>3, <1>4 DEF DocumentInv, OneTask
  <1>11. SavesTheScreen(d)'
    BY <1>2, <1>3, <1>4 DEF DocumentInv, SavesTheScreen, Revision
  <1>12. FileKnown(d)'
    <2>1. CASE t.kind # "Save"
      BY <1>2, <1>3, <1>4, <2>1 DEF DocumentInv, FileKnown, Written, Saved
    <2>2. CASE t.kind = "Save" /\ t.target = "Opened" /\ result # "Failed"
      <3>1. file'[d] = t.revision
        BY <1>1, <1>2, <2>2 DEF SessionTypes
      <3>2. u \in tasks' /\ Written(u) /\ u.doc = d /\ file'[d] = u.revision
        BY <1>3, <1>4, <2>2, <3>1 DEF Written
      <3>3. QED
        BY <3>2 DEF FileKnown, Written
    <2>3. CASE t.kind = "Save" /\ ~ (t.target = "Opened" /\ result # "Failed")
      <3>1. UNCHANGED file /\ ~ Written(t)
        BY <2>3 DEF Written
      <3>2. QED
        BY <1>2, <1>4, <3>1 DEF DocumentInv, FileKnown, Written, Saved
    <2>4. QED
      BY <2>1, <2>2, <2>3
  <1>13. SavedOrDiscarded(d)'
    <2>1. file'[d] = file[d] \/ file'[d] = Revision(d)
      BY <1>1, <1>2 DEF SessionTypes, DocumentInv, SavesTheScreen
    <2>2. QED
      BY <1>2, <2>1 DEF DocumentInv, SavedOrDiscarded, Revision
  <1>14. QED
    BY <1>2, <1>7, <1>8, <1>9, <1>10, <1>11, <1>12, <1>13, OneDocumentChanges DEF DocumentInv

LEMMA WriteFileStep ==
    ASSUME DocumentsInv, NEW t \in tasks, WriteFile(t)
    PROVE  DocumentsInv'
  <1>1. /\ t.kind = "Save" /\ t.result = "Waiting"
        /\ UNCHANGED <<open, home, timeline, untitled, save, recovery, confirming, discarded>>
    BY DEF WriteFile, documents, history
  <1>2. PICK result \in SaveResults(t) :
           /\ Finish(t, result)
           /\ file' = IF t.target = "Opened" /\ result # "Failed"
                      THEN [file EXCEPT ![t.doc] = t.revision] ELSE file
    BY DEF WriteFile
  <1>3. result \in Results /\ result \in {"Failed", "Saved", "Warned"}
    BY <1>2 DEF SaveResults, When, Results
  <1>4. t.doc \in Docs /\ recovery[t.doc] \in Recoveries
        /\ recovery' = [recovery EXCEPT ![t.doc] = recovery[t.doc]]
    BY <1>1, TaskKind DEF DocumentsInv, SessionTypes
  <1>5. QED
    BY <1>1, <1>2, <1>3, <1>4, FinishStep

\* Nothing but the list of tasks changes, which loses one that was not a save
\* that has reached the file.
LEMMA TaskGoesStep ==
    ASSUME DocumentsInv, NEW t \in tasks, tasks' = tasks \ {t},
           t.doc \notin open \/ ~ Written(t),
           UNCHANGED <<open, home, timeline, untitled, save, file, confirming, discarded>>,
           NEW r \in Recoveries, recovery' = [recovery EXCEPT ![t.doc] = r],
           r.preparation = recovery[t.doc].preparation
    PROVE  DocumentsInv'
  <1> DEFINE d == t.doc
  <1>1. SessionTypes /\ t \in Tasks
    BY DEF DocumentsInv, SessionTypes
  <1>2. d \in Docs /\ DocumentInv(d)
    BY <1>1, TaskKind DEF DocumentsInv
  <1>3. recovery'[d] = r /\ \A e \in Docs \ {d} : recovery'[e] = recovery[e]
    BY <1>1, <1>2 DEF SessionTypes
  <1>4. SessionTypes'
    BY <1>1, <1>2 DEF SessionTypes
  <1>5. OthersAlone(d)
    BY <1>3 DEF OthersAlone, StaysSame
  <1>6. DocumentInv(d)'
    BY <1>2, <1>3 DEF DocumentInv, TasksFit, Fits, OneTask, SavesTheScreen, FileKnown, Written,
       SavedOrDiscarded, Saving, Revision, Saved
  <1>7. QED
    BY <1>2, <1>4, <1>5, <1>6, OneDocumentChanges

LEMMA StoreWorkStep ==
    ASSUME DocumentsInv, NEW t \in tasks, StoreWork(t)
    PROVE  DocumentsInv'
  <1> DEFINE d == t.doc
             r == recovery[d]
  <1>1. SessionTypes /\ t \in Tasks
    BY DEF DocumentsInv, SessionTypes
  <1>2. /\ d \in Docs /\ r \in Recoveries
        /\ recovery = [recovery EXCEPT ![d] = r]
    BY <1>1, TaskKind DEF SessionTypes
  <1>3. UNCHANGED <<open, home, timeline, untitled, save, file, confirming, discarded>>
    BY DEF StoreWork
  <1>4. ASSUME t.kind # "Save", NEW result \in Results, Finish(t, result), UNCHANGED recovery
        PROVE  DocumentsInv'
    BY <1>2, <1>3, <1>4, FinishStep
  <1>5. CASE t.kind = "Prepare" /\ Publish(t)
    <2> DEFINE published == [r EXCEPT !.loose = @ \cup {t.head}]
    <2>1. t.head \in Checkpoints
      BY <1>1, <1>5, TaskKind DEF PrepareTasks
    <2>2. published \in Recoveries /\ published.preparation = r.preparation
      BY <1>2, <2>1 DEF Recoveries
    <2>3. CASE /\ recovery' = [recovery EXCEPT ![d] = published]
               /\ \E result \in Results : Finish(t, result)
      <3> HIDE DEF published
      <3>1. QED
        BY <1>3, <1>5, <2>2, <2>3, FinishStep
    <2>4. "Failed" \in Results /\ "Durable" \in Results /\ "Unconfirmed" \in Results
      BY DEF Results
    <2>5. QED
      BY <1>4, <1>5, <2>3, <2>4 DEF Publish
  <1>6. CASE t.kind = "Confirm" /\ ConfirmWork(t)
    <2>1. "Failed" \in Results /\ "Durable" \in Results
      BY DEF Results
    <2>2. QED
      BY <1>4, <1>6, <2>1 DEF ConfirmWork
  <1>7. CASE t.kind = "Repair" /\ RepairWork(t)
    <2>1. CASE UNCHANGED recovery /\ \E result \in Results : Finish(t, result)
      BY <1>4, <1>7, <2>1
    <2>2. ASSUME NEW new \in RebaseOutcomes(t.doc, t.revision), NEW result \in Results,
                 Finish(t, result),
                 recovery' = [recovery EXCEPT ![t.doc].head = new.head, ![t.doc].current = FALSE]
          PROVE  DocumentsInv'
      <3> DEFINE repaired == [r EXCEPT !.head = new.head, !.current = FALSE]
      <3>1. t.revision \in Nat
        BY <1>1, <1>7, TaskKind DEF CheckTasks
      <3>2. new \in Recoveries
        BY <1>1, <1>2, <3>1, RebaseType
      <3>3. new.head \in Checkpoints \cup {NoHead}
        BY <3>2 DEF Recoveries
      <3>4. repaired \in Recoveries /\ repaired.preparation = r.preparation
        BY <1>2, <3>3 DEF Recoveries
      <3>5. recovery' = [recovery EXCEPT ![d] = repaired]
        BY <1>1, <1>2, <2>2 DEF SessionTypes
      <3> HIDE DEF repaired
      <3>6. QED
        BY <1>3, <1>7, <2>2, <3>4, <3>5, FinishStep
    <2>3. {"Conflict", "Failed", "Unconfirmed", "Durable"} \subseteq Results
      BY DEF Results
    <2>4. QED
      BY <1>7, <2>1, <2>2, <2>3 DEF RepairWork
  <1>8. CASE t.kind = "Cleanup" /\ CleanUp(t)
    <2> DEFINE left == [r EXCEPT !.loose = @ \ {t.head}]
    <2>1. left \in Recoveries /\ left.preparation = r.preparation
      BY <1>2 DEF Recoveries
    <2>2. recovery' = [recovery EXCEPT ![d] = left] /\ tasks' = tasks \ {t}
      BY <1>8 DEF CleanUp, Deliver
    <2>3. ~ Written(t)
      BY <1>8 DEF Written
    <2> HIDE DEF left
    <2>4. QED
      BY <1>3, <2>1, <2>2, <2>3, TaskGoesStep
  <1>9. QED
    BY <1>5, <1>6, <1>7, <1>8 DEF StoreWork

LEMMA MarkedSaved ==
    ASSUME SessionTypes, NEW d \in Docs, NEW revision \in Nat,
           timeline' = [timeline EXCEPT ![d].saved = revision]
    PROVE  timeline' \in [Docs -> Timelines]
  <1> DEFINE saved == [timeline[d] EXCEPT !.saved = revision]
  <1>1. timeline[d] \in Timelines
    BY DEF SessionTypes
  <1>2. saved \in Timelines
    BY <1>1 DEF Timelines
  <1>3. timeline' = [timeline EXCEPT ![d] = saved]
    OBVIOUS
  <1> HIDE DEF saved
  <1>4. QED
    BY <1>2, <1>3 DEF SessionTypes

\* The result of a save: it changes the session only if it is the save under way,
\* whose revision is still the one on the screen.
LEMMA ApplySaveStep ==
    ASSUME DocumentsInv, NEW t \in tasks, ApplySave(t)
    PROVE  DocumentsInv'
  <1> DEFINE d == t.doc
  <1>1. SessionTypes /\ t \in Tasks
    BY DEF DocumentsInv, SessionTypes
  <1>2. /\ t.kind = "Save" /\ t.result # "Waiting" /\ tasks' = tasks \ {t}
        /\ UNCHANGED <<home, discarded>>
    BY DEF ApplySave, Deliver
  <1>3. d \in Docs /\ t \in SaveTasks /\ DocumentInv(d) /\ recovery[d] \in Recoveries
    BY <1>1, <1>2, TaskKind DEF DocumentsInv, SessionTypes
  <1>4. t.revision = Revision(d) /\ t.revision \in Nat /\ t.generation \in Nat
    BY <1>2, <1>3 DEF DocumentInv, SavesTheScreen, SaveTasks
  <1>5. d \in open => Fits(t)
    BY <1>3 DEF DocumentInv, TasksFit
  <1>6. d \in open => \A x \in tasks' : x.doc = d => x.kind = "Cleanup"
    BY <1>2, <1>3 DEF DocumentInv, OneTask
  <1>7. OthersAlone(d) <=> \A e \in Docs \ {d} : StaysSame(e)
    BY <1>2 DEF OthersAlone
  <1>8. CASE d \notin open \/ save[d].generation # t.generation
    <2>1. d \notin open
      BY <1>2, <1>5, <1>8 DEF Fits
    <2>2. UNCHANGED <<open, timeline, untitled, save, recovery, file, confirming>>
      BY <1>8 DEF ApplySave
    <2>3. recovery' = [recovery EXCEPT ![d] = recovery[d]]
      BY <1>1, <2>2 DEF SessionTypes
    <2>4. QED
      BY <1>2, <1>3, <2>1, <2>2, <2>3, TaskGoesStep
  <1>9. CASE ~ (d \notin open \/ save[d].generation # t.generation)
             /\ (t.result = "Failed" \/ ~ Accepted(t))
    <2>1. /\ save' = [save EXCEPT ![d].status = "Failed"]
          /\ UNCHANGED <<open, timeline, untitled, recovery, file, confirming>>
      BY <1>9 DEF ApplySave
    <2>2. ~ Written(t)
      BY <1>2, <1>4, <1>5, <1>9 DEF Accepted, Fits, Written
    <2>3. SessionTypes'
      BY <1>1, <1>2, <2>1 DEF SessionTypes
    <2>4. OthersAlone(d)
      BY <1>1, <1>7, <1>2, <2>1 DEF StaysSame, SessionTypes
    <2>5. DocumentInv(d)'
      BY <1>2, <1>3, <1>6, <2>1, <2>2 DEF DocumentInv, TasksFit, Fits, OneTask, SavesTheScreen, FileKnown,
         Written, SavedOrDiscarded, Revision, Saved
    <2>6. QED
      BY <1>3, <2>3, <2>4, <2>5, OneDocumentChanges
  <1>10. CASE d \in open /\ Completed(t)
    <2>1. /\ timeline' = [timeline EXCEPT ![d].saved = t.revision]
          /\ save' = [save EXCEPT ![d].status = "Idle"]
          /\ untitled' = untitled \ {d}
          /\ file' = [file EXCEPT ![d] = t.revision]
          /\ \E r \in RebaseOutcomes(d, t.revision) :
                IF ClosesAfterSave(d) /\ t.result = "Saved" /\ r.preparation # "RebaseFailed"
                THEN Close(d, [dialog[home[d]] EXCEPT !.pending = d], r)
                ELSE recovery' = [recovery EXCEPT ![d] = r] /\ UNCHANGED <<open, confirming>>
      BY <1>10 DEF Completed
    <2>2. PICK r \in Recoveries :
             /\ recovery' = [recovery EXCEPT ![d] = r]
             /\ \/ UNCHANGED <<open, confirming>>
                \/ open' = open \ {d} /\ confirming' = confirming \ {d}
      <3>1. PICK new \in RebaseOutcomes(d, t.revision) :
                IF ClosesAfterSave(d) /\ t.result = "Saved" /\ new.preparation # "RebaseFailed"
                THEN Close(d, [dialog[home[d]] EXCEPT !.pending = d], new)
                ELSE recovery' = [recovery EXCEPT ![d] = new] /\ UNCHANGED <<open, confirming>>
        BY <2>1
      <3>2. new \in Recoveries
        BY <1>1, <1>3, <1>4, RebaseType
      <3>3. CASE Close(d, [dialog[home[d]] EXCEPT !.pending = d], new)
        BY <3>2, <3>3, ClearType DEF Close
      <3>4. QED
        BY <3>1, <3>2, <3>3
    <2>3. SessionTypes'
      <3>4. timeline' \in [Docs -> Timelines]
        BY <1>1, <1>3, <1>4, <2>1, MarkedSaved
      <3>5. save' \in [Docs -> [status : {"Idle", "Saving", "Failed"}, generation : Nat]]
        <4>1. save' = [save EXCEPT ![d].status = "Idle"]
          BY <2>1
        <4>2. QED
          BY <1>1, <4>1 DEF SessionTypes
      <3>6. file' \in [Docs -> Int] /\ recovery' \in [Docs -> Recoveries]
        <4>1. file' = [file EXCEPT ![d] = t.revision]
          BY <2>1
        <4>2. t.revision \in Int /\ file \in [Docs -> Int]
          BY <1>1, <1>4 DEF SessionTypes
        <4>3. recovery' \in [Docs -> Recoveries]
          BY <1>1, <2>2 DEF SessionTypes
        <4>4. QED
          BY <4>1, <4>2, <4>3
      <3>7. QED
        BY <1>1, <1>2, <2>2, <3>4, <3>5, <3>6 DEF SessionTypes
    <2>4. OthersAlone(d)
      BY <1>1, <1>2, <1>7, <2>1, <2>2 DEF StaysSame, SessionTypes
    <2>5. /\ Revision(d)' = t.revision /\ Saved(d)' = t.revision /\ file'[d] = t.revision
          /\ d \notin untitled'
      BY <1>1, <1>3, <1>4, <2>1 DEF SessionTypes, Timelines, Revision, Saved
    <2>6. open' \subseteq open /\ d \in open
      BY <1>10, <2>2
    <2>7. DocumentInv(d)'
      BY <1>2, <1>3, <1>4, <1>6, <2>5, <2>6 DEF DocumentInv, TasksFit, Fits, OneTask, SavesTheScreen,
         FileKnown, Written, SavedOrDiscarded
    <2>8. QED
      BY <1>3, <2>3, <2>4, <2>7, OneDocumentChanges
  <1>11. CASE d \in open /\ HalfSaved(t)
    <2>1. /\ timeline' = [timeline EXCEPT ![d].saved = t.revision]
          /\ file' = [file EXCEPT ![d] = t.revision]
          /\ save' = [save EXCEPT ![d].status = "Failed"]
          /\ UNCHANGED <<open, untitled, confirming>>
      BY <1>11 DEF HalfSaved
    <2>2. PICK r \in Recoveries : recovery' = [recovery EXCEPT ![d] = r]
      <3>1. CASE UNCHANGED recovery
        <4>1. recovery' = [recovery EXCEPT ![d] = recovery[d]]
          BY <1>1, <3>1 DEF SessionTypes
        <4>2. QED
          BY <1>3, <4>1
      <3>2. CASE \E r \in RebaseOutcomes(d, t.revision) : recovery' = [recovery EXCEPT ![d] = r]
        BY <1>1, <1>3, <1>4, <3>2, RebaseType
      <3>3. QED
        BY <1>11, <3>1, <3>2 DEF HalfSaved
    <2>3. timeline' \in [Docs -> Timelines]
      BY <1>1, <1>3, <1>4, <2>1, MarkedSaved
    <2>4. SessionTypes'
      <3>1. file' \in [Docs -> Int]
        <4>1. t.revision \in Int /\ file \in [Docs -> Int]
          BY <1>1, <1>4 DEF SessionTypes
        <4>2. QED
          BY <2>1, <4>1
      <3>2. QED
        BY <1>1, <1>2, <2>1, <2>2, <2>3, <3>1 DEF SessionTypes
    <2>5. OthersAlone(d)
      BY <1>1, <1>2, <1>7, <2>1, <2>2 DEF StaysSame, SessionTypes
    <2>6. Revision(d)' = t.revision /\ Saved(d)' = t.revision /\ file'[d] = t.revision
      BY <1>1, <1>3, <1>4, <2>1 DEF SessionTypes, Timelines, Revision, Saved
    <2>7. DocumentInv(d)'
      BY <1>2, <1>3, <1>4, <1>6, <2>1, <2>6, <1>11 DEF DocumentInv, TasksFit, Fits, OneTask,
         SavesTheScreen, FileKnown, Written, SavedOrDiscarded
    <2>8. QED
      BY <1>3, <2>4, <2>5, <2>7, OneDocumentChanges
  <1>12. QED
    BY <1>8, <1>9, <1>10, <1>11 DEF ApplySave

-----------------------------------------------------------------------------
(* Recovery: retries, and results of the store's work.                     *)

LEMMA RetryStep ==
    ASSUME DocumentsInv, NEW d \in Docs, Retry(d)
    PROVE  DocumentsInv'
  <1>1. SessionTypes /\ DocumentInv(d) /\ d \in open /\ recovery[d] \in Recoveries
    BY DEF DocumentsInv, SessionTypes, Retry
  <1>2. UNCHANGED <<open, home, timeline, untitled, save, file, discarded>>
    BY DEF Retry, history
  <1>3. /\ Checkpoint(d) \in Checkpoints /\ Revision(d) \in Nat /\ home[d] \in Windows
    BY <1>1, CheckpointType DEF SessionTypes, Timelines, Revision
  <1>4. recovery[d].preparation # "Ready"
    BY DEF Retry
  <1>5. CASE /\ recovery[d].preparation = "Failed"
             /\ recovery' = [recovery EXCEPT ![d].preparation = "Pending"]
             /\ tasks' = tasks \cup {PrepareTask(d)}
             /\ UNCHANGED confirming
    <2> DEFINE r == [recovery[d] EXCEPT !.preparation = "Pending"]
               new == PrepareTask(d)
    <2>1. r \in Recoveries /\ r.preparation = "Pending" /\ recovery' = [recovery EXCEPT ![d] = r]
      BY <1>1, <1>5 DEF Recoveries, Preparations
    <2>2. new \in Tasks /\ new.doc = d /\ new.kind = "Prepare"
      BY <1>3 DEF PrepareTask, Tasks, PrepareTasks, Results
    <2>3. tasks' = tasks \cup {new}
      BY <1>5
    <2> HIDE DEF r, new
    <2>4. SessionTypes'
      BY <1>1, <1>2, <2>1, <2>2, <2>3 DEF SessionTypes
    <2>5. OthersAlone(d)
      BY <1>1, <1>2, <1>5, <2>1, <2>2, <2>3 DEF OthersAlone, StaysSame, SessionTypes
    <2>6. \A t \in tasks : t.doc = d => t.kind = "Cleanup"
      BY <1>1, <1>5, TaskKind DEF DocumentInv, TasksFit, Fits, TaskKinds, SessionTypes
    <2>7. recovery'[d].preparation = "Pending"
      BY <1>1, <2>1 DEF SessionTypes
    <2>8. DocumentInv(d)'
      BY <1>1, <1>2, <2>2, <2>3, <2>6, <2>7 DEF DocumentInv, TasksFit, Fits, OneTask, SavesTheScreen,
         FileKnown, Written, SavedOrDiscarded, Revision, Saved
    <2>9. QED
      BY <2>4, <2>5, <2>8, OneDocumentChanges
  <1>6. CASE /\ recovery[d].preparation \in {"Ambiguous", "RebaseFailed"} /\ d \notin confirming
             /\ confirming' = confirming \cup {d}
             /\ tasks' = tasks \cup
                   {Task(IF recovery[d].preparation = "Ambiguous" THEN "Confirm" ELSE "Repair", d)}
             /\ UNCHANGED recovery
    <2>1. PICK kind \in {"Confirm", "Repair"} : tasks' = tasks \cup {Task(kind, d)}
      BY <1>6
    <2> DEFINE new == Task(kind, d)
    <2>2. new \in Tasks /\ new.doc = d /\ new.kind \in {"Confirm", "Repair"}
      BY <1>3 DEF Task, Tasks, CheckTasks, Results
    <2> HIDE DEF new
    <2>3. SessionTypes'
      BY <1>1, <1>2, <1>6, <2>1, <2>2 DEF SessionTypes, new
    <2>4. OthersAlone(d)
      BY <1>2, <1>6, <2>1, <2>2 DEF OthersAlone, StaysSame, new
    <2>5. \A t \in tasks : t.doc = d => t.kind = "Cleanup"
      BY <1>1, <1>6, TaskKind DEF DocumentInv, TasksFit, Fits, TaskKinds, SessionTypes
    <2>6. tasks' = tasks \cup {new}
      BY <2>1 DEF new
    <2>7. DocumentInv(d)'
      BY <1>1, <1>2, <1>6, <2>2, <2>5, <2>6 DEF DocumentInv, TasksFit, Fits, OneTask, SavesTheScreen,
         FileKnown, Written, SavedOrDiscarded, Revision, Saved
    <2>8. QED
      BY <2>3, <2>4, <2>7, OneDocumentChanges
  <1>7. QED
    BY <1>5, <1>6 DEF Retry

LEMMA ApplyPrepareStep ==
    ASSUME DocumentsInv, NEW t \in tasks, t.kind = "Prepare", t.result # "Waiting", ApplyPrepare(t),
           UNCHANGED <<open, home, timeline, untitled, save, file, confirming, discarded>>
    PROVE  DocumentsInv'
  <1> DEFINE d == t.doc
             r == recovery[d]
  <1>1. SessionTypes /\ t \in Tasks
    BY DEF DocumentsInv, SessionTypes
  <1>2. d \in Docs /\ t \in PrepareTasks /\ DocumentInv(d) /\ r \in Recoveries
    BY <1>1, TaskKind DEF DocumentsInv, SessionTypes
  <1>3. t.head \in Checkpoints /\ ~ Written(t)
    BY <1>2 DEF PrepareTasks, Written
  <1>4. \A x \in tasks \ {t} : x.doc = d /\ d \in open => x.kind = "Cleanup"
    BY <1>2 DEF DocumentInv, OneTask
  <1>5. CASE Here(d, t.window)
    <2>1. Prepared(r, t) \in Recoveries
      <3> DEFINE prepared == [r EXCEPT !.preparation = IF t.result = "Durable" THEN "Ready" ELSE "Ambiguous",
                                       !.head = t.head, !.current = TRUE, !.loose = @ \ {t.head}]
                 failed == [r EXCEPT !.preparation = "Failed"]
      <3>1. prepared \in Recoveries
        BY <1>2, <1>3 DEF Recoveries, Preparations
      <3>2. failed \in Recoveries
        BY <1>2 DEF Recoveries, Preparations
      <3>3. Prepared(r, t) \in {prepared, failed}
        BY DEF Prepared
      <3> HIDE DEF prepared, failed
      <3>4. QED
        BY <3>1, <3>2, <3>3
    <2>2. d \in open /\ tasks' = tasks \ {t} /\ recovery' = [recovery EXCEPT ![d] = Prepared(r, t)]
      BY <1>5 DEF ApplyPrepare, Deliver, Here
    <2>3. SessionTypes'
      BY <1>1, <2>1, <2>2 DEF SessionTypes
    <2>4. OthersAlone(d)
      BY <1>1, <2>2 DEF OthersAlone, StaysSame, SessionTypes
    <2>5. DocumentInv(d)'
      BY <1>2, <1>3, <1>4, <2>2 DEF DocumentInv, TasksFit, Fits, OneTask, SavesTheScreen, FileKnown,
         Written, SavedOrDiscarded, Revision, Saved
    <2>6. QED
      BY <1>2, <2>3, <2>4, <2>5, OneDocumentChanges
  <1>6. CASE ~ Here(d, t.window)
    <2> DEFINE new == CleanUpTask(t)
    <2>1. new \in Tasks /\ new.doc = d /\ new.kind = "Cleanup"
      BY <1>2, <1>3 DEF CleanUpTask, Tasks, CleanupTasks, Results
    <2>2. tasks' = tasks \ {t} \/ tasks' = (tasks \ {t}) \cup {new}
      BY <1>6 DEF ApplyPrepare
    <2>3. UNCHANGED recovery
      BY <1>6 DEF ApplyPrepare
    <2> HIDE DEF new
    <2>4. SessionTypes'
      BY <1>1, <2>1, <2>2, <2>3 DEF SessionTypes
    <2>5. OthersAlone(d)
      BY <2>1, <2>2, <2>3 DEF OthersAlone, StaysSame
    <2>6. DocumentInv(d)'
      BY <1>2, <1>3, <1>4, <2>1, <2>2, <2>3 DEF DocumentInv, TasksFit, Fits, OneTask, SavesTheScreen,
         FileKnown, Written, SavedOrDiscarded, Revision, Saved
    <2>7. QED
      BY <1>2, <2>4, <2>5, <2>6, OneDocumentChanges
  <1>7. QED
    BY <1>5, <1>6

LEMMA ApplyConfirmationStep ==
    ASSUME DocumentsInv, NEW t \in tasks, t.kind \in {"Confirm", "Repair"}, ApplyConfirmation(t),
           confirming' = confirming \ {t.doc},
           UNCHANGED <<open, home, timeline, untitled, save, file, discarded>>
    PROVE  DocumentsInv'
  <1> DEFINE d == t.doc
             r == recovery[d]
             confirmed == [r EXCEPT !.current = TRUE, !.preparation =
                              IF t.result = "Durable" THEN "Ready" ELSE "Ambiguous"]
  <1>1. SessionTypes /\ t \in Tasks
    BY DEF DocumentsInv, SessionTypes
  <1>2. d \in Docs /\ DocumentInv(d) /\ r \in Recoveries /\ ~ Written(t)
    BY <1>1, TaskKind DEF DocumentsInv, SessionTypes, Written
  <1>3. \A x \in tasks \ {t} : x.doc = d /\ d \in open => x.kind = "Cleanup"
    BY <1>2 DEF DocumentInv, OneTask
  <1>4. confirmed \in Recoveries
    BY <1>2 DEF Recoveries, Preparations
  <1>5. tasks' = tasks \ {t}
    BY DEF ApplyConfirmation, Deliver
  <1>6. UNCHANGED recovery \/ recovery' = [recovery EXCEPT ![d] = confirmed]
    <2>1. [recovery EXCEPT ![d].current = TRUE, ![d].preparation =
              IF t.result = "Durable" THEN "Ready" ELSE "Ambiguous"]
          = [recovery EXCEPT ![d] = confirmed]
      BY <1>1, <1>2 DEF SessionTypes
    <2>2. QED
      BY <2>1 DEF ApplyConfirmation
  <1> HIDE DEF confirmed
  <1>7. SessionTypes'
    BY <1>1, <1>2, <1>4, <1>5, <1>6 DEF SessionTypes
  <1>8. OthersAlone(d)
    BY <1>1, <1>5, <1>6 DEF OthersAlone, StaysSame, SessionTypes
  <1>9. DocumentInv(d)'
    BY <1>2, <1>3, <1>5 DEF DocumentInv, TasksFit, Fits, OneTask, SavesTheScreen, FileKnown,
       Written, SavedOrDiscarded, Revision, Saved
  <1>10. QED
    BY <1>2, <1>7, <1>8, <1>9, OneDocumentChanges

LEMMA MoveStep ==
    ASSUME DocumentsInv, NEW d \in Docs, NEW w \in Windows, MoveTab(d, w)
    PROVE  DocumentsInv'
  BY DEF MoveTab, history, DocumentsInv, DocumentInv, SessionTypes, TasksFit, Fits, OneTask,
         SavesTheScreen, FileKnown, Written, SavedOrDiscarded, Saving, Revision, Saved

-----------------------------------------------------------------------------
(* The theorems.                                                           *)

LEMMA DocumentsInit == Init => DocumentsInv
  <1> SUFFICES ASSUME Init
               PROVE  DocumentsInv
    OBVIOUS
  <1>1. timeline \in [Docs -> Timelines]
    <2>1. <<0>> \in Seq(Nat) /\ <<>> \in Seq(Nat)
      OBVIOUS
    <2>2. /\ [revision |-> 1, saved |-> 0, past |-> <<0>>, future |-> <<>>, next |-> 2] \in Timelines
          /\ [revision |-> 0, saved |-> 0, past |-> <<>>, future |-> <<>>, next |-> 1] \in Timelines
      BY <2>1 DEF Timelines
    <2>3. QED
      BY <2>2 DEF Init
  <1>2. \A d \in Docs : Checkpoint(d) \in Checkpoints
    BY <1>1 DEF Checkpoint, Checkpoints, Revision, Saved, Timelines
  <1>3. recovery \in [Docs -> Recoveries]
    <2>1. Unprepared \in Recoveries
      BY DEF Unprepared, Recoveries, Preparations
    <2>2. ASSUME NEW d \in Docs
          PROVE  [Unprepared EXCEPT !.preparation = "Ready", !.current = TRUE, !.head = Checkpoint(d)]
                 \in Recoveries
      BY <1>2, <2>1 DEF Recoveries, Preparations
    <2>3. QED
      BY <2>1, <2>2 DEF Init
  <1>4. tasks \subseteq Tasks
    <2>1. \A d \in Docs : home[d] \in Windows
      BY DEF Init
    <2>2. \A d \in Docs : PrepareTask(d) \in Tasks
      BY <1>2, <2>1 DEF PrepareTask, Tasks, PrepareTasks, Results
    <2>3. QED
      BY <2>2 DEF Init
  <1>5. SessionTypes
    <2>1. home \in [Docs -> Windows] /\ file \in [Docs -> Int]
      <3>1. file = [d \in Docs |-> IF d \in Generated THEN NoFile ELSE 0]
        BY DEF Init
      <3>2. NoFile \in Int
        BY DEF NoFile
      <3>3. home = [d \in Docs |-> FirstWindow]
        BY DEF Init
      <3>4. QED
        BY <3>1, <3>2, <3>3
    <2>2. save \in [Docs -> [status : {"Idle", "Saving", "Failed"}, generation : Nat]]
      BY DEF Init
    <2>3. QED
      BY <1>1, <1>3, <1>4, <2>1, <2>2 DEF Init, SessionTypes
  <1>6. ASSUME NEW d \in Docs
        PROVE  DocumentInv(d)
    <2>1. \A t \in tasks : t.doc = d => t = PrepareTask(d) /\ t.kind = "Prepare" /\ d \notin Recovered
      <3>1. \A e : PrepareTask(e).doc = e /\ PrepareTask(e).kind = "Prepare"
        BY DEF PrepareTask
      <3>2. QED
        BY <3>1 DEF Init
    <2>2. d \notin Recovered => recovery[d].preparation = "Pending"
      BY DEF Init, Unprepared
    <2>3. d \notin untitled => file[d] = Saved(d)
      BY DEF Init, Saved
    <2>4. d \in open
      BY DEF Init
    <2>5. QED
      BY <2>1, <2>2, <2>3, <2>4 DEF DocumentInv, TasksFit, Fits, OneTask, SavesTheScreen, FileKnown,
         SavedOrDiscarded
  <1>7. QED
    BY <1>5, <1>6 DEF DocumentsInv

LEMMA DocumentsNext == DocumentsInv /\ [Next]_vars => DocumentsInv'
  <1> SUFFICES ASSUME DocumentsInv, [Next]_vars
               PROVE  DocumentsInv'
    OBVIOUS
  <1>1. CASE UserStep
    <2>1. ASSUME NEW d \in Docs, Edit(d) \/ Undo(d) \/ Redo(d)
          PROVE  DocumentsInv'
      BY <2>1, EditStep
    <2>2. ASSUME NEW d \in Docs, Retry(d)
          PROVE  DocumentsInv'
      BY <2>2, RetryStep
    <2>3. ASSUME NEW d \in Docs, NEW w \in Windows, MoveTab(d, w)
          PROVE  DocumentsInv'
      BY <2>3, MoveStep
    <2>4. QED
      BY <1>1, <2>1, <2>2, <2>3, CloseSteps, SaveSteps DEF UserStep
  <1>2. ASSUME NEW t \in tasks, WriteFile(t) \/ ApplySave(t)
        PROVE  DocumentsInv'
    BY <1>2, WriteFileStep, ApplySaveStep
  <1>3. ASSUME NEW t \in tasks, StoreWork(t)
        PROVE  DocumentsInv'
    BY <1>3, StoreWorkStep
  <1>4. ASSUME NEW t \in tasks, ApplyStoreResult(t)
        PROVE  DocumentsInv'
    BY <1>4, ApplyPrepareStep, ApplyConfirmationStep DEF ApplyStoreResult, history
  <1>5. CASE UNCHANGED vars
    BY <1>5, Untouched DEF vars, documents, history, sessionVars
  <1>6. QED
    BY <1>1, <1>2, <1>3, <1>4, <1>5 DEF Next, SaveStep, StoreStep

\* A tab without the unsaved mark shows what its file holds, whatever saves,
\* faults, undo and moves between windows came before (document_workspace.rs,
\* apply_save_result).
THEOREM CleanIsOnDisk == Spec => []CleanMeansSaved
  <1>1. Spec => []DocumentsInv
    BY DocumentsInit, DocumentsNext, PTL DEF Spec
  <1>2. DocumentsInv => CleanMeansSaved
    BY CleanIsSaved
  <1>3. QED
    BY <1>1, <1>2, PTL

\* A tab takes unsaved edits with it only when the user chose Discard
\* (CHANGELOG.md:474, request_close_document and what saves close).
THEOREM ClosingLosesNothing == Spec => []ClosedDocumentsAreSaved
  <1>1. Spec => []DocumentsInv
    BY DocumentsInit, DocumentsNext, PTL DEF Spec
  <1>2. DocumentsInv => ClosedDocumentsAreSaved
    BY ClosedIsSaved
  <1>3. QED
    BY <1>1, <1>2, PTL

-----------------------------------------------------------------------------
(* The checkpoint covers the edits.  Its authority may be given to a       *)
(* session long after the checkpoint was made, so the invariant also says  *)
(* that what is on its way is still what the session shows.                *)

\* A save that failed half-way leaves a checkpoint that does not know it.
Agrees(head, d) == head = Checkpoint(d) \/ (MayBeHalfSaved(d) /\ head.revision = Revision(d))

Incoming(t) ==
    LET r == recovery[t.doc] IN
    /\ t.kind = "Prepare" => t.head = Checkpoint(t.doc)
    /\ t.kind = "Confirm" => r.preparation = "Ambiguous"
    /\ t.kind = "Repair" => /\ r.preparation = "RebaseFailed"
                            /\ t.revision = Revision(t.doc) /\ Revision(t.doc) = Saved(t.doc)
    /\ t.kind \in {"Confirm", "Repair"} /\ t.result \notin {"Waiting", "Failed", "Conflict"} =>
          Agrees(r.head, t.doc)

CheckpointCovers(d) ==
    LET r == recovery[d] IN
    /\ r.current => /\ r.head.revision = Revision(d)
                    /\ r.preparation # "RebaseFailed" => Agrees(r.head, d)
    /\ r.preparation = "RebaseFailed" => d \notin untitled \/ MayBeHalfSaved(d)
    /\ \A t \in tasks : t.doc = d => Incoming(t)

CoverInv == \A d \in open : CheckpointCovers(d)

LEMMA OthersCovered ==
    ASSUME DocumentsInv, CoverInv, NEW d \in Docs, OthersAlone(d), open' \subseteq open,
           d \in open' => CheckpointCovers(d)'
    PROVE  CoverInv'
  <1>1. ASSUME NEW e \in open', e # d
        PROVE  CheckpointCovers(e)'
    <2>1. e \in Docs /\ StaysSame(e) /\ CheckpointCovers(e)
      BY <1>1 DEF DocumentsInv, SessionTypes, OthersAlone, CoverInv
    <2>2. \A t : t.doc = e => (t \in tasks <=> t \in tasks')
      BY <1>1 DEF OthersAlone
    <2>3. Revision(e)' = Revision(e) /\ Saved(e)' = Saved(e) /\ recovery'[e] = recovery[e]
      BY <2>1 DEF StaysSame, Revision, Saved
    <2>4. Checkpoint(e)' = Checkpoint(e)
      BY <2>1, <2>3 DEF StaysSame, Checkpoint
    <2>5. ASSUME NEW t, t.doc = e, Incoming(t)
          PROVE  Incoming(t)'
      BY <2>3, <2>4, <2>5 DEF Incoming, Agrees, MayBeHalfSaved
    <2>6. QED
      BY <2>1, <2>2, <2>3, <2>4, <2>5 DEF CheckpointCovers, StaysSame, Agrees, MayBeHalfSaved
  <1>2. QED
    BY <1>1 DEF CoverInv

\* Nothing that stays open changes its revisions or its checkpoint.
LEMMA CoverUntouched ==
    ASSUME CoverInv, open' \subseteq open,
           \A e \in open' : /\ timeline'[e] = timeline[e] /\ recovery'[e] = recovery[e]
                            /\ (e \in untitled') <=> (e \in untitled),
           \A t \in tasks' : t \in tasks \/ t.kind \in {"Save", "Cleanup"}
    PROVE  CoverInv'
  <1>1. ASSUME NEW e \in open'
        PROVE  CheckpointCovers(e)'
    <2>1. CheckpointCovers(e)
      BY DEF CoverInv
    <2>2. /\ Revision(e)' = Revision(e) /\ Saved(e)' = Saved(e) /\ recovery'[e] = recovery[e]
          /\ Checkpoint(e)' = Checkpoint(e)
      BY DEF Revision, Saved, Checkpoint
    <2>3. \A t \in tasks' : t.doc = e => Incoming(t)'
      BY <2>1, <2>2 DEF CheckpointCovers, Incoming, Agrees, MayBeHalfSaved
    <2>4. QED
      BY <2>1, <2>2, <2>3 DEF CheckpointCovers, Agrees, MayBeHalfSaved
  <1>2. QED
    BY <1>1 DEF CoverInv

\* A checkpoint has the fields it was made of.
LEMMA CheckpointFields ==
    ASSUME NEW d
    PROVE  /\ Checkpoint(d).revision = Revision(d) /\ Checkpoint(d).saved = Saved(d)
           /\ Checkpoint(d).saveAs = (d \in untitled)
  BY DEF Checkpoint

LEMMA CommitCovers ==
    ASSUME DocumentsInv, CoverInv, NEW d \in Docs, NEW changed \in Timelines, changed.saved = Saved(d),
           NEW outdates, Commit(d, changed, outdates)
    PROVE  CoverInv'
  <1> DEFINE r == recovery[d]
             checkpoint == [Checkpoint(d) EXCEPT !.revision = changed.revision]
  <1>1. d \in open /\ ~ Saving(d) /\ r.preparation = "Ready"
    BY DEF Commit, Editable
  <1>2. SessionTypes /\ CheckpointCovers(d) /\ r \in Recoveries
    BY <1>1 DEF DocumentsInv, CoverInv, SessionTypes
  <1>3. PICK new \in ReplaceOutcomes(d, checkpoint) :
           /\ recovery' = [recovery EXCEPT ![d] = new.recovery]
           /\ timeline' = IF Keeps(new.outcome) THEN [timeline EXCEPT ![d] = changed] ELSE timeline
    BY DEF Commit
  <1>4. UNCHANGED <<open, home, untitled, save, file, tasks, confirming, discarded>>
    BY DEF Commit
  <1>5. \A t \in tasks : t.doc = d => t.kind = "Cleanup"
    BY <1>1, ReadyIsFree
  <1>6. OthersAlone(d)
    BY <1>2, <1>3, <1>4 DEF OthersAlone, StaysSame, SessionTypes
  <1>7. recovery'[d] = new.recovery
    BY <1>2, <1>3 DEF SessionTypes
  <1>8. /\ Keeps(new.outcome) => timeline'[d] = changed
        /\ ~ Keeps(new.outcome) => UNCHANGED timeline
    BY <1>2, <1>3 DEF SessionTypes
  <1>9. Keeps(new.outcome) => Checkpoint(d)' = checkpoint /\ Revision(d)' = changed.revision
    BY <1>4, <1>8 DEF Checkpoint, Revision, Saved
  <1>10. ~ Keeps(new.outcome) => Checkpoint(d)' = Checkpoint(d) /\ Revision(d)' = Revision(d)
    BY <1>4, <1>8 DEF Checkpoint, Revision, Saved
  <1>11. /\ Checkpoint(d) \in Checkpoints /\ checkpoint.revision = changed.revision
    BY <1>2, CheckpointType DEF Checkpoints
  <1>12. LET s == new.recovery IN
         /\ s.preparation # "RebaseFailed"
         /\ s.current => IF Keeps(new.outcome) THEN s.head = checkpoint ELSE Agrees(s.head, d)
    <2> DEFINE published == [r EXCEPT !.head = checkpoint]
               conflict == [r EXCEPT !.preparation = "Failed", !.head = NoHead]
               unconfirmed == [published EXCEPT !.preparation = "Ambiguous"]
               unloaded == [published EXCEPT !.current = FALSE]
    <2>1. r.current => Agrees(r.head, d)
      BY <1>1, <1>2 DEF CheckpointCovers
    <2>2. /\ published.head = checkpoint /\ published.preparation = "Ready"
          /\ unconfirmed.head = checkpoint /\ unconfirmed.preparation = "Ambiguous"
          /\ unloaded.preparation = "Ready" /\ unloaded.current = FALSE
          /\ conflict.preparation = "Failed" /\ conflict.current = r.current
      BY <1>1, <1>2 DEF Recoveries
    <2>3. \/ ~ r.current /\ new = [outcome |-> "Conflict", recovery |-> conflict]
          \/ new = [outcome |-> "Durable", recovery |-> published]
          \/ new = [outcome |-> "Unconfirmed", recovery |-> unconfirmed]
          \/ new = [outcome |-> "Unwritten", recovery |-> r]
          \/ new = [outcome |-> "Unloaded", recovery |-> unloaded]
      BY DEF ReplaceOutcomes, When
    <2> HIDE DEF r, checkpoint, published, conflict, unconfirmed, unloaded
    <2>4. QED
      BY <1>1, <2>1, <2>2, <2>3 DEF Keeps, r
  <1> HIDE DEF checkpoint
  <1>13. r.current => r.head.revision = Revision(d)
    BY <1>2 DEF CheckpointCovers
  <1>14. CheckpointCovers(d)'
    <2>1. Checkpoint(d)'.revision = Revision(d)'
      BY <1>9, <1>10, <1>11, CheckpointFields
    <2>2. new.recovery.current =>
             \/ new.recovery.head = Checkpoint(d)'
             \/ MayBeHalfSaved(d)' /\ new.recovery.head.revision = Revision(d)'
      BY <1>8, <1>9, <1>10, <1>12 DEF Agrees, MayBeHalfSaved, Revision, Saved
    <2>3. \A t \in tasks' : t.doc = d => Incoming(t)'
      BY <1>4, <1>5 DEF Incoming
    <2>4. QED
      BY <1>7, <1>12, <2>1, <2>2, <2>3 DEF CheckpointCovers, Agrees
  <1>15. QED
    BY <1>4, <1>6, <1>14, OthersCovered

LEMMA EditCovers ==
    ASSUME DocumentsInv, CoverInv, NEW d \in Docs, Edit(d) \/ Undo(d) \/ Redo(d)
    PROVE  CoverInv'
  <1>1. timeline[d] \in Timelines /\ Saved(d) = timeline[d].saved
    BY DEF DocumentsInv, SessionTypes, Saved
  <1>2. CASE Edit(d)
    BY <1>1, <1>2, TimelineTypes, CommitCovers DEF Edit
  <1>3. CASE Undo(d)
    BY <1>1, <1>3, TimelineTypes, CommitCovers DEF Undo
  <1>4. CASE Redo(d)
    BY <1>1, <1>4, TimelineTypes, CommitCovers DEF Redo
  <1>5. QED
    BY <1>2, <1>3, <1>4

LEMMA CloseCovers ==
    ASSUME DocumentsInv, CoverInv, NEW d \in open, NEW shown, NEW warning,
           Close(d, shown, recovery[d]) \/ AnswerClose(d, shown, warning),
           UNCHANGED <<timeline, untitled, tasks>>
    PROVE  CoverInv'
  <1>1. SessionTypes
    BY DEF DocumentsInv
  <1>2. CASE Close(d, shown, recovery[d])
    <2>1. open' \subseteq open
      BY <1>2 DEF Close
    <2>2. \A e \in open' : recovery'[e] = recovery[e]
      BY <1>1, <1>2 DEF SessionTypes, Close
    <2>3. QED
      BY <2>1, <2>2, CoverUntouched
  <1>3. CASE AnswerClose(d, shown, warning) /\ UNCHANGED <<open, recovery>>
    BY <1>3, CoverUntouched
  <1>4. QED
    BY <1>2, <1>3 DEF AnswerClose, Stay

LEMMA UserCovers ==
    ASSUME DocumentsInv, CoverInv,
           \/ \E d \in Docs : RequestClose(d) \/ Save(d) \/ DismissFailure(d)
           \/ \E w \in Windows :
                 \/ CancelClose(w) \/ Discard(w) \/ ContinueClose(w) \/ SaveAndClose(w) \/ NoTarget(w)
                 \/ \E target \in {"Opened", "New"} : PickTarget(w, target)
                 \/ \E d \in Docs : MoveTab(d, w)
    PROVE  CoverInv'
  <1> DEFINE Quiet == /\ UNCHANGED <<open, timeline, untitled, recovery>>
                      /\ \A t \in tasks' : t \in tasks \/ t.kind = "Save"
  <1>1. Quiet => CoverInv'
    BY CoverUntouched
  <1>2. ASSUME NEW d \in Docs, RequestClose(d)
        PROVE  CoverInv'
    BY <1>2, CloseCovers DEF RequestClose
  <1>3. ASSUME NEW w \in Windows, Discard(w)
        PROVE  CoverInv'
    <2>1. Pending(w) \in open
      BY <1>3 DEF Discard, Shown
    <2>2. QED
      BY <1>3, <2>1, CloseCovers DEF Discard
  <1>4. ASSUME NEW w \in Windows, ContinueClose(w)
        PROVE  CoverInv'
    <2>1. Pending(w) \in open
      BY <1>4 DEF ContinueClose, Shown
    <2>2. QED
      BY <1>4, <2>1, CloseCovers DEF ContinueClose
  <1>5. ASSUME NEW d, NEW target, Start(d, target) \/ Refused(d) \/ BeginSave(d, target)
                                  \/ BeginCloseSave(d, target)
        PROVE  \A t \in tasks' : t \in tasks \/ t.kind = "Save"
    BY <1>5 DEF Start, Refused, BeginSave, BeginCloseSave
  <1>6. ASSUME NEW d \in Docs, Save(d) \/ DismissFailure(d)
        PROVE  Quiet
    BY <1>5, <1>6 DEF Save, DismissFailure
  <1>7. ASSUME NEW w \in Windows, CancelClose(w) \/ SaveAndClose(w) \/ NoTarget(w)
        PROVE  Quiet
    BY <1>5, <1>7 DEF CancelClose, documents, SaveAndClose, NoTarget
  <1>8. ASSUME NEW w \in Windows, NEW target \in {"Opened", "New"}, PickTarget(w, target)
        PROVE  Quiet
    BY <1>5, <1>8 DEF PickTarget
  <1>9. ASSUME NEW w \in Windows, NEW d \in Docs, MoveTab(d, w)
        PROVE  Quiet
    BY <1>9 DEF MoveTab
  <1> HIDE DEF Quiet
  <1>10. QED
    BY <1>1, <1>2, <1>3, <1>4, <1>6, <1>7, <1>8, <1>9

LEMMA SaveTaskCovers ==
    ASSUME DocumentsInv, CoverInv, NEW t \in tasks, WriteFile(t) \/ ApplySave(t)
    PROVE  CoverInv'
  <1> DEFINE d == t.doc
             r == recovery[d]
  <1>1. SessionTypes /\ t \in Tasks
    BY DEF DocumentsInv, SessionTypes
  <1>2. d \in Docs /\ r \in Recoveries /\ DocumentInv(d)
    BY <1>1, TaskKind DEF DocumentsInv, SessionTypes
  <1>3. CASE WriteFile(t)
    <2>1. PICK result : Finish(t, result)
      BY <1>3 DEF WriteFile
    <2>2. [t EXCEPT !.result = result].kind = "Save"
      BY <1>1, <1>3, TaskKind DEF WriteFile, SaveTasks
    <2>3. \A x \in tasks' : x \in tasks \/ x.kind = "Save"
      BY <2>1, <2>2 DEF Finish
    <2>4. UNCHANGED <<open, timeline, untitled, recovery>>
      BY <1>3 DEF WriteFile, documents
    <2>5. QED
      BY <2>3, <2>4, CoverUntouched
  <1>4. CASE ApplySave(t) /\ UNCHANGED <<open, timeline, untitled, recovery>>
    BY <1>4, CoverUntouched DEF ApplySave, Deliver
  <1>5. CASE ApplySave(t) /\ d \in open /\ Accepted(t) /\ Completed(t)
    <2>1. /\ t.kind = "Save" /\ tasks' = tasks \ {t} /\ UNCHANGED <<home, discarded>>
          /\ d \in open /\ Revision(d) = t.revision /\ r.preparation = "Ready"
      BY <1>5 DEF ApplySave, Deliver, Accepted
    <2>2. /\ timeline' = [timeline EXCEPT ![d].saved = t.revision]
          /\ save' = [save EXCEPT ![d].status = "Idle"]
          /\ untitled' = untitled \ {d}
          /\ file' = [file EXCEPT ![d] = t.revision]
      BY <1>5 DEF Completed
    <2>3. PICK new \in RebaseOutcomes(d, t.revision) :
              IF ClosesAfterSave(d) /\ t.result = "Saved" /\ new.preparation # "RebaseFailed"
              THEN Close(d, [dialog[home[d]] EXCEPT !.pending = d], new)
              ELSE recovery' = [recovery EXCEPT ![d] = new] /\ UNCHANGED <<open, confirming>>
      BY <1>5 DEF Completed
    <2>4. t.revision \in Nat /\ timeline[d] \in Timelines
      BY <1>1, <1>2, <2>1, TaskKind DEF SaveTasks, SessionTypes
    <2>5. /\ Revision(d)' = t.revision /\ Saved(d)' = t.revision /\ d \notin untitled'
      <3>1. timeline'[d] = [timeline[d] EXCEPT !.saved = t.revision]
        BY <1>1, <1>2, <2>2 DEF SessionTypes
      <3>2. timeline'[d].revision = timeline[d].revision /\ timeline'[d].saved = t.revision
        BY <2>4, <3>1 DEF Timelines
      <3>3. QED
        BY <2>1, <2>2, <3>2 DEF Revision, Saved
    <2>6. \/ d \notin open' /\ open' = open \ {d} /\ confirming' = confirming \ {d}
             /\ \E s : recovery' = [recovery EXCEPT ![d] = s]
          \/ recovery' = [recovery EXCEPT ![d] = new] /\ UNCHANGED <<open, confirming>>
      BY <2>3 DEF Close
    <2>7. OthersAlone(d)
      BY <1>1, <2>1, <2>2, <2>6 DEF OthersAlone, StaysSame, SessionTypes
    <2>8. ASSUME recovery' = [recovery EXCEPT ![d] = new], UNCHANGED open
          PROVE  CheckpointCovers(d)'
      <3> DEFINE head == [revision |-> t.revision, saved |-> t.revision, saveAs |-> FALSE]
                 failed == [r EXCEPT !.preparation = "RebaseFailed"]
                 rebased == [r EXCEPT !.head = head]
                 unconfirmed == [rebased EXCEPT !.preparation = "Ambiguous"]
                 unloaded == [rebased EXCEPT !.preparation = "RebaseFailed", !.current = FALSE]
      <3>1. new \in {failed, rebased, unconfirmed, unloaded}
        BY DEF RebaseOutcomes, When
      <3>2. Checkpoint(d)' = head
        <4>1. (d \in untitled') = FALSE
          BY <2>5
        <4>2. Checkpoint(d)' = [revision |-> Revision(d)', saved |-> Saved(d)', saveAs |-> (d \in untitled')]
          BY DEF Checkpoint
        <4>3. QED
          BY <2>5, <4>1, <4>2
      <3>3. r.current => r.head.revision = t.revision
        BY <2>1 DEF CoverInv, CheckpointCovers
      <3>4. /\ failed.preparation = "RebaseFailed" /\ failed.head = r.head /\ failed.current = r.current
            /\ rebased.head = head /\ rebased.preparation = "Ready"
            /\ unconfirmed.head = head /\ unconfirmed.preparation = "Ambiguous"
            /\ unloaded.preparation = "RebaseFailed" /\ unloaded.current = FALSE
            /\ head.revision = t.revision
        BY <1>2, <2>1 DEF Recoveries
      <3>5. recovery'[d] = new
        BY <1>1, <1>2, <2>8 DEF SessionTypes
      <3>6. \A x \in tasks' : x.doc = d => x.kind = "Cleanup"
        BY <1>2, <2>1 DEF DocumentInv, OneTask
      <3>7. \A x \in tasks' : x.doc = d => Incoming(x)'
        BY <3>6 DEF Incoming
      <3> HIDE DEF r, head, failed, rebased, unconfirmed, unloaded
      <3>8. QED
        BY <2>5, <3>1, <3>2, <3>3, <3>4, <3>5, <3>7 DEF CheckpointCovers, Agrees
    <2>9. QED
      BY <1>2, <2>6, <2>7, <2>8, OthersCovered
  <1>6. CASE ApplySave(t) /\ d \in open /\ Accepted(t) /\ HalfSaved(t)
    <2>1. /\ t.kind = "Save" /\ tasks' = tasks \ {t} /\ UNCHANGED <<home, discarded>>
          /\ Revision(d) = t.revision /\ r.preparation = "Ready"
      BY <1>6 DEF ApplySave, Deliver, Accepted
    <2>2. /\ timeline' = [timeline EXCEPT ![d].saved = t.revision]
          /\ save' = [save EXCEPT ![d].status = "Failed"]
          /\ file' = [file EXCEPT ![d] = t.revision]
          /\ Faults[d] \cap {"EncodeFails", "PictureFails"} # {}
          /\ UNCHANGED <<open, untitled, confirming>>
      BY <1>6 DEF HalfSaved
    <2>3. t.revision \in Nat /\ timeline[d] \in Timelines
      BY <1>1, <1>2, <2>1, TaskKind DEF SaveTasks, SessionTypes
    <2>4. Revision(d)' = t.revision /\ MayBeHalfSaved(d)'
      <3>1. timeline'[d] = [timeline[d] EXCEPT !.saved = t.revision]
        BY <1>1, <1>2, <2>2 DEF SessionTypes
      <3>2. timeline'[d].revision = timeline[d].revision /\ timeline'[d].saved = t.revision
        BY <2>3, <3>1 DEF Timelines
      <3>3. QED
        BY <2>1, <2>2, <3>2 DEF Revision, Saved, MayBeHalfSaved
    <2>5. PICK new : /\ recovery' = [recovery EXCEPT ![d] = new]
                     /\ new = r \/ new \in RebaseOutcomes(d, t.revision)
      <3>1. CASE UNCHANGED recovery
        BY <1>1, <3>1 DEF SessionTypes
      <3>2. QED
        BY <1>6, <3>1 DEF HalfSaved
    <2>6. OthersAlone(d)
      BY <1>1, <2>1, <2>2, <2>5 DEF OthersAlone, StaysSame, SessionTypes
    <2>7. recovery'[d] = new
      BY <1>1, <1>2, <2>5 DEF SessionTypes
    <2>8. new.current => new.head.revision = t.revision
      <3> DEFINE head == [revision |-> t.revision, saved |-> t.revision, saveAs |-> FALSE]
                 failed == [r EXCEPT !.preparation = "RebaseFailed"]
                 rebased == [r EXCEPT !.head = head]
                 unconfirmed == [rebased EXCEPT !.preparation = "Ambiguous"]
                 unloaded == [rebased EXCEPT !.preparation = "RebaseFailed", !.current = FALSE]
      <3>1. new \in {r, failed, rebased, unconfirmed, unloaded}
        BY <2>5 DEF RebaseOutcomes, When
      <3>2. r.current => r.head.revision = t.revision
        BY <1>6, <2>1 DEF CoverInv, CheckpointCovers
      <3>3. /\ failed.head = r.head /\ failed.current = r.current
            /\ rebased.head = head /\ unconfirmed.head = head /\ unloaded.current = FALSE
            /\ head.revision = t.revision
        BY <1>2 DEF Recoveries
      <3> HIDE DEF r, head, failed, rebased, unconfirmed, unloaded
      <3>4. QED
        BY <3>1, <3>2, <3>3
    <2>9. \A x \in tasks' : x.doc = d => Incoming(x)'
      <3>1. \A x \in tasks' : x.doc = d => x.kind = "Cleanup"
        BY <1>2, <1>6, <2>1 DEF DocumentInv, OneTask
      <3>2. QED
        BY <3>1 DEF Incoming
    <2>10. CheckpointCovers(d)'
      BY <2>4, <2>7, <2>8, <2>9 DEF CheckpointCovers, Agrees
    <2>11. QED
      BY <1>2, <2>2, <2>6, <2>10, OthersCovered
  <1>7. QED
    BY <1>3, <1>4, <1>5, <1>6 DEF ApplySave

LEMMA RetryCovers ==
    ASSUME DocumentsInv, CoverInv, NEW d \in Docs, Retry(d)
    PROVE  CoverInv'
  <1> DEFINE r == recovery[d]
  <1>1. /\ SessionTypes /\ CheckpointCovers(d) /\ d \in open /\ r \in Recoveries
        /\ UNCHANGED <<open, home, timeline, untitled, save, file, discarded>>
    BY DEF DocumentsInv, SessionTypes, CoverInv, Retry, history
  <1>2. /\ Revision(d)' = Revision(d) /\ Saved(d)' = Saved(d) /\ Checkpoint(d)' = Checkpoint(d)
    BY <1>1 DEF Revision, Saved, Checkpoint
  <1>3. CASE /\ r.preparation = "Failed"
             /\ recovery' = [recovery EXCEPT ![d].preparation = "Pending"]
             /\ tasks' = tasks \cup {PrepareTask(d)}
             /\ UNCHANGED confirming
    <2> DEFINE pending == [r EXCEPT !.preparation = "Pending"]
    <2>1. /\ pending.preparation = "Pending" /\ pending.head = r.head /\ pending.current = r.current
          /\ recovery'[d] = pending
      BY <1>1, <1>3 DEF Recoveries, SessionTypes
    <2>2. \A t \in tasks : t.doc = d => t.kind \in {"Cleanup", "Save"}
      BY <1>1, <1>3, TaskKind DEF DocumentsInv, DocumentInv, TasksFit, Fits, TaskKinds, SessionTypes
    <2>3. /\ PrepareTask(d).kind = "Prepare" /\ PrepareTask(d).doc = d
          /\ PrepareTask(d).head = Checkpoint(d)
      BY DEF PrepareTask
    <2>4. \A t \in tasks' : t.doc = d => Incoming(t)'
      BY <1>2, <1>3, <2>2, <2>3 DEF Incoming
    <2>5. OthersAlone(d)
      BY <1>1, <1>3, <2>3 DEF OthersAlone, StaysSame, SessionTypes
    <2> HIDE DEF pending
    <2>6. CheckpointCovers(d)'
      BY <1>1, <1>2, <1>3, <2>1, <2>4 DEF CheckpointCovers, Agrees, MayBeHalfSaved
    <2>7. QED
      BY <1>1, <2>5, <2>6, OthersCovered
  <1>4. CASE /\ r.preparation \in {"Ambiguous", "RebaseFailed"} /\ d \notin confirming
             /\ r.preparation = "RebaseFailed" => Revision(d) = Saved(d)
             /\ confirming' = confirming \cup {d}
             /\ tasks' = tasks \cup
                   {Task(IF r.preparation = "Ambiguous" THEN "Confirm" ELSE "Repair", d)}
             /\ UNCHANGED recovery
    <2>1. PICK new : /\ new.kind = IF r.preparation = "Ambiguous" THEN "Confirm" ELSE "Repair"
                     /\ new.doc = d /\ new.revision = Revision(d) /\ new.result = "Waiting"
                     /\ tasks' = tasks \cup {new}
      <3> DEFINE made == Task(IF r.preparation = "Ambiguous" THEN "Confirm" ELSE "Repair", d)
      <3>1. /\ made.kind = IF r.preparation = "Ambiguous" THEN "Confirm" ELSE "Repair"
            /\ made.doc = d /\ made.revision = Revision(d) /\ made.result = "Waiting"
        BY DEF Task
      <3>2. tasks' = tasks \cup {made}
        BY <1>4
      <3> HIDE DEF made
      <3>3. QED
        BY <3>1, <3>2
    <2>2. Incoming(new)'
      BY <1>2, <1>4, <2>1 DEF Incoming
    <2>3. \A t \in tasks : t.doc = d => Incoming(t)'
      BY <1>1, <1>2, <1>4 DEF CheckpointCovers, Incoming, Agrees, MayBeHalfSaved
    <2>4. OthersAlone(d)
      BY <1>1, <1>4, <2>1 DEF OthersAlone, StaysSame
    <2>5. CheckpointCovers(d)'
      BY <1>1, <1>2, <1>4, <2>1, <2>2, <2>3 DEF CheckpointCovers, Agrees, MayBeHalfSaved
    <2>6. QED
      BY <1>1, <2>4, <2>5, OthersCovered
  <1>5. QED
    BY <1>3, <1>4 DEF Retry

\* A task is done, and its document's checkpoints are what its work made of them.
LEMMA FinishCovers ==
    ASSUME DocumentsInv, CoverInv, NEW t \in tasks, t.kind # "Save", NEW result \in Results,
           Finish(t, result), UNCHANGED <<open, home, timeline, untitled, save, file, confirming, discarded>>,
           NEW s \in Recoveries, recovery' = [recovery EXCEPT ![t.doc] = s],
           s.preparation = recovery[t.doc].preparation,
           \/ s.head = recovery[t.doc].head /\ (s.current => recovery[t.doc].current)
           \/ t.kind = "Repair" /\ ~ s.current,
           t.kind \in {"Confirm", "Repair"} /\ t.doc \in open
              /\ result \notin {"Waiting", "Failed", "Conflict"} => Agrees(s.head, t.doc)
    PROVE  CoverInv'
  <1> DEFINE d == t.doc
             u == [t EXCEPT !.result = result]
  <1>1. SessionTypes /\ t \in Tasks
    BY DEF DocumentsInv, SessionTypes
  <1>2. d \in Docs /\ DocumentInv(d)
    BY <1>1, TaskKind DEF DocumentsInv
  <1>3. /\ u.doc = d /\ u.kind = t.kind /\ u.result = result
        /\ t.kind = "Prepare" => u.head = t.head
        /\ t.kind = "Repair" => u.revision = t.revision
    BY <1>1, TaskKind, TaskFinished DEF PrepareTasks, CheckTasks
  <1>4. tasks' = (tasks \ {t}) \cup {u}
    BY DEF Finish
  <1> HIDE DEF u
  <1>5. recovery'[d] = s
    BY <1>1, <1>2 DEF SessionTypes
  <1>6. OthersAlone(d)
    BY <1>1, <1>3, <1>4 DEF OthersAlone, StaysSame, SessionTypes
  <1>7. /\ Revision(d)' = Revision(d) /\ Saved(d)' = Saved(d) /\ Checkpoint(d)' = Checkpoint(d)
    BY DEF Revision, Saved, Checkpoint
  <1>8. ASSUME d \in open
        PROVE  CheckpointCovers(d)'
    <2>1. CheckpointCovers(d) /\ Incoming(t)
      BY <1>8 DEF CoverInv, CheckpointCovers
    <2>2. Incoming(u)'
      BY <1>3, <1>5, <1>7, <1>8, <2>1 DEF Incoming, Agrees, MayBeHalfSaved
    <2>3. ASSUME NEW x \in tasks \ {t}, x.doc = d
          PROVE  Incoming(x)'
      <3>1. t.kind # "Cleanup" => x.kind \in {"Cleanup"}
        BY <1>2, <1>8, <2>3 DEF DocumentInv, OneTask
      <3>2. CASE t.kind # "Cleanup"
        BY <3>1, <3>2 DEF Incoming
      <3>3. CASE t.kind = "Cleanup"
        <4>1. s.head = recovery[d].head
          BY <3>3
        <4>2. Incoming(x)
          BY <2>1, <2>3 DEF CheckpointCovers
        <4>3. QED
          BY <1>5, <1>7, <2>3, <4>1, <4>2 DEF Incoming, Agrees, MayBeHalfSaved
      <3>4. QED
        BY <3>2, <3>3
    <2>4. QED
      BY <1>4, <1>5, <1>7, <2>1, <2>2, <2>3 DEF CheckpointCovers, Agrees, MayBeHalfSaved
  <1>9. QED
    BY <1>2, <1>6, <1>8, OthersCovered

LEMMA StoreWorkCovers ==
    ASSUME DocumentsInv, CoverInv, NEW t \in tasks, StoreWork(t)
    PROVE  CoverInv'
  <1> DEFINE d == t.doc
             r == recovery[d]
  <1>1. SessionTypes /\ t \in Tasks
    BY DEF DocumentsInv, SessionTypes
  <1>2. /\ d \in Docs /\ r \in Recoveries /\ recovery = [recovery EXCEPT ![d] = r]
    BY <1>1, TaskKind DEF SessionTypes
  <1>3. UNCHANGED <<open, home, timeline, untitled, save, file, confirming, discarded>>
    BY DEF StoreWork
  <1>4. d \in open => CheckpointCovers(d) /\ Incoming(t)
    BY DEF CoverInv, CheckpointCovers
  <1>5. {"Failed", "Durable", "Unconfirmed", "Conflict"} \subseteq Results
    BY DEF Results
  <1>6. CASE t.kind = "Prepare" /\ Publish(t)
    <2> DEFINE published == [r EXCEPT !.loose = @ \cup {t.head}]
    <2>1. t.head \in Checkpoints
      BY <1>1, <1>6, TaskKind DEF PrepareTasks
    <2>2. /\ published \in Recoveries /\ published.preparation = r.preparation
          /\ published.head = r.head /\ published.current = r.current
      BY <1>2, <2>1 DEF Recoveries
    <2>3. CASE recovery' = [recovery EXCEPT ![d] = published] /\ \E result \in Results : Finish(t, result)
      <3> HIDE DEF published
      <3>1. QED
        BY <1>3, <1>6, <2>2, <2>3, FinishCovers
    <2>4. CASE UNCHANGED recovery /\ \E result \in Results : Finish(t, result)
      BY <1>2, <1>3, <1>6, <2>4, FinishCovers
    <2>5. QED
      BY <1>5, <1>6, <2>3, <2>4 DEF Publish
  <1>7. CASE t.kind = "Confirm" /\ ConfirmWork(t)
    <2>1. PICK result \in {"Durable", "Failed"} :
             Finish(t, result) /\ UNCHANGED recovery /\ (result = "Durable" => r.current)
      BY <1>7 DEF ConfirmWork
    <2>2. d \in open /\ result = "Durable" => Agrees(r.head, d)
      BY <1>4, <1>7, <2>1 DEF CheckpointCovers, Incoming
    <2>3. QED
      BY <1>2, <1>3, <1>5, <1>7, <2>1, <2>2, FinishCovers
  <1>8. CASE t.kind = "Repair" /\ RepairWork(t)
    <2>1. CASE UNCHANGED recovery /\ \E result \in {"Conflict", "Failed"} : Finish(t, result)
      BY <1>2, <1>3, <1>5, <1>8, <2>1, FinishCovers
    <2>2. ASSUME NEW new \in RebaseOutcomes(d, t.revision), r.current,
                 recovery' = [recovery EXCEPT ![d].head = new.head, ![d].current = FALSE],
                 Finish(t, IF ~ new.current THEN "Failed"
                           ELSE IF new.preparation = "Ambiguous" THEN "Unconfirmed" ELSE "Durable"),
                 ~ (new.head = r.head /\ new.preparation = "RebaseFailed" /\ new.current)
          PROVE  CoverInv'
      <3> DEFINE repaired == [r EXCEPT !.head = new.head, !.current = FALSE]
      <3>1. t.revision \in Nat
        BY <1>1, <1>8, TaskKind DEF CheckTasks
      <3>2. new \in Recoveries
        BY <1>1, <1>2, <3>1, RebaseType
      <3>3. new.head \in Checkpoints \cup {NoHead}
        BY <3>2 DEF Recoveries
      <3>4. /\ repaired \in Recoveries /\ repaired.preparation = r.preparation
            /\ repaired.head = new.head /\ ~ repaired.current
        BY <1>2, <3>3 DEF Recoveries
      <3>5. recovery' = [recovery EXCEPT ![d] = repaired]
        BY <1>1, <1>2, <2>2 DEF SessionTypes
      <3>6. ASSUME d \in open, new.current
            PROVE  Agrees(new.head, d)
        <4> DEFINE head == [revision |-> t.revision, saved |-> t.revision, saveAs |-> FALSE]
                   failed == [r EXCEPT !.preparation = "RebaseFailed"]
                   rebased == [r EXCEPT !.head = head]
                   unconfirmed == [rebased EXCEPT !.preparation = "Ambiguous"]
                   unloaded == [rebased EXCEPT !.preparation = "RebaseFailed", !.current = FALSE]
        <4>1. new \in {failed, rebased, unconfirmed, unloaded}
          BY DEF RebaseOutcomes, When
        <4>2. /\ failed.preparation = "RebaseFailed" /\ failed.head = r.head /\ failed.current = r.current
              /\ rebased.head = head /\ unconfirmed.head = head /\ unloaded.current = FALSE
          BY <1>2 DEF Recoveries
        <4>3. /\ r.preparation = "RebaseFailed" /\ t.revision = Revision(d) /\ Revision(d) = Saved(d)
              /\ d \notin untitled \/ MayBeHalfSaved(d)
          BY <1>4, <1>8, <3>6 DEF Incoming, CheckpointCovers
        <4>4. Agrees(head, d)
          <5>1. Checkpoint(d) = [revision |-> Revision(d), saved |-> Saved(d), saveAs |-> (d \in untitled)]
            BY DEF Checkpoint
          <5>2. CASE d \notin untitled
            <6>1. (d \in untitled) = FALSE
              BY <5>2
            <6>2. QED
              BY <4>3, <5>1, <6>1 DEF Agrees
          <5>3. CASE MayBeHalfSaved(d)
            BY <4>3, <5>3 DEF Agrees
          <5>4. QED
            BY <4>3, <5>2, <5>3
        <4> HIDE DEF head, failed, rebased, unconfirmed, unloaded
        <4>5. QED
          BY <2>2, <3>6, <4>1, <4>2, <4>4
      <3>7. PICK result \in {"Failed", "Durable", "Unconfirmed"} :
               Finish(t, result) /\ (result # "Failed" => new.current)
        BY <2>2
      <3> HIDE DEF repaired
      <3>8. QED
        BY <1>3, <1>5, <1>8, <3>4, <3>5, <3>6, <3>7, FinishCovers
    <2>3. QED
      BY <1>8, <2>1, <2>2 DEF RepairWork
  <1>9. CASE t.kind = "Cleanup" /\ CleanUp(t)
    <2> DEFINE left == [r EXCEPT !.loose = @ \ {t.head}]
    <2>1. /\ left.preparation = r.preparation /\ left.head = r.head /\ left.current = r.current
      BY <1>2 DEF Recoveries
    <2>2. recovery' = [recovery EXCEPT ![d] = left] /\ tasks' = tasks \ {t}
      BY <1>9 DEF CleanUp, Deliver
    <2>3. recovery'[d] = left
      BY <1>1, <1>2, <2>2 DEF SessionTypes
    <2> HIDE DEF left
    <2>4. OthersAlone(d)
      BY <1>1, <1>3, <2>2 DEF OthersAlone, StaysSame, SessionTypes
    <2>5. d \in open => CheckpointCovers(d)'
      <3>1. Revision(d)' = Revision(d) /\ Saved(d)' = Saved(d) /\ Checkpoint(d)' = Checkpoint(d)
        BY <1>3 DEF Revision, Saved, Checkpoint
      <3>2. \A x \in tasks : x.doc = d /\ Incoming(x) => Incoming(x)'
        BY <2>1, <2>3, <3>1 DEF Incoming, Agrees, MayBeHalfSaved
      <3>3. QED
        BY <1>3, <1>4, <2>1, <2>2, <2>3, <3>1, <3>2 DEF CheckpointCovers, Agrees, MayBeHalfSaved
    <2>6. QED
      BY <1>2, <1>3, <2>4, <2>5, OthersCovered
  <1>10. QED
    BY <1>6, <1>7, <1>8, <1>9 DEF StoreWork

LEMMA StoreResultCovers ==
    ASSUME DocumentsInv, CoverInv, NEW t \in tasks, ApplyStoreResult(t)
    PROVE  CoverInv'
  <1> DEFINE d == t.doc
             r == recovery[d]
  <1>1. SessionTypes /\ t \in Tasks
    BY DEF DocumentsInv, SessionTypes
  <1>2. /\ d \in Docs /\ r \in Recoveries /\ DocumentInv(d)
        /\ UNCHANGED <<open, home, timeline, untitled, save, file, discarded>>
    BY <1>1, TaskKind DEF DocumentsInv, SessionTypes, ApplyStoreResult, history
  <1>3. ASSUME d \in open, t.kind # "Cleanup"
        PROVE  \A x \in tasks \ {t} : x.doc = d => x.kind = "Cleanup"
    BY <1>2, <1>3 DEF DocumentInv, OneTask
  <1>4. d \in open => CheckpointCovers(d) /\ Incoming(t)
    BY DEF CoverInv, CheckpointCovers
  <1>5. /\ Revision(d)' = Revision(d) /\ Saved(d)' = Saved(d) /\ Checkpoint(d)' = Checkpoint(d)
    BY <1>2 DEF Revision, Saved, Checkpoint
  <1>6. CASE t.kind = "Prepare" /\ ApplyPrepare(t) /\ UNCHANGED confirming /\ Here(d, t.window)
    <2>1. tasks' = tasks \ {t} /\ recovery' = [recovery EXCEPT ![d] = Prepared(r, t)] /\ d \in open
      BY <1>6 DEF ApplyPrepare, Deliver, Here
    <2>2. recovery'[d] = Prepared(r, t)
      BY <1>1, <1>2, <2>1 DEF SessionTypes
    <2>3. OthersAlone(d)
      BY <1>1, <1>2, <1>6, <2>1 DEF OthersAlone, StaysSame, SessionTypes
    <2>4. /\ Prepared(r, t).preparation # "RebaseFailed"
          /\ Prepared(r, t).current => Agrees(Prepared(r, t).head, d)
      <3>1. CASE t.result = "Failed"
        <4>1. /\ Prepared(r, t).preparation = "Failed" /\ Prepared(r, t).current = r.current
              /\ Prepared(r, t).head = r.head
          BY <1>2, <3>1 DEF Prepared, Recoveries
        <4>2. r.preparation = "Pending"
          BY <1>2, <1>6, <2>1 DEF DocumentInv, TasksFit, Fits
        <4>3. QED
          BY <1>4, <2>1, <4>1, <4>2 DEF CheckpointCovers
      <3>2. CASE t.result # "Failed"
        <4>1. /\ Prepared(r, t).preparation \in {"Ready", "Ambiguous"} /\ Prepared(r, t).head = t.head
          BY <1>2, <3>2 DEF Prepared, Recoveries
        <4>2. QED
          BY <1>4, <1>6, <2>1, <4>1 DEF Incoming, Agrees
      <3>3. QED
        BY <3>1, <3>2
    <2>5. CheckpointCovers(d)'
      <3>1. \A x \in tasks' : x.doc = d => Incoming(x)'
        BY <1>3, <1>6, <2>1 DEF Incoming
      <3>2. Checkpoint(d)'.revision = Revision(d)'
        BY <1>5, CheckpointFields
      <3>3. QED
        BY <1>5, <2>2, <2>4, <3>1, <3>2 DEF CheckpointCovers, Agrees, MayBeHalfSaved
    <2>6. QED
      BY <1>2, <2>3, <2>5, OthersCovered
  <1>7. CASE t.kind = "Prepare" /\ ApplyPrepare(t) /\ UNCHANGED confirming /\ ~ Here(d, t.window)
    <2>1. UNCHANGED recovery /\ \A x \in tasks' : x \in tasks \/ x.kind = "Cleanup"
      BY <1>7 DEF ApplyPrepare, CleanUpTask
    <2>2. QED
      BY <1>2, <2>1, CoverUntouched
  <1>8. CASE t.kind \in {"Confirm", "Repair"} /\ ApplyConfirmation(t) /\ confirming' = confirming \ {d}
    <2> DEFINE confirmed == [r EXCEPT !.current = TRUE, !.preparation =
                                IF t.result = "Durable" THEN "Ready" ELSE "Ambiguous"]
    <2>1. tasks' = tasks \ {t}
      BY <1>8 DEF ApplyConfirmation, Deliver
    <2>2. CASE UNCHANGED recovery
      BY <1>2, <2>1, <2>2, CoverUntouched
    <2>3. CASE /\ d \in open /\ t.result \notin {"Failed", "Conflict"}
               /\ recovery' = [recovery EXCEPT ![d].current = TRUE, ![d].preparation =
                                  IF t.result = "Durable" THEN "Ready" ELSE "Ambiguous"]
      <3>1. /\ recovery'[d] = confirmed /\ \A e \in Docs \ {d} : recovery'[e] = recovery[e]
        BY <1>1, <1>2, <2>3 DEF SessionTypes
      <3>2. confirmed.preparation \in {"Ready", "Ambiguous"} /\ confirmed.head = r.head
        BY <1>2 DEF Recoveries
      <3>3. Agrees(r.head, d)
        BY <1>4, <1>8, <2>3 DEF Incoming, ApplyStoreResult
      <3> HIDE DEF confirmed
      <3>4. OthersAlone(d)
        BY <1>2, <1>8, <2>1, <3>1 DEF OthersAlone, StaysSame
      <3>5. CheckpointCovers(d)'
        <4>1. \A x \in tasks' : x.doc = d => Incoming(x)'
          BY <1>3, <1>8, <2>1, <2>3 DEF Incoming
        <4>2. Checkpoint(d)'.revision = Revision(d)'
          BY <1>5, CheckpointFields
        <4>3. QED
          BY <1>5, <3>1, <3>2, <3>3, <4>1, <4>2 DEF CheckpointCovers, Agrees, MayBeHalfSaved
      <3>6. QED
        BY <1>2, <3>4, <3>5, OthersCovered
    <2>4. QED
      BY <1>8, <2>2, <2>3 DEF ApplyConfirmation
  <1>9. QED
    BY <1>6, <1>7, <1>8 DEF ApplyStoreResult

LEMMA CoverInit == Init => CoverInv
  <1> SUFFICES ASSUME Init, NEW d \in open
               PROVE  CheckpointCovers(d)
    BY DEF CoverInv
  <1>1. d \in Docs /\ DocumentsInv
    BY DocumentsInit DEF Init
  <1>2. \A t \in tasks : t.doc = d => t = PrepareTask(d)
    <2>1. \A e : PrepareTask(e).doc = e
      BY DEF PrepareTask
    <2>2. QED
      BY <2>1 DEF Init
  <1>3. PrepareTask(d).kind = "Prepare" /\ PrepareTask(d).head = Checkpoint(d) /\ PrepareTask(d).doc = d
    BY DEF PrepareTask
  <1>4. CASE d \in Recovered
    <2>1. recovery[d] = [Unprepared EXCEPT !.preparation = "Ready", !.current = TRUE, !.head = Checkpoint(d)]
      BY <1>1, <1>4 DEF Init
    <2>2. recovery[d].head = Checkpoint(d) /\ recovery[d].preparation = "Ready"
      BY <2>1 DEF Unprepared
    <2>3. QED
      BY <1>2, <1>3, <2>2, CheckpointFields DEF CheckpointCovers, Incoming, Agrees
  <1>5. CASE d \notin Recovered
    <2>1. recovery[d] = Unprepared
      BY <1>1, <1>5 DEF Init
    <2>2. ~ recovery[d].current /\ recovery[d].preparation = "Pending"
      BY <2>1 DEF Unprepared
    <2>3. QED
      BY <1>2, <1>3, <2>2 DEF CheckpointCovers, Incoming
  <1>6. QED
    BY <1>4, <1>5

LEMMA CoverNext == DocumentsInv /\ CoverInv /\ [Next]_vars => CoverInv'
  <1> SUFFICES ASSUME DocumentsInv, CoverInv, [Next]_vars
               PROVE  CoverInv'
    OBVIOUS
  <1>1. ASSUME NEW d \in Docs, Edit(d) \/ Undo(d) \/ Redo(d)
        PROVE  CoverInv'
    BY <1>1, EditCovers
  <1>2. ASSUME NEW d \in Docs, Retry(d)
        PROVE  CoverInv'
    BY <1>2, RetryCovers
  <1>3. CASE UserStep
    BY <1>1, <1>2, <1>3, UserCovers DEF UserStep
  <1>4. ASSUME NEW t \in tasks, WriteFile(t) \/ ApplySave(t)
        PROVE  CoverInv'
    BY <1>4, SaveTaskCovers
  <1>5. ASSUME NEW t \in tasks, StoreWork(t)
        PROVE  CoverInv'
    BY <1>5, StoreWorkCovers
  <1>6. ASSUME NEW t \in tasks, ApplyStoreResult(t)
        PROVE  CoverInv'
    BY <1>6, StoreResultCovers
  <1>7. CASE UNCHANGED vars
    BY <1>7, CoverUntouched DEF vars, documents
  <1>8. QED
    BY <1>3, <1>4, <1>5, <1>6, <1>7 DEF Next, SaveStep, StoreStep

LEMMA CoveredEdits ==
    ASSUME CoverInv
    PROVE  CheckpointCoversEdits
  BY DEF CoverInv, CheckpointCovers, CheckpointCoversEdits, Agrees

\* While a session holds its checkpoint's authority, the checkpoint has the
\* revision on the screen: what a crash brings back is what the user saw
\* (commit_recovery_guarded_annotation_change, apply_recovery_preparation_result).
THEOREM CheckpointsCover == Spec => []CheckpointCoversEdits
  <1>1. Spec => []DocumentsInv
    BY DocumentsInit, DocumentsNext, PTL DEF Spec
  <1>2. Spec => []CoverInv
    BY <1>1, CoverInit, CoverNext, PTL DEF Spec
  <1>3. CoverInv => CheckpointCoversEdits
    BY CoveredEdits
  <1>4. QED
    BY <1>2, <1>3, PTL

-----------------------------------------------------------------------------
(* Nothing comes back.  Unless the store failed, a checkpoint no session   *)
(* has is one that a task will see to, and what a session leaves when it   *)
(* has no authority is saved.                                              *)

Keeper(t) == t.kind \in {"Prepare", "Cleanup"}
SeesTo(t, left) ==
    /\ t.head = left
    /\ t.kind = "Cleanup" \/ (t.kind = "Prepare" /\ t.result \notin {"Waiting", "Failed"})

HarmlessHead(r) == r.head = NoHead \/ (r.head.revision = r.head.saved /\ ~ r.head.saveAs)

OneKeeper(d) ==
    /\ \A t, u \in tasks : t.doc = d /\ u.doc = d /\ Keeper(t) /\ Keeper(u) => t = u
    /\ \A t \in tasks : t.doc = d /\ d \in open /\ t.kind = "Cleanup" => recovery[d].preparation = "Pending"

Leftovers(d) ==
    /\ OneKeeper(d)
    /\ d \notin abandoned =>
          /\ (d \in open /\ recovery[d].current) \/ HarmlessHead(recovery[d])
          /\ \A left \in recovery[d].loose : \E t \in tasks : t.doc = d /\ SeesTo(t, left)

LeftoversInv == \A d \in Docs : Leftovers(d)

LEMMA NothingIsLeft ==
    ASSUME LeftoversInv
    PROVE  NothingComesBack
  BY DEF LeftoversInv, Leftovers, HarmlessHead, NothingComesBack

LEMMA OthersLeave ==
    ASSUME LeftoversInv, NEW d \in Docs, OthersAlone(d), abandoned \subseteq abandoned', Leftovers(d)'
    PROVE  LeftoversInv'
  <1>1. ASSUME NEW e \in Docs, e # d
        PROVE  Leftovers(e)'
    <2>1. StaysSame(e) /\ Leftovers(e)
      BY <1>1 DEF OthersAlone, LeftoversInv
    <2>2. \A t : t.doc = e => (t \in tasks <=> t \in tasks')
      BY <1>1 DEF OthersAlone
    <2>3. OneKeeper(e)'
      BY <2>1, <2>2 DEF Leftovers, OneKeeper, StaysSame
    <2>4. QED
      BY <2>1, <2>2, <2>3 DEF Leftovers, StaysSame
  <1>2. QED
    BY <1>1 DEF LeftoversInv

\* The tasks that have no checkpoint in hand come and go.
LEMMA LeftoversUntouched ==
    ASSUME LeftoversInv, UNCHANGED <<open, recovery>>, abandoned \subseteq abandoned',
           \A t \in tasks \cup tasks' : Keeper(t) => t \in tasks /\ t \in tasks'
    PROVE  LeftoversInv'
  <1>1. ASSUME NEW d \in Docs
        PROVE  Leftovers(d)'
    <2>1. Leftovers(d)
      BY DEF LeftoversInv
    <2>2. OneKeeper(d)'
      BY <2>1 DEF Leftovers, OneKeeper, Keeper
    <2>3. QED
      BY <2>1, <2>2 DEF Leftovers, SeesTo, Keeper
  <1>2. QED
    BY <1>1 DEF LeftoversInv

\* A document that can be edited, saved or confirmed has no such task.
LEMMA NoKeeper ==
    ASSUME DocumentsInv, LeftoversInv, NEW d \in open, recovery[d].preparation # "Pending",
           NEW t \in tasks, t.doc = d
    PROVE  ~ Keeper(t)
  BY DEF DocumentsInv, SessionTypes, DocumentInv, TasksFit, Fits, LeftoversInv, Leftovers, OneKeeper, Keeper

\* The session's checkpoint changes; nothing is published beside it.
LEMMA HeadChanges ==
    ASSUME DocumentsInv, LeftoversInv, NEW d \in Docs, NEW r, r.loose = recovery[d].loose,
           recovery' = [recovery EXCEPT ![d] = r], OthersAlone(d), abandoned \subseteq abandoned',
           \A t \in tasks \cup tasks' : Keeper(t) => t \in tasks /\ t \in tasks',
           open' \subseteq open,
           d \in open' => \A t \in tasks : t.doc = d => t.kind # "Cleanup",
           d \in abandoned' \/ (d \in open' /\ r.current) \/ HarmlessHead(r)
    PROVE  LeftoversInv'
  <1>1. Leftovers(d) /\ recovery'[d] = r
    BY DEF LeftoversInv, DocumentsInv, SessionTypes
  <1>2. OneKeeper(d)'
    BY <1>1 DEF Leftovers, OneKeeper, Keeper
  <1>3. d \notin abandoned' => \A left \in r.loose : \E t \in tasks' : t.doc = d /\ SeesTo(t, left)
    BY <1>1 DEF Leftovers, SeesTo, Keeper
  <1>4. Leftovers(d)'
    BY <1>1, <1>2, <1>3 DEF Leftovers
  <1>5. QED
    BY <1>4, OthersLeave

LEMMA CommitLeaves ==
    ASSUME DocumentsInv, LeftoversInv, NEW d \in Docs, NEW changed, NEW outdates,
           Commit(d, changed, outdates)
    PROVE  LeftoversInv'
  <1> DEFINE r == recovery[d]
             checkpoint == [Checkpoint(d) EXCEPT !.revision = changed.revision]
             published == [r EXCEPT !.head = checkpoint]
             conflict == [r EXCEPT !.preparation = "Failed", !.head = NoHead]
             unconfirmed == [published EXCEPT !.preparation = "Ambiguous"]
             unloaded == [published EXCEPT !.current = FALSE]
  <1>1. d \in open /\ r.preparation = "Ready"
    BY DEF Commit, Editable
  <1>2. SessionTypes /\ r \in Recoveries /\ Leftovers(d)
    BY DEF DocumentsInv, SessionTypes, LeftoversInv
  <1>3. PICK new \in ReplaceOutcomes(d, checkpoint) :
           /\ recovery' = [recovery EXCEPT ![d] = new.recovery]
           /\ timeline' = IF Keeps(new.outcome) THEN [timeline EXCEPT ![d] = changed] ELSE timeline
           /\ abandoned' = IF new.outcome = "Unloaded" THEN abandoned \cup {d} ELSE abandoned
    BY DEF Commit
  <1>4. UNCHANGED <<open, home, untitled, save, file, tasks, confirming, discarded>>
    BY DEF Commit
  <1>5. OthersAlone(d)
    BY <1>2, <1>3, <1>4 DEF OthersAlone, StaysSame, SessionTypes
  <1>6. \A t \in tasks : t.doc = d => t.kind # "Cleanup"
    BY <1>1, NoKeeper DEF Keeper
  <1>7. /\ new.recovery.loose = r.loose
        /\ d \in abandoned' \/ new.recovery.current \/ HarmlessHead(new.recovery)
    <2>1. /\ published.loose = r.loose /\ unconfirmed.loose = r.loose /\ unloaded.loose = r.loose
          /\ conflict.loose = r.loose /\ conflict.head = NoHead
          /\ published.current = r.current /\ unconfirmed.current = r.current
      BY <1>2 DEF Recoveries
    <2>2. \/ new = [outcome |-> "Conflict", recovery |-> conflict]
          \/ r.current /\ new = [outcome |-> "Durable", recovery |-> published]
          \/ r.current /\ new = [outcome |-> "Unconfirmed", recovery |-> unconfirmed]
          \/ r.current /\ new = [outcome |-> "Unwritten", recovery |-> r]
          \/ r.current /\ new = [outcome |-> "Unloaded", recovery |-> unloaded]
      BY DEF ReplaceOutcomes, When
    <2> HIDE DEF r, checkpoint, published, conflict, unconfirmed, unloaded
    <2>3. QED
      BY <1>3, <2>1, <2>2 DEF HarmlessHead
  <1> HIDE DEF checkpoint
  <1>8. abandoned \subseteq abandoned'
    BY <1>3
  <1>9. QED
    BY <1>1, <1>3, <1>4, <1>5, <1>6, <1>7, <1>8, HeadChanges DEF Keeper

\* What is left of a checkpoint that was cleared, or could not be.
LEMMA ClearLeaves ==
    ASSUME NEW d, NEW r \in Recoveries, NEW cleared \in ClearOutcomes(d, r), r.current \/ HarmlessHead(r)
    PROVE  cleared.loose = r.loose /\ ((r.current /\ cleared.current) \/ HarmlessHead(cleared))
  <1> DEFINE gone == [r EXCEPT !.head = NoHead, !.current = FALSE]
  <1>1. gone.loose = r.loose /\ gone.head = NoHead
    BY DEF Recoveries
  <1>2. cleared = gone \/ cleared = r
    BY DEF ClearOutcomes, When
  <1> HIDE DEF gone
  <1>3. QED
    BY <1>1, <1>2 DEF HarmlessHead

LEMMA CloseLeaves ==
    ASSUME DocumentsInv, LeftoversInv, NEW d \in open, NEW shown, NEW warning,
           Close(d, shown, recovery[d]) \/ AnswerClose(d, shown, warning),
           UNCHANGED <<home, timeline, untitled, save, file, tasks>>, discarded \subseteq discarded'
    PROVE  LeftoversInv'
  <1> DEFINE r == recovery[d]
  <1>1. SessionTypes /\ d \in Docs /\ r \in Recoveries /\ Leftovers(d)
    BY DEF DocumentsInv, SessionTypes, LeftoversInv
  <1>2. ASSUME NEW cleared \in ClearOutcomes(d, r), open' = open \ {d}, confirming' = confirming \ {d},
               recovery' = [recovery EXCEPT ![d] = cleared],
               abandoned' = IF r.current /\ cleared.current THEN abandoned \cup {d} ELSE abandoned
        PROVE  LeftoversInv'
    <2>1. OthersAlone(d)
      BY <1>1, <1>2 DEF OthersAlone, StaysSame, SessionTypes
    <2>2. d \notin abandoned => r.current \/ HarmlessHead(r)
      BY <1>1 DEF Leftovers
    <2>3. cleared.loose = r.loose
      <3> DEFINE gone == [r EXCEPT !.head = NoHead, !.current = FALSE]
      <3>1. gone.loose = r.loose
        BY <1>1 DEF Recoveries
      <3>2. cleared = gone \/ cleared = r
        BY DEF ClearOutcomes, When
      <3> HIDE DEF gone
      <3>3. QED
        BY <3>1, <3>2
    <2>4. d \in abandoned' \/ HarmlessHead(cleared)
      BY <1>1, <1>2, <2>2, ClearLeaves
    <2>5. QED
      BY <1>1, <1>2, <2>1, <2>3, <2>4, HeadChanges
  <1>3. CASE UNCHANGED <<open, recovery, confirming, abandoned>>
    BY <1>3, LeftoversUntouched
  <1>4. recovery = [recovery EXCEPT ![d] = recovery[d]]
    BY <1>1 DEF SessionTypes
  <1>5. CASE Close(d, shown, recovery[d])
    BY <1>2, <1>3, <1>4, <1>5 DEF Close
  <1>6. QED
    BY <1>3, <1>5 DEF AnswerClose, Stay

LEMMA UserLeaves ==
    ASSUME DocumentsInv, LeftoversInv, UserStep
    PROVE  LeftoversInv'
  <1> DEFINE Quiet == /\ UNCHANGED <<open, recovery, abandoned>>
                      /\ tasks \subseteq tasks' /\ \A t \in tasks' : t \in tasks \/ ~ Keeper(t)
  <1>1. Quiet => LeftoversInv'
    BY LeftoversUntouched
  <1>2. ASSUME NEW d \in Docs, Edit(d) \/ Undo(d) \/ Redo(d)
        PROVE  LeftoversInv'
    BY <1>2, CommitLeaves DEF Edit, Undo, Redo
  <1>3. ASSUME NEW d \in Docs, RequestClose(d)
        PROVE  LeftoversInv'
    BY <1>3, CloseLeaves DEF RequestClose
  <1>4. ASSUME NEW w \in Windows, Discard(w)
        PROVE  LeftoversInv'
    <2>1. Pending(w) \in open
      BY <1>4 DEF Discard, Shown
    <2>2. QED
      BY <1>4, <2>1, CloseLeaves DEF Discard
  <1>5. ASSUME NEW w \in Windows, ContinueClose(w)
        PROVE  LeftoversInv'
    <2>1. Pending(w) \in open
      BY <1>5 DEF ContinueClose, Shown
    <2>2. QED
      BY <1>5, <2>1, CloseLeaves DEF ContinueClose
  <1>6. ASSUME NEW d, NEW target, Start(d, target) \/ Refused(d) \/ BeginSave(d, target)
                                  \/ BeginCloseSave(d, target)
        PROVE  tasks \subseteq tasks' /\ \A t \in tasks' : t \in tasks \/ ~ Keeper(t)
    BY <1>6 DEF Start, Refused, BeginSave, BeginCloseSave, Keeper
  <1>7. ASSUME NEW d \in Docs, Save(d) \/ DismissFailure(d)
        PROVE  Quiet
    BY <1>6, <1>7 DEF Save, DismissFailure, history
  <1>8. ASSUME NEW w \in Windows, CancelClose(w) \/ SaveAndClose(w) \/ NoTarget(w)
        PROVE  Quiet
    BY <1>6, <1>8 DEF CancelClose, documents, SaveAndClose, NoTarget, history
  <1>9. ASSUME NEW w \in Windows, NEW target \in {"Opened", "New"}, PickTarget(w, target)
        PROVE  Quiet
    BY <1>6, <1>9 DEF PickTarget, history
  <1>10. ASSUME NEW w \in Windows, NEW d \in Docs, MoveTab(d, w)
         PROVE  Quiet
    BY <1>10 DEF MoveTab, history
  <1>11. ASSUME NEW d \in Docs, Retry(d)
         PROVE  LeftoversInv'
    <2> DEFINE r == recovery[d]
    <2>1. /\ SessionTypes /\ d \in open /\ r \in Recoveries /\ Leftovers(d)
          /\ UNCHANGED <<open, home, timeline, untitled, save, file, discarded, abandoned>>
      BY <1>11 DEF DocumentsInv, SessionTypes, LeftoversInv, Retry, history
    <2>2. CASE /\ r.preparation = "Failed"
               /\ recovery' = [recovery EXCEPT ![d].preparation = "Pending"]
               /\ tasks' = tasks \cup {PrepareTask(d)}
               /\ UNCHANGED confirming
      <3> DEFINE pending == [r EXCEPT !.preparation = "Pending"]
      <3>1. /\ pending.preparation = "Pending" /\ pending.head = r.head /\ pending.current = r.current
            /\ pending.loose = r.loose /\ recovery'[d] = pending
        BY <2>1, <2>2 DEF Recoveries, SessionTypes
      <3>2. PrepareTask(d).doc = d
        BY DEF PrepareTask
      <3>3. OthersAlone(d)
        BY <2>1, <2>2, <3>2 DEF OthersAlone, StaysSame, SessionTypes
      <3>4. \A t \in tasks : t.doc = d => ~ Keeper(t)
        BY <2>1, <2>2, NoKeeper
      <3> HIDE DEF pending
      <3>5. OneKeeper(d)'
        BY <2>2, <3>1, <3>4 DEF OneKeeper
      <3>6. Leftovers(d)'
        BY <2>1, <2>2, <3>1, <3>5 DEF Leftovers, HarmlessHead
      <3>7. QED
        BY <2>1, <3>3, <3>6, OthersLeave
    <2>3. CASE UNCHANGED recovery /\ \E kind \in {"Confirm", "Repair"} : tasks' = tasks \cup {Task(kind, d)}
      BY <1>1, <2>1, <2>3 DEF Task, Keeper
    <2>4. QED
      BY <1>11, <2>2, <2>3 DEF Retry
  <1> HIDE DEF Quiet
  <1>12. QED
    BY <1>1, <1>2, <1>3, <1>4, <1>5, <1>7, <1>8, <1>9, <1>10, <1>11 DEF UserStep

LEMMA RebaseHappens == \A d, revision : RebaseOutcomes(d, revision) # {}
  BY DEF RebaseOutcomes

LEMMA SaveTaskLeaves ==
    ASSUME DocumentsInv, LeftoversInv, NEW t \in tasks, WriteFile(t) \/ ApplySave(t)
    PROVE  LeftoversInv'
  <1> DEFINE d == t.doc
             r == recovery[d]
  <1>1. SessionTypes /\ t \in Tasks
    BY DEF DocumentsInv, SessionTypes
  <1>2. d \in Docs /\ r \in Recoveries /\ Leftovers(d)
    BY <1>1, TaskKind DEF DocumentsInv, SessionTypes, LeftoversInv
  <1>3. CASE WriteFile(t)
    <2>1. PICK result : Finish(t, result)
      BY <1>3 DEF WriteFile
    <2>2. t.kind = "Save" /\ [t EXCEPT !.result = result].kind = "Save"
      BY <1>1, <1>3, TaskKind DEF WriteFile, SaveTasks
    <2>3. \A x \in tasks \cup tasks' : Keeper(x) => x \in tasks /\ x \in tasks'
      BY <2>1, <2>2 DEF Finish, Keeper
    <2>4. UNCHANGED <<open, recovery, abandoned>>
      BY <1>3 DEF WriteFile, documents, history
    <2>5. QED
      BY <2>3, <2>4, LeftoversUntouched
  <1>4. ASSUME ApplySave(t)
        PROVE  \A x \in tasks \cup tasks' : Keeper(x) => x \in tasks /\ x \in tasks'
    BY <1>4 DEF ApplySave, Deliver, Keeper
  <1>5. CASE ApplySave(t) /\ UNCHANGED <<open, recovery, abandoned>>
    BY <1>4, <1>5, LeftoversUntouched
  <1>6. CASE ApplySave(t) /\ d \in open /\ Accepted(t) /\ (HalfSaved(t) \/ Completed(t))
    <2>1. /\ t.kind = "Save" /\ tasks' = tasks \ {t} /\ UNCHANGED <<home, discarded>>
          /\ d \in open /\ r.preparation = "Ready"
      BY <1>6 DEF ApplySave, Deliver, Accepted
    <2>2. /\ timeline' = [timeline EXCEPT ![d].saved = t.revision]
          /\ \E status : save' = [save EXCEPT ![d].status = status]
          /\ untitled' = untitled \ {d} \/ UNCHANGED untitled
          /\ file' = [file EXCEPT ![d] = t.revision]
      BY <1>6 DEF HalfSaved, Completed
    <2>3. PICK new \in RebaseOutcomes(d, t.revision) :
              \/ Close(d, [dialog[home[d]] EXCEPT !.pending = d], new)
              \/ recovery' = [recovery EXCEPT ![d] = new] /\ UNCHANGED <<open, confirming, abandoned>>
              \/ UNCHANGED <<open, recovery, confirming, abandoned>>
      BY <1>6, RebaseHappens DEF HalfSaved, Completed
    <2>4. t.revision \in Nat /\ new \in Recoveries
      <3>1. t.revision \in Nat
        BY <1>1, <2>1, TaskKind DEF SaveTasks
      <3>2. QED
        BY <1>1, <1>2, <3>1, RebaseType
    <2>5. /\ new.loose = r.loose
          /\ d \notin abandoned => new.current \/ HarmlessHead(new)
      <3> DEFINE head == [revision |-> t.revision, saved |-> t.revision, saveAs |-> FALSE]
                 failed == [r EXCEPT !.preparation = "RebaseFailed"]
                 rebased == [r EXCEPT !.head = head]
                 unconfirmed == [rebased EXCEPT !.preparation = "Ambiguous"]
                 unloaded == [rebased EXCEPT !.preparation = "RebaseFailed", !.current = FALSE]
      <3>1. new \in {failed, rebased, unconfirmed, unloaded}
        BY DEF RebaseOutcomes, When
      <3>2. /\ failed.loose = r.loose /\ failed.head = r.head /\ failed.current = r.current
            /\ rebased.loose = r.loose /\ unconfirmed.loose = r.loose /\ unloaded.loose = r.loose
            /\ rebased.head = head /\ unconfirmed.head = head /\ unloaded.head = head
            /\ head.revision = head.saved /\ ~ head.saveAs
        BY <1>2 DEF Recoveries
      <3>3. d \notin abandoned => r.current \/ HarmlessHead(r)
        BY <1>2 DEF Leftovers
      <3> HIDE DEF r, head, failed, rebased, unconfirmed, unloaded
      <3>4. QED
        BY <3>1, <3>2, <3>3 DEF HarmlessHead
    <2>6. \A x \in tasks : x.doc = d => x.kind # "Cleanup"
      BY <2>1, NoKeeper DEF Keeper
    <2>7. CASE recovery' = [recovery EXCEPT ![d] = new] /\ UNCHANGED <<open, confirming, abandoned>>
      <3>1. OthersAlone(d)
        BY <1>1, <2>1, <2>2, <2>7 DEF OthersAlone, StaysSame, SessionTypes
      <3>2. QED
        BY <1>2, <1>4, <1>6, <2>1, <2>5, <2>6, <2>7, <3>1, HeadChanges
    <2>8. ASSUME NEW cleared \in ClearOutcomes(d, new), open' = open \ {d}, confirming' = confirming \ {d},
                 recovery' = [recovery EXCEPT ![d] = cleared],
                 abandoned' = IF new.current /\ cleared.current THEN abandoned \cup {d} ELSE abandoned
          PROVE  LeftoversInv'
      <3>1. OthersAlone(d)
        BY <1>1, <2>1, <2>2, <2>8 DEF OthersAlone, StaysSame, SessionTypes
      <3>2. cleared.loose = r.loose
        <4> DEFINE gone == [new EXCEPT !.head = NoHead, !.current = FALSE]
        <4>1. gone.loose = r.loose
          BY <2>4, <2>5 DEF Recoveries
        <4>2. cleared = gone \/ cleared = new
          BY DEF ClearOutcomes, When
        <4> HIDE DEF gone
        <4>3. QED
          BY <2>5, <4>1, <4>2
      <3>3. d \in abandoned' \/ HarmlessHead(cleared)
        BY <2>4, <2>5, <2>8, ClearLeaves
      <3>4. abandoned \subseteq abandoned' /\ open' \subseteq open /\ d \notin open'
        BY <2>8
      <3>5. \A x \in tasks \cup tasks' : Keeper(x) => x \in tasks /\ x \in tasks'
        BY <1>4, <1>6
      <3>6. QED
        BY <1>2, <2>8, <3>1, <3>2, <3>3, <3>4, <3>5, HeadChanges
    <2>9. CASE UNCHANGED <<open, recovery, confirming, abandoned>>
      BY <1>5, <1>6, <2>9
    <2>10. QED
      BY <2>3, <2>7, <2>8, <2>9 DEF Close
  <1>7. QED
    BY <1>3, <1>5, <1>6 DEF ApplySave

LEMMA StoreWorkLeaves ==
    ASSUME DocumentsInv, LeftoversInv, NEW t \in tasks, StoreWork(t)
    PROVE  LeftoversInv'
  <1> DEFINE d == t.doc
             r == recovery[d]
  <1>1. SessionTypes /\ t \in Tasks
    BY DEF DocumentsInv, SessionTypes
  <1>2. d \in Docs /\ r \in Recoveries /\ Leftovers(d)
    BY <1>1, TaskKind DEF SessionTypes, LeftoversInv
  <1>3. UNCHANGED <<open, home, timeline, untitled, save, file, confirming, discarded>>
    BY DEF StoreWork
  <1>4. CASE t.kind = "Prepare" /\ Publish(t) /\ UNCHANGED abandoned
    <2>1. PICK result \in {"Failed", "Durable", "Unconfirmed"} :
             /\ Finish(t, result)
             /\ \/ result = "Failed" /\ UNCHANGED recovery
                \/ result # "Failed" /\ recovery' = [recovery EXCEPT ![d].loose = @ \cup {t.head}]
      BY <1>4 DEF Publish
    <2> DEFINE u == [t EXCEPT !.result = result]
               published == [r EXCEPT !.loose = @ \cup {t.head}]
    <2>2. u.doc = d /\ u.kind = "Prepare" /\ u.head = t.head /\ u.result = result
      BY <1>1, <1>4, TaskKind DEF PrepareTasks
    <2>3. tasks' = (tasks \ {t}) \cup {u}
      BY <2>1 DEF Finish
    <2>4. /\ published.loose = r.loose \cup {t.head} /\ published.head = r.head
          /\ published.current = r.current /\ published.preparation = r.preparation
      BY <1>2 DEF Recoveries
    <2>5. \/ result = "Failed" /\ recovery'[d] = r
          \/ result # "Failed" /\ recovery'[d] = published
      BY <1>1, <1>2, <2>1 DEF SessionTypes
    <2>6. \A e \in Docs \ {d} : recovery'[e] = recovery[e]
      BY <1>1, <2>1 DEF SessionTypes
    <2>7. t.result = "Waiting"
      BY DEF StoreWork
    <2> HIDE DEF u, published
    <2>8. OthersAlone(d)
      BY <1>3, <2>2, <2>3, <2>6 DEF OthersAlone, StaysSame
    <2>9. \A x \in tasks : x.doc = d /\ Keeper(x) => x = t
      BY <1>2, <1>4 DEF Leftovers, OneKeeper, Keeper
    <2>10. d \notin abandoned => r.loose = {}
      BY <1>2, <1>4, <2>7, <2>9 DEF Leftovers, SeesTo, Keeper
    <2>11. OneKeeper(d)'
      BY <1>4, <2>2, <2>3, <2>9 DEF OneKeeper, Keeper
    <2>12. Leftovers(d)'
      <3>1. d \notin abandoned' => \A left \in recovery'[d].loose : \E x \in tasks' : x.doc = d /\ SeesTo(x, left)
        BY <1>4, <2>1, <2>2, <2>3, <2>4, <2>5, <2>10 DEF SeesTo
      <3>2. d \notin abandoned' => (d \in open' /\ recovery'[d].current) \/ HarmlessHead(recovery'[d])
        BY <1>2, <1>3, <1>4, <2>4, <2>5 DEF Leftovers, HarmlessHead
      <3>3. QED
        BY <2>11, <3>1, <3>2 DEF Leftovers
    <2>13. QED
      BY <1>2, <1>4, <2>8, <2>12, OthersLeave
  <1>5. ASSUME t.kind \in {"Confirm", "Repair"}, NEW result, Finish(t, result)
        PROVE  /\ \A x \in tasks \cup tasks' : Keeper(x) => x \in tasks /\ x \in tasks'
               /\ \A x \in tasks \cup tasks' : x.doc # d => x \in tasks /\ x \in tasks'
    <2>1. [t EXCEPT !.result = result].kind = t.kind /\ [t EXCEPT !.result = result].doc = d
      BY <1>1, <1>5, TaskKind DEF CheckTasks
    <2>2. QED
      BY <1>5, <2>1 DEF Finish, Keeper
  <1>6. CASE t.kind \in {"Confirm", "Repair"} /\ UNCHANGED <<recovery, abandoned>> /\ \E result : Finish(t, result)
    BY <1>3, <1>5, <1>6, LeftoversUntouched
  <1>7. CASE t.kind = "Confirm" /\ ConfirmWork(t) /\ UNCHANGED abandoned
    BY <1>6, <1>7 DEF ConfirmWork
  <1>8. CASE t.kind = "Repair" /\ RepairWork(t) /\ UNCHANGED abandoned
    <2>1. ASSUME r.current, NEW new \in RebaseOutcomes(d, t.revision), NEW result, Finish(t, result),
                 ~ (new.head = r.head /\ new.preparation = "RebaseFailed" /\ new.current),
                 recovery' = [recovery EXCEPT ![d].head = new.head, ![d].current = FALSE]
          PROVE  LeftoversInv'
      <3> DEFINE repaired == [r EXCEPT !.head = new.head, !.current = FALSE]
                 head == [revision |-> t.revision, saved |-> t.revision, saveAs |-> FALSE]
                 failed == [r EXCEPT !.preparation = "RebaseFailed"]
                 rebased == [r EXCEPT !.head = head]
                 unconfirmed == [rebased EXCEPT !.preparation = "Ambiguous"]
                 unloaded == [rebased EXCEPT !.preparation = "RebaseFailed", !.current = FALSE]
      <3>1. repaired.loose = r.loose /\ repaired.head = new.head
        BY <1>2 DEF Recoveries
      <3>2. recovery' = [recovery EXCEPT ![d] = repaired]
        BY <1>1, <1>2, <2>1 DEF SessionTypes
      <3>3. new \in {failed, rebased, unconfirmed, unloaded}
        BY DEF RebaseOutcomes, When
      <3>4. /\ failed.head = r.head /\ failed.current = r.current /\ failed.preparation = "RebaseFailed"
            /\ rebased.head = head /\ unconfirmed.head = head /\ unloaded.head = head
            /\ head.revision = head.saved /\ ~ head.saveAs
        BY <1>2 DEF Recoveries
      <3> HIDE DEF repaired, head, failed, rebased, unconfirmed, unloaded
      <3>5. HarmlessHead(repaired)
        BY <2>1, <3>1, <3>3, <3>4 DEF HarmlessHead
      <3>6. OthersAlone(d)
        BY <1>1, <1>3, <1>5, <1>8, <2>1, <3>2 DEF OthersAlone, StaysSame, SessionTypes
      <3>7. d \in open => \A x \in tasks : x.doc = d => x.kind # "Cleanup"
        <4>1. d \in open => r.preparation # "Pending"
          BY <1>2, <1>8 DEF DocumentsInv, DocumentInv, TasksFit, Fits
        <4>2. QED
          BY <4>1, NoKeeper DEF Keeper
      <3>8. QED
        BY <1>2, <1>3, <1>5, <1>8, <2>1, <3>1, <3>2, <3>5, <3>6, <3>7, HeadChanges
    <2>2. QED
      BY <1>6, <1>8, <2>1 DEF RepairWork
  <1>9. CASE t.kind = "Cleanup" /\ CleanUp(t)
    <2> DEFINE left == [r EXCEPT !.loose = @ \ {t.head}]
    <2>1. /\ left.loose = r.loose \ {t.head} /\ left.head = r.head /\ left.current = r.current
          /\ left.preparation = r.preparation
      BY <1>2 DEF Recoveries
    <2>2. /\ recovery' = [recovery EXCEPT ![d] = left] /\ tasks' = tasks \ {t}
          /\ abandoned \subseteq abandoned'
      BY <1>9 DEF CleanUp, Deliver
    <2>3. recovery'[d] = left
      BY <1>1, <1>2, <2>2 DEF SessionTypes
    <2> HIDE DEF left
    <2>4. OthersAlone(d)
      BY <1>1, <1>3, <2>2 DEF OthersAlone, StaysSame, SessionTypes
    <2>5. OneKeeper(d)'
      BY <1>2, <1>3, <2>1, <2>2, <2>3 DEF Leftovers, OneKeeper
    <2>6. d \notin abandoned' => \A l \in left.loose : \E x \in tasks' : x.doc = d /\ SeesTo(x, l)
      BY <1>2, <2>1, <2>2 DEF Leftovers, SeesTo
    <2>7. d \notin abandoned' => (d \in open' /\ left.current) \/ HarmlessHead(left)
      BY <1>2, <1>3, <2>1, <2>2 DEF Leftovers, HarmlessHead
    <2>8. Leftovers(d)'
      BY <2>3, <2>5, <2>6, <2>7 DEF Leftovers
    <2>9. QED
      BY <1>2, <2>2, <2>4, <2>8, OthersLeave
  <1>10. QED
    BY <1>4, <1>7, <1>8, <1>9 DEF StoreWork

LEMMA StoreResultLeaves ==
    ASSUME DocumentsInv, LeftoversInv, NEW t \in tasks, ApplyStoreResult(t)
    PROVE  LeftoversInv'
  <1> DEFINE d == t.doc
             r == recovery[d]
  <1>1. SessionTypes /\ t \in Tasks
    BY DEF DocumentsInv, SessionTypes
  <1>2. /\ d \in Docs /\ r \in Recoveries /\ DocumentInv(d) /\ Leftovers(d) /\ t.result # "Waiting"
        /\ UNCHANGED <<open, home, timeline, untitled, save, file, discarded, abandoned>>
    BY <1>1, TaskKind DEF DocumentsInv, SessionTypes, LeftoversInv, ApplyStoreResult, history
  <1>3. ASSUME Keeper(t)
        PROVE  \A x \in tasks \ {t} : x.doc = d => ~ Keeper(x)
    BY <1>2, <1>3 DEF Leftovers, OneKeeper
  <1>4. CASE t.kind = "Prepare" /\ ApplyPrepare(t) /\ UNCHANGED confirming
    <2>1. d \notin abandoned => r.loose \subseteq (IF t.result = "Failed" THEN {} ELSE {t.head})
      BY <1>2, <1>3, <1>4 DEF Leftovers, SeesTo, Keeper
    <2>2. CASE Here(d, t.window)
      <3>1. /\ tasks' = tasks \ {t} /\ recovery' = [recovery EXCEPT ![d] = Prepared(r, t)] /\ d \in open
        BY <1>4, <2>2 DEF ApplyPrepare, Deliver, Here
      <3>2. recovery'[d] = Prepared(r, t)
        BY <1>1, <1>2, <3>1 DEF SessionTypes
      <3>3. OthersAlone(d)
        BY <1>1, <1>2, <1>4, <3>1 DEF OthersAlone, StaysSame, SessionTypes
      <3>4. CASE t.result = "Failed"
        <4>1. /\ Prepared(r, t).head = r.head /\ Prepared(r, t).current = r.current
              /\ Prepared(r, t).loose = r.loose
          BY <1>2, <3>4 DEF Prepared, Recoveries
        <4>2. Leftovers(d)'
          BY <1>2, <1>3, <1>4, <2>1, <3>1, <3>2, <3>4, <4>1 DEF Leftovers, OneKeeper, HarmlessHead, Keeper
        <4>3. QED
          BY <1>2, <3>3, <4>2, OthersLeave
      <3>5. CASE t.result # "Failed"
        <4>1. Prepared(r, t).current /\ Prepared(r, t).loose = r.loose \ {t.head}
          BY <1>2, <3>5 DEF Prepared, Recoveries
        <4>2. Leftovers(d)'
          BY <1>2, <1>3, <1>4, <2>1, <3>1, <3>2, <3>5, <4>1 DEF Leftovers, OneKeeper, Keeper
        <4>3. QED
          BY <1>2, <3>3, <4>2, OthersLeave
      <3>6. QED
        BY <3>4, <3>5
    <2>3. CASE ~ Here(d, t.window)
      <3>1. PICK new : /\ new.kind = "Cleanup" /\ new.doc = d /\ new.head = t.head
                       /\ tasks' = (tasks \ {t}) \cup (IF t.result = "Failed" THEN {} ELSE {new})
        <4> DEFINE made == CleanUpTask(t)
        <4>1. made.kind = "Cleanup" /\ made.doc = d /\ made.head = t.head
          BY DEF CleanUpTask
        <4>2. tasks' = (tasks \ {t}) \cup (IF t.result = "Failed" THEN {} ELSE {made})
          BY <1>4, <2>3 DEF ApplyPrepare
        <4> HIDE DEF made
        <4>3. QED
          BY <4>1, <4>2
      <3>2. UNCHANGED recovery
        BY <1>4, <2>3 DEF ApplyPrepare
      <3>3. OthersAlone(d)
        BY <1>2, <1>4, <3>1, <3>2 DEF OthersAlone, StaysSame
      <3>4. d \in open => r.preparation = "Pending"
        BY <1>2, <1>4 DEF DocumentInv, TasksFit, Fits
      <3>5. OneKeeper(d)'
        BY <1>2, <1>3, <1>4, <3>1, <3>2, <3>4 DEF OneKeeper, Keeper
      <3>6. d \notin abandoned' => \A left \in r.loose : \E x \in tasks' : x.doc = d /\ SeesTo(x, left)
        BY <1>2, <2>1, <3>1 DEF SeesTo
      <3>7. Leftovers(d)'
        BY <1>2, <3>2, <3>5, <3>6 DEF Leftovers, HarmlessHead
      <3>8. QED
        BY <1>2, <3>3, <3>7, OthersLeave
    <2>4. QED
      BY <2>2, <2>3
  <1>5. CASE t.kind \in {"Confirm", "Repair"} /\ ApplyConfirmation(t) /\ confirming' = confirming \ {d}
    <2> DEFINE confirmed == [r EXCEPT !.current = TRUE, !.preparation =
                                IF t.result = "Durable" THEN "Ready" ELSE "Ambiguous"]
    <2>1. tasks' = tasks \ {t}
      BY <1>5 DEF ApplyConfirmation, Deliver
    <2>2. \A x \in tasks \cup tasks' : Keeper(x) => x \in tasks /\ x \in tasks'
      BY <1>5, <2>1 DEF Keeper
    <2>3. CASE UNCHANGED recovery
      BY <1>2, <2>2, <2>3, LeftoversUntouched
    <2>4. CASE /\ d \in open
               /\ recovery' = [recovery EXCEPT ![d].current = TRUE, ![d].preparation =
                                  IF t.result = "Durable" THEN "Ready" ELSE "Ambiguous"]
      <3>1. recovery' = [recovery EXCEPT ![d] = confirmed]
        BY <1>1, <1>2, <2>4 DEF SessionTypes
      <3>2. confirmed.current /\ confirmed.loose = r.loose
        BY <1>2 DEF Recoveries
      <3> HIDE DEF confirmed
      <3>3. OthersAlone(d)
        BY <1>1, <1>2, <1>5, <2>1, <3>1 DEF OthersAlone, StaysSame, SessionTypes
      <3>4. r.preparation # "Pending"
        BY <1>2, <1>5, <2>4 DEF DocumentInv, TasksFit, Fits
      <3>5. \A x \in tasks : x.doc = d => x.kind # "Cleanup"
        BY <2>4, <3>4, NoKeeper DEF Keeper
      <3>6. QED
        BY <1>2, <2>2, <2>4, <3>1, <3>2, <3>3, <3>5, HeadChanges
    <2>5. QED
      BY <1>5, <2>3, <2>4 DEF ApplyConfirmation
  <1>6. QED
    BY <1>4, <1>5 DEF ApplyStoreResult

LEMMA LeftoversInit == Init => LeftoversInv
  <1> SUFFICES ASSUME Init, NEW d \in Docs
               PROVE  Leftovers(d)
    BY DEF LeftoversInv
  <1>1. \A t \in tasks : t.doc = d => t = PrepareTask(d)
    <2>1. \A e : PrepareTask(e).doc = e
      BY DEF PrepareTask
    <2>2. QED
      BY <2>1 DEF Init
  <1>2. PrepareTask(d).kind = "Prepare"
    BY DEF PrepareTask
  <1>3. OneKeeper(d)
    BY <1>1, <1>2 DEF OneKeeper
  <1>4. CASE d \in Recovered
    <2>1. recovery[d] = [Unprepared EXCEPT !.preparation = "Ready", !.current = TRUE, !.head = Checkpoint(d)]
      BY <1>4 DEF Init
    <2>2. recovery[d].current /\ recovery[d].loose = {} /\ d \in open
      BY <2>1 DEF Unprepared, Init
    <2>3. QED
      BY <1>3, <2>2 DEF Leftovers
  <1>5. CASE d \notin Recovered
    <2>1. recovery[d] = Unprepared
      BY <1>5 DEF Init
    <2>2. recovery[d].head = NoHead /\ recovery[d].loose = {}
      BY <2>1 DEF Unprepared
    <2>3. QED
      BY <1>3, <2>2 DEF Leftovers, HarmlessHead
  <1>6. QED
    BY <1>4, <1>5

LEMMA LeftoversNext == DocumentsInv /\ LeftoversInv /\ [Next]_vars => LeftoversInv'
  <1> SUFFICES ASSUME DocumentsInv, LeftoversInv, [Next]_vars
               PROVE  LeftoversInv'
    OBVIOUS
  <1>1. CASE UserStep
    BY <1>1, UserLeaves
  <1>2. ASSUME NEW t \in tasks, WriteFile(t) \/ ApplySave(t)
        PROVE  LeftoversInv'
    BY <1>2, SaveTaskLeaves
  <1>3. ASSUME NEW t \in tasks, StoreWork(t)
        PROVE  LeftoversInv'
    BY <1>3, StoreWorkLeaves
  <1>4. ASSUME NEW t \in tasks, ApplyStoreResult(t)
        PROVE  LeftoversInv'
    BY <1>4, StoreResultLeaves
  <1>5. CASE UNCHANGED vars
    BY <1>5, LeftoversUntouched DEF vars, documents, history
  <1>6. QED
    BY <1>1, <1>2, <1>3, <1>4, <1>5 DEF Next, SaveStep, StoreStep

\* Unless the store failed, a closed document leaves no checkpoint with unsaved
\* edits behind, whenever its preparation, repair or cleanup ends
\* (close_document, apply_recovery_preparation_result).
THEOREM ClosedStaysClosed == Spec => []NothingComesBack
  <1>1. Spec => []DocumentsInv
    BY DocumentsInit, DocumentsNext, PTL DEF Spec
  <1>2. Spec => []LeftoversInv
    BY <1>1, LeftoversInit, LeftoversNext, PTL DEF Spec
  <1>3. LeftoversInv => NothingComesBack
    BY NothingIsLeft
  <1>4. QED
    BY <1>2, <1>3, PTL

-----------------------------------------------------------------------------
(* The shape of the state.                                                 *)

\* The history of a document has no revision that is still to come.
Given(t) ==
    /\ t.revision < t.next /\ t.saved < t.next
    /\ \A i \in DOMAIN t.past : t.past[i] < t.next
    /\ \A i \in DOMAIN t.future : t.future[i] < t.next

Bounded(d) ==
    /\ Given(timeline[d]) /\ timeline[d].next <= MaxRevision[d] + 1
    /\ save[d].generation <= MaxSaves[d] /\ warned[d] <= save[d].generation
BoundsInv ==
    /\ warned \in [Docs -> Nat] /\ untitled \subseteq Docs
    /\ \A d \in Docs : Bounded(d)

\* A document that waits for its save has one.
SaveRuns(d) == d \in open /\ Saving(d) => \E t \in tasks : t.kind = "Save" /\ t.doc = d
SavesRun == \A d \in Docs : SaveRuns(d)

\* An open document has a checkpoint once its preparation went well.
Unheaded(r) == r.preparation \in {"Pending", "Failed"}
HeadFits(d) ==
    LET r == recovery[d] IN
    /\ r.current => r.head # NoHead
    /\ Unheaded(r) => r.head = NoHead
    /\ d \in open /\ ~ Unheaded(r) => r.head # NoHead
    /\ \A t \in tasks : t.doc = d /\ t.kind = "Repair" => ~ Unheaded(r)
HeadsInv == \A d \in Docs : HeadFits(d)

\* A dialog is about a tab of its window, and a document that has a warning to
\* be answered is not one that closes with its save.
Dialogs == [pending : Docs \cup {NoDoc}, warning : Nat, closeAfter : Docs \cup {NoDoc}]
Suits(x, w) ==
    /\ x.pending # NoDoc => Here(x.pending, w)
    /\ x.closeAfter \in {x.pending, NoDoc}
    /\ x.warning # 0 => x.pending # NoDoc
    /\ x.closeAfter # NoDoc => warned[x.pending] = 0

\* Nor does a prompt lead there that was shown before the warning came.
Prompts == {NoPrompt} \cup [doc : Docs, closes : BOOLEAN, outdated : BOOLEAN]
PromptFits(w) ==
    prompt[w] # NoPrompt /\ prompt[w].closes /\ ~ prompt[w].outdated => warned[prompt[w].doc] = 0
PromptsInv == prompt \in [Windows -> Prompts] /\ \A w \in Windows : PromptFits(w)

DialogsInv ==
    /\ warned \in [Docs -> Nat] /\ confirming \subseteq open
    /\ dialog \in [Windows -> Dialogs] /\ \A w \in Windows : Suits(dialog[w], w)
    /\ PromptsInv

ShapeInv == BoundsInv /\ SavesRun /\ HeadsInv /\ DialogsInv

LEMMA ShapeIsType ==
    ASSUME DocumentsInv, ShapeInv
    PROVE  DocTypeOK
  <1>1. SessionTypes
    BY DEF DocumentsInv
  <1>2. ASSUME NEW d \in Docs
        PROVE  /\ Revision(d) \in 0 .. MaxRevision[d] /\ Saved(d) \in 0 .. MaxRevision[d]
               /\ save[d].status \in {"Idle", "Saving", "Failed"} /\ save[d].generation \in 0 .. MaxSaves[d]
               /\ warned[d] \in 0 .. save[d].generation
    BY <1>1 DEF SessionTypes, ShapeInv, BoundsInv, Bounded, Given, Revision, Saved, Timelines
  <1>3. ASSUME NEW d \in Docs
        PROVE  /\ recovery[d].preparation \in Preparations
               /\ recovery[d].head \in Checkpoints \cup {NoHead}
               /\ recovery[d].current => recovery[d].head # NoHead
               /\ recovery[d].preparation \in {"Pending", "Failed"} => recovery[d].head = NoHead
               /\ recovery[d].loose \subseteq Checkpoints
    BY <1>1 DEF SessionTypes, Recoveries, ShapeInv, HeadsInv, HeadFits, Unheaded
  <1>4. ASSUME NEW d \in Docs
        PROVE  Saving(d) /\ d \in open <=> \E t \in tasks : t.kind = "Save" /\ t.doc = d /\ d \in open
    BY DEF DocumentsInv, DocumentInv, TasksFit, Fits, ShapeInv, SavesRun, SaveRuns
  <1>5. ASSUME NEW t \in tasks
        PROVE  t.kind \in TaskKinds /\ t.result \in Results
    BY <1>1 DEF SessionTypes, Tasks, SaveTasks, PrepareTasks, CheckTasks, CleanupTasks, TaskKinds
  <1>6. ASSUME NEW w \in Windows
        PROVE  /\ Pending(w) \in {d \in open : home[d] = w} \cup {NoDoc}
               /\ dialog[w].closeAfter \in {Pending(w), NoDoc}
               /\ dialog[w].warning # 0 => Pending(w) # NoDoc
    BY DEF ShapeInv, DialogsInv, Suits, Pending, Here
  <1>7. ASSUME NEW w \in Windows
        PROVE  prompt[w].doc \in Docs \cup {NoDoc}
    BY DEF ShapeInv, DialogsInv, PromptsInv, Prompts, NoPrompt
  <1>8. /\ home \in [Docs -> Windows]
        /\ open \subseteq Docs /\ untitled \subseteq Docs /\ confirming \subseteq open
    BY <1>1 DEF SessionTypes, ShapeInv, DialogsInv, BoundsInv
  <1>9. QED
    BY <1>2, <1>3, <1>4, <1>5, <1>6, <1>7, <1>8 DEF DocTypeOK, Results

\* Edits, undo and redo give no revision twice and lose none.
LEMMA TimelineBounds ==
    ASSUME NEW t \in Timelines, Given(t)
    PROVE  /\ Given(Edited(t)) /\ Edited(t).next = t.next + 1
           /\ t.past # <<>> => Given(Undone(t)) /\ Undone(t).next = t.next
           /\ t.future # <<>> => Given(Redone(t)) /\ Redone(t).next = t.next
  <1>1. /\ t.revision \in Nat /\ t.saved \in Nat /\ t.next \in Nat
        /\ t.past \in Seq(Nat) /\ t.future \in Seq(Nat)
    BY DEF Timelines
  <1>2. ASSUME NEW s \in Seq(Nat), s # <<>>, \A i \in DOMAIN s : s[i] < t.next
        PROVE  /\ s[Len(s)] < t.next
               /\ \A i \in DOMAIN SubSeq(s, 1, Len(s) - 1) : SubSeq(s, 1, Len(s) - 1)[i] < t.next
    BY <1>2
  <1>3. ASSUME NEW s \in Seq(Nat), NEW m \in Nat, \A i \in DOMAIN s : s[i] < m, t.revision < m
        PROVE  \A i \in DOMAIN Append(s, t.revision) : Append(s, t.revision)[i] < m
    BY <1>1, <1>3
  <1>4. Given(Edited(t)) /\ Edited(t).next = t.next + 1
    <2> DEFINE past == Append(t.past, t.revision)
    <2>1. \A i \in DOMAIN past : past[i] < t.next + 1
      <3>1. \A i \in DOMAIN t.past : t.past[i] < t.next + 1
        BY <1>1 DEF Given
      <3>2. t.next + 1 \in Nat /\ t.revision < t.next + 1
        BY <1>1 DEF Given
      <3>3. QED
        BY <1>1, <1>3, <3>1, <3>2
    <2>2. Edited(t) = [t EXCEPT !.revision = t.next, !.next = t.next + 1, !.past = past, !.future = <<>>]
      BY DEF Edited
    <2> HIDE DEF past
    <2>3. /\ Edited(t).revision = t.next /\ Edited(t).next = t.next + 1 /\ Edited(t).past = past
          /\ Edited(t).future = <<>> /\ Edited(t).saved = t.saved
      BY <2>2 DEF Timelines
    <2>4. QED
      BY <1>1, <2>1, <2>3 DEF Given
  <1>5. ASSUME t.past # <<>>
        PROVE  Given(Undone(t)) /\ Undone(t).next = t.next
    <2> DEFINE last == t.past[Len(t.past)]
               left == SubSeq(t.past, 1, Len(t.past) - 1)
               future == Append(t.future, t.revision)
    <2>1. /\ last < t.next /\ \A i \in DOMAIN left : left[i] < t.next
          /\ \A i \in DOMAIN future : future[i] < t.next
      BY <1>1, <1>2, <1>3, <1>5 DEF Given
    <2>2. Undone(t) = [t EXCEPT !.revision = last, !.past = left, !.future = future]
      BY DEF Undone
    <2> HIDE DEF last, left, future
    <2>3. /\ Undone(t).revision = last /\ Undone(t).next = t.next /\ Undone(t).past = left
          /\ Undone(t).future = future /\ Undone(t).saved = t.saved
      BY <2>2 DEF Timelines
    <2>4. QED
      BY <2>1, <2>3 DEF Given
  <1>6. ASSUME t.future # <<>>
        PROVE  Given(Redone(t)) /\ Redone(t).next = t.next
    <2> DEFINE last == t.future[Len(t.future)]
               left == SubSeq(t.future, 1, Len(t.future) - 1)
               past == Append(t.past, t.revision)
    <2>1. /\ last < t.next /\ \A i \in DOMAIN left : left[i] < t.next
          /\ \A i \in DOMAIN past : past[i] < t.next
      BY <1>1, <1>2, <1>3, <1>6 DEF Given
    <2>2. Redone(t) = [t EXCEPT !.revision = last, !.future = left, !.past = past]
      BY DEF Redone
    <2> HIDE DEF last, left, past
    <2>3. /\ Redone(t).revision = last /\ Redone(t).next = t.next /\ Redone(t).past = past
          /\ Redone(t).future = left /\ Redone(t).saved = t.saved
      BY <2>2 DEF Timelines
    <2>4. QED
      BY <2>1, <2>3 DEF Given
  <1>7. QED
    BY <1>4, <1>5, <1>6

LEMMA BoundsUntouched ==
    BoundsInv /\ UNCHANGED <<timeline, untitled, save, warned>> => BoundsInv'
  BY DEF BoundsInv, Bounded

LEMMA CommitBounds ==
    ASSUME DocumentsInv, BoundsInv, NEW d \in Docs, NEW changed, Given(changed),
           changed.next <= MaxRevision[d] + 1, NEW outdates, Commit(d, changed, outdates)
    PROVE  BoundsInv'
  <1>1. UNCHANGED <<save, warned, untitled>>
    BY DEF Commit
  <1>2. timeline' = [timeline EXCEPT ![d] = changed] \/ UNCHANGED timeline
    BY DEF Commit
  <1>3. timeline \in [Docs -> Timelines]
    BY DEF DocumentsInv, SessionTypes
  <1>4. CASE timeline' = [timeline EXCEPT ![d] = changed]
    BY <1>1, <1>3, <1>4 DEF BoundsInv, Bounded
  <1>5. QED
    BY <1>1, <1>2, <1>4, BoundsUntouched

LEMMA EditBounds ==
    ASSUME DocumentsInv, BoundsInv, NEW d \in Docs, Edit(d) \/ Undo(d) \/ Redo(d)
    PROVE  BoundsInv'
  <1>1. /\ timeline[d] \in Timelines /\ Given(timeline[d]) /\ timeline[d].next <= MaxRevision[d] + 1
        /\ timeline[d].next \in Nat /\ MaxRevision[d] \in Nat
    BY DEF DocumentsInv, SessionTypes, BoundsInv, Bounded, Timelines
  <1>2. CASE Edit(d)
    <2>1. timeline[d].next <= MaxRevision[d] /\ Commit(d, Edited(timeline[d]), FALSE)
      BY <1>2 DEF Edit
    <2>2. Edited(timeline[d]).next <= MaxRevision[d] + 1
      BY <1>1, <2>1, TimelineBounds
    <2>3. QED
      BY <1>1, <2>1, <2>2, TimelineBounds, CommitBounds
  <1>3. CASE Undo(d)
    BY <1>1, <1>3, TimelineBounds, CommitBounds DEF Undo
  <1>4. CASE Redo(d)
    BY <1>1, <1>4, TimelineBounds, CommitBounds DEF Redo
  <1>5. QED
    BY <1>2, <1>3, <1>4

\* A save that begins, or is refused, takes the next generation.
LEMMA SaveBounds ==
    ASSUME DocumentsInv, BoundsInv, NEW d \in Docs, save[d].generation < MaxSaves[d], NEW target,
           Start(d, target) \/ Refused(d) \/ BeginSave(d, target) \/ BeginCloseSave(d, target),
           UNCHANGED <<timeline, untitled, warned>>
    PROVE  BoundsInv'
  <1>1. save \in [Docs -> [status : {"Idle", "Saving", "Failed"}, generation : Nat]]
    BY DEF DocumentsInv, SessionTypes
  <1>2. \/ UNCHANGED save
        \/ \E s \in {"Saving", "Failed"} :
              save' = [save EXCEPT ![d] = [status |-> s, generation |-> @.generation + 1]]
    BY DEF Start, Refused, BeginSave, BeginCloseSave
  <1>3. ASSUME NEW s, save' = [save EXCEPT ![d] = [status |-> s, generation |-> @.generation + 1]]
        PROVE  BoundsInv'
    <2>1. /\ save'[d].generation = save[d].generation + 1
          /\ \A e \in Docs \ {d} : save'[e] = save[e]
      BY <1>1, <1>3
    <2>2. /\ save[d].generation \in Nat /\ MaxSaves[d] \in Nat /\ warned[d] \in Nat
      BY <1>1 DEF BoundsInv
    <2>3. QED
      BY <2>1, <2>2 DEF BoundsInv, Bounded
  <1>4. QED
    BY <1>2, <1>3, BoundsUntouched

LEMMA ApplySaveBounds ==
    ASSUME DocumentsInv, BoundsInv, NEW t \in tasks, ApplySave(t)
    PROVE  BoundsInv'
  <1> DEFINE d == t.doc
  <1>1. /\ t.kind = "Save" /\ t \in SaveTasks /\ d \in Docs /\ t.revision = Revision(d)
        /\ t.generation \in Nat
    BY TaskKind DEF ApplySave, DocumentsInv, SessionTypes, DocumentInv, SavesTheScreen, SaveTasks
  <1>2. /\ timeline \in [Docs -> Timelines]
        /\ save \in [Docs -> [status : {"Idle", "Saving", "Failed"}, generation : Nat]]
    BY DEF DocumentsInv, SessionTypes
  <1>3. CASE UNCHANGED <<timeline, untitled, save, warned>>
    BY <1>3, BoundsUntouched
  <1>4. CASE save' = [save EXCEPT ![d].status = "Failed"] /\ UNCHANGED <<timeline, untitled, warned>>
    BY <1>1, <1>2, <1>4 DEF BoundsInv, Bounded
  <1>5. CASE /\ save[d].generation = t.generation
             /\ \E status : save' = [save EXCEPT ![d].status = status]
             /\ timeline' = [timeline EXCEPT ![d].saved = t.revision]
             /\ \/ warned' = [warned EXCEPT ![d] = IF t.result = "Warned" THEN t.generation ELSE 0]
                \/ UNCHANGED warned
             /\ untitled' = untitled \ {d} \/ UNCHANGED untitled
    <2>1. /\ timeline'[d] = [timeline[d] EXCEPT !.saved = t.revision]
          /\ \A e \in Docs \ {d} : timeline'[e] = timeline[e]
      BY <1>1, <1>2, <1>5
    <2>2. save'[d].generation = t.generation /\ \A e \in Docs \ {d} : save'[e] = save[e]
      BY <1>1, <1>2, <1>5
    <2>3. /\ warned'[d] \in {0, t.generation, warned[d]} /\ warned' \in [Docs -> Nat]
          /\ \A e \in Docs \ {d} : warned'[e] = warned[e]
      <3>1. /\ d \in Docs /\ t.generation \in Nat /\ warned \in [Docs -> Nat]
        BY <1>1 DEF BoundsInv
      <3>2. CASE UNCHANGED warned
        BY <3>1, <3>2
      <3>3. CASE warned' = [warned EXCEPT ![d] = IF t.result = "Warned" THEN t.generation ELSE 0]
        BY <3>1, <3>3
      <3>4. QED
        BY <1>5, <3>2, <3>3
    <2>4. /\ timeline'[d] = [timeline[d] EXCEPT !.saved = t.revision]
          /\ save'[d].generation = t.generation /\ warned'[d] \in {0, t.generation, warned[d]}
          /\ warned' \in [Docs -> Nat] /\ untitled' \subseteq Docs
          /\ \A e \in Docs \ {d} : timeline'[e] = timeline[e] /\ save'[e] = save[e] /\ warned'[e] = warned[e]
      <3>1. untitled' \subseteq Docs
        BY <1>5 DEF BoundsInv
      <3>2. QED
        BY <2>1, <2>2, <2>3, <3>1
    <2>5. /\ timeline'[d].saved = timeline[d].revision /\ timeline'[d].revision = timeline[d].revision
          /\ timeline'[d].next = timeline[d].next /\ timeline'[d].past = timeline[d].past
          /\ timeline'[d].future = timeline[d].future
      BY <1>1, <1>2, <2>4 DEF Timelines, Revision
    <2>6. Given(timeline'[d]) /\ timeline'[d].next <= MaxRevision[d] + 1
      BY <1>1, <2>5 DEF BoundsInv, Bounded, Given
    <2>7. t.generation <= MaxSaves[d] /\ warned[d] <= t.generation
      BY <1>1, <1>5 DEF BoundsInv, Bounded
    <2>8. Bounded(d)'
      BY <1>1, <2>4, <2>6, <2>7 DEF Bounded
    <2>9. QED
      BY <2>4, <2>8 DEF BoundsInv, Bounded
  <1>6. QED
    BY <1>3, <1>4, <1>5 DEF ApplySave, HalfSaved, Completed

LEMMA UserBounds ==
    ASSUME DocumentsInv, BoundsInv, UserStep
    PROVE  BoundsInv'
  <1>1. open \subseteq Docs /\ SessionTypes
    BY DEF DocumentsInv, SessionTypes
  <1>2. ASSUME NEW d \in Docs, Edit(d) \/ Undo(d) \/ Redo(d)
        PROVE  BoundsInv'
    BY <1>2, EditBounds
  <1>3. ASSUME NEW d \in Docs, RequestClose(d) \/ Retry(d)
        PROVE  BoundsInv'
    BY <1>3, BoundsUntouched DEF RequestClose, Retry
  <1>4. ASSUME NEW d \in Docs, Save(d)
        PROVE  BoundsInv'
    BY <1>4, SaveBounds, BoundsUntouched DEF Save
  <1>5. ASSUME NEW d \in Docs, DismissFailure(d)
        PROVE  BoundsInv'
    BY <1>1, <1>5 DEF DismissFailure, BoundsInv, Bounded, SessionTypes
  <1>6. ASSUME NEW w \in Windows, CancelClose(w) \/ Discard(w) \/ \E d \in Docs : MoveTab(d, w)
        PROVE  BoundsInv'
    BY <1>6, BoundsUntouched DEF CancelClose, documents, Discard, MoveTab
  <1>7. ASSUME NEW w \in Windows, ContinueClose(w)
        PROVE  BoundsInv'
    <2> DEFINE d == Pending(w)
    <2>1. d \in Docs /\ UNCHANGED <<timeline, untitled, save>>
      BY <1>1, <1>7 DEF ContinueClose, Shown
    <2>2. \E left \in {0, warned[d]} : warned' = [warned EXCEPT ![d] = left]
      BY <1>7 DEF ContinueClose
    <2>3. save[d].generation \in Nat /\ warned[d] \in Nat
      BY <1>1, <2>1 DEF SessionTypes, BoundsInv
    <2> HIDE DEF d
    <2>4. QED
      BY <2>1, <2>2, <2>3 DEF BoundsInv, Bounded
  <1>8. ASSUME NEW w \in Windows, SaveAndClose(w)
        PROVE  BoundsInv'
    <2>1. Pending(w) \in Docs
      BY <1>1, <1>8 DEF SaveAndClose, Shown
    <2>2. QED
      BY <1>8, <2>1, SaveBounds, BoundsUntouched DEF SaveAndClose
  <1>9. ASSUME NEW w \in Windows, NoTarget(w)
        PROVE  BoundsInv'
    <2>1. CASE UNCHANGED save
      BY <1>9, <2>1, BoundsUntouched DEF NoTarget
    <2>2. CASE /\ save[prompt[w].doc].generation < MaxSaves[prompt[w].doc]
               /\ prompt[w].doc \in open /\ Refused(prompt[w].doc)
      BY <1>1, <1>9, <2>2, SaveBounds DEF NoTarget
    <2>3. QED
      BY <1>9, <2>1, <2>2 DEF NoTarget, Here
  <1>10. ASSUME NEW w \in Windows, NEW target \in {"Opened", "New"}, PickTarget(w, target)
         PROVE  BoundsInv'
    <2>1. CASE UNCHANGED save
      BY <1>10, <2>1, BoundsUntouched DEF PickTarget
    <2>2. CASE /\ prompt[w].doc \in open
               /\ BeginCloseSave(prompt[w].doc, target) \/ BeginSave(prompt[w].doc, target)
      BY <1>1, <1>10, <2>2, SaveBounds DEF PickTarget
    <2>3. QED
      BY <1>10, <2>1, <2>2 DEF PickTarget, PromptHolds, Here
  <1>11. QED
    BY <1>2, <1>3, <1>4, <1>5, <1>6, <1>7, <1>8, <1>9, <1>10 DEF UserStep

LEMMA BoundsNext == DocumentsInv /\ BoundsInv /\ [Next]_vars => BoundsInv'
  <1> SUFFICES ASSUME DocumentsInv, BoundsInv, [Next]_vars PROVE BoundsInv'
    OBVIOUS
  <1>1. CASE UNCHANGED vars
    BY <1>1, BoundsUntouched DEF vars, documents
  <1>2. ASSUME NEW t \in tasks, WriteFile(t) \/ StoreWork(t) \/ ApplyStoreResult(t)
        PROVE  BoundsInv'
    BY <1>2, BoundsUntouched DEF WriteFile, StoreWork, ApplyStoreResult, documents
  <1>3. QED
    BY <1>1, <1>2, UserBounds, ApplySaveBounds DEF Next, SaveStep, StoreStep

LEMMA BoundsInit == Init => BoundsInv
  <1> SUFFICES ASSUME Init PROVE BoundsInv
    OBVIOUS
  <1>1. ASSUME NEW d \in Docs
        PROVE  Given(timeline[d]) /\ timeline[d].next <= MaxRevision[d] + 1
    <2>1. CASE d \in Recovered
      <3>1. timeline[d] = [revision |-> 1, saved |-> 0, past |-> <<0>>, future |-> <<>>, next |-> 2]
        BY <2>1 DEF Init
      <3>2. QED
        BY <2>1, <3>1 DEF Given
    <2>2. CASE d \notin Recovered
      <3>1. timeline[d] = [revision |-> 0, saved |-> 0, past |-> <<>>, future |-> <<>>, next |-> 1]
        BY <2>2 DEF Init
      <3>2. QED
        BY <3>1 DEF Given
    <2>3. QED
      BY <2>1, <2>2
  <1>2. /\ save = [d \in Docs |-> [status |-> "Idle", generation |-> 0]]
        /\ warned = [d \in Docs |-> 0] /\ untitled = Generated
    BY DEF Init
  <1>3. QED
    BY <1>1, <1>2 DEF BoundsInv, Bounded

-----------------------------------------------------------------------------
\* No task of a save is lost before its result is applied.
LEMMA SavesKept ==
    ASSUME SavesRun, open' \subseteq open,
           \A d \in Docs : d \in open' /\ save'[d].status = "Saving" =>
              \/ /\ save[d].status = "Saving"
                 /\ \A t \in tasks : t.kind = "Save" /\ t.doc = d =>
                       \E u \in tasks' : u.kind = "Save" /\ u.doc = d
              \/ \E u \in tasks' : u.kind = "Save" /\ u.doc = d
    PROVE  SavesRun'
  BY DEF SavesRun, SaveRuns, Saving

LEMMA SavesUntouched ==
    SavesRun /\ open' \subseteq open /\ UNCHANGED <<save, tasks>> => SavesRun'
  BY SavesKept

LEMMA CloseShrinks ==
    ASSUME NEW d, NEW shown, NEW r, NEW warning,
           Close(d, shown, r) \/ Stay(d, shown) \/ AnswerClose(d, shown, warning)
    PROVE  open' \subseteq open /\ confirming' \subseteq confirming
  BY DEF Close, AnswerClose, Stay

LEMMA BeginRuns ==
    ASSUME DocumentsInv, SavesRun, NEW d \in Docs, NEW target, UNCHANGED open,
           Start(d, target) \/ Refused(d) \/ BeginSave(d, target) \/ BeginCloseSave(d, target)
    PROVE  SavesRun'
  <1>1. save \in [Docs -> [status : {"Idle", "Saving", "Failed"}, generation : Nat]]
    BY DEF DocumentsInv, SessionTypes
  <1>2. CASE Start(d, target)
    <2> DEFINE new == [kind |-> "Save", doc |-> d, target |-> target, revision |-> Revision(d),
                       generation |-> save[d].generation + 1, result |-> "Waiting"]
    <2>1. new.kind = "Save" /\ new.doc = d
      OBVIOUS
    <2>2. tasks' = tasks \cup {new}
      BY <1>2 DEF Start
    <2>3. \A e \in Docs \ {d} : save'[e] = save[e]
      BY <1>1, <1>2 DEF Start
    <2> HIDE DEF new
    <2>4. QED
      BY <2>1, <2>2, <2>3, SavesKept
  <1>3. CASE Refused(d)
    <2>1. UNCHANGED tasks /\ \A e \in Docs : save'[e] = save[e] \/ save'[e].status = "Failed"
      BY <1>1, <1>3 DEF Refused
    <2>2. QED
      BY <2>1, SavesKept
  <1>4. CASE UNCHANGED <<save, tasks>>
    BY <1>4, SavesUntouched
  <1>5. QED
    BY <1>2, <1>3, <1>4 DEF BeginSave, BeginCloseSave

\* A task that works stays a task of its kind for its document.
LEMMA FinishedTask ==
    ASSUME DocumentsInv, NEW t \in tasks, NEW result \in Results, Finish(t, result)
    PROVE  \E u : /\ u.kind = t.kind /\ u.doc = t.doc
                  /\ tasks' = (tasks \ {t}) \cup {u}
  <1> DEFINE u == [t EXCEPT !.result = result]
  <1>1. u.kind = t.kind /\ u.doc = t.doc
    BY TaskFinished DEF DocumentsInv, SessionTypes
  <1>2. tasks' = (tasks \ {t}) \cup {u}
    BY DEF Finish
  <1> HIDE DEF u
  <1>3. QED
    BY <1>1, <1>2

LEMMA FinishRuns ==
    ASSUME DocumentsInv, SavesRun, NEW t \in tasks, NEW result \in Results, Finish(t, result),
           UNCHANGED <<open, save>>
    PROVE  SavesRun'
  <1>1. QED
    BY FinishedTask, SavesKept

LEMMA OtherTaskRuns ==
    ASSUME SavesRun, NEW t \in tasks, t.kind # "Save", tasks \ {t} \subseteq tasks',
           open' \subseteq open, UNCHANGED save
    PROVE  SavesRun'
  BY SavesKept

LEMMA ApplySaveRuns ==
    ASSUME DocumentsInv, SavesRun, NEW t \in tasks, ApplySave(t)
    PROVE  SavesRun'
  <1> DEFINE d == t.doc
  <1>1. t.kind = "Save" /\ tasks' = tasks \ {t} /\ d \in Docs
    BY TaskKind DEF ApplySave, Deliver, DocumentsInv, SessionTypes
  <1>2. save \in [Docs -> [status : {"Idle", "Saving", "Failed"}, generation : Nat]]
    BY DEF DocumentsInv, SessionTypes
  <1>3. open' \subseteq open
    BY CloseShrinks DEF ApplySave, HalfSaved, Completed
  <1>4. \/ d \notin open /\ UNCHANGED save
        \/ \E s \in {"Failed", "Idle"} : save' = [save EXCEPT ![d].status = s]
    BY <1>1 DEF ApplySave, HalfSaved, Completed, DocumentsInv, DocumentInv, TasksFit, Fits
  <1>5. d \in open' => save'[d].status # "Saving"
    BY <1>1, <1>2, <1>3, <1>4
  <1>6. \A e \in Docs \ {d} : save'[e] = save[e]
    BY <1>2, <1>4
  <1>7. QED
    BY <1>1, <1>3, <1>5, <1>6, SavesKept

LEMMA UserSavesRun ==
    ASSUME DocumentsInv, SavesRun, UserStep
    PROVE  SavesRun'
  <1>1. open \subseteq Docs /\ SessionTypes
    BY DEF DocumentsInv, SessionTypes
  <1>2. ASSUME NEW d \in Docs, Edit(d) \/ Undo(d) \/ Redo(d) \/ RequestClose(d)
        PROVE  SavesRun'
    BY <1>2, SavesUntouched, CloseShrinks DEF Edit, Undo, Redo, Commit, RequestClose
  <1>3. ASSUME NEW d \in Docs, Save(d)
        PROVE  SavesRun'
    BY <1>3, BeginRuns, SavesUntouched DEF Save
  <1>4. ASSUME NEW d \in Docs, DismissFailure(d)
        PROVE  SavesRun'
    <2>1. /\ UNCHANGED <<open, tasks>>
          /\ \A e \in Docs : save'[e] = save[e] \/ save'[e].status = "Idle"
      BY <1>1, <1>4 DEF DismissFailure, SessionTypes
    <2>2. QED
      BY <2>1, SavesKept
  <1>5. ASSUME NEW d \in Docs, Retry(d)
        PROVE  SavesRun'
    BY <1>5, SavesKept DEF Retry
  <1>6. ASSUME NEW w \in Windows,
               CancelClose(w) \/ Discard(w) \/ ContinueClose(w) \/ \E d \in Docs : MoveTab(d, w)
        PROVE  SavesRun'
    BY <1>6, SavesUntouched, CloseShrinks DEF CancelClose, documents, Discard, ContinueClose, MoveTab
  <1>7. ASSUME NEW w \in Windows, SaveAndClose(w)
        PROVE  SavesRun'
    <2>1. Pending(w) \in Docs
      BY <1>1, <1>7 DEF SaveAndClose, Shown
    <2>2. QED
      BY <1>7, <2>1, BeginRuns, SavesUntouched DEF SaveAndClose
  <1>8. ASSUME NEW w \in Windows, NoTarget(w)
        PROVE  SavesRun'
    <2>1. CASE UNCHANGED <<save, tasks>>
      BY <1>8, <2>1, SavesUntouched DEF NoTarget
    <2>2. CASE prompt[w].doc \in open /\ Refused(prompt[w].doc)
      BY <1>1, <1>8, <2>2, BeginRuns DEF NoTarget
    <2>3. QED
      BY <1>8, <2>1, <2>2 DEF NoTarget, Here
  <1>9. ASSUME NEW w \in Windows, NEW target \in {"Opened", "New"}, PickTarget(w, target)
        PROVE  SavesRun'
    <2>1. CASE UNCHANGED <<save, tasks>>
      BY <1>9, <2>1, SavesUntouched DEF PickTarget
    <2>2. CASE /\ prompt[w].doc \in open
               /\ BeginCloseSave(prompt[w].doc, target) \/ BeginSave(prompt[w].doc, target)
      BY <1>1, <1>9, <2>2, BeginRuns DEF PickTarget
    <2>3. QED
      BY <1>9, <2>1, <2>2 DEF PickTarget, PromptHolds, Here
  <1>10. QED
    BY <1>2, <1>3, <1>4, <1>5, <1>6, <1>7, <1>8, <1>9 DEF UserStep

LEMMA SavesNext == DocumentsInv /\ SavesRun /\ [Next]_vars => SavesRun'
  <1> SUFFICES ASSUME DocumentsInv, SavesRun, [Next]_vars PROVE SavesRun'
    OBVIOUS
  <1>1. CASE UNCHANGED vars
    BY <1>1, SavesUntouched DEF vars, documents
  <1>2. ASSUME NEW t \in tasks, WriteFile(t)
        PROVE  SavesRun'
    <2>1. \E result \in Results : Finish(t, result)
      BY <1>2 DEF WriteFile, SaveResults, When, Results
    <2>2. QED
      BY <1>2, <2>1, FinishRuns DEF WriteFile, documents
  <1>3. ASSUME NEW t \in tasks, StoreWork(t)
        PROVE  SavesRun'
    <2>1. UNCHANGED <<open, save>>
      BY <1>3 DEF StoreWork
    <2>2. \/ \E result \in Results : Finish(t, result)
          \/ t.kind = "Cleanup" /\ tasks' = tasks \ {t}
      BY <1>3 DEF StoreWork, Publish, ConfirmWork, RepairWork, CleanUp, Deliver, Results
    <2>3. QED
      BY <2>1, <2>2, FinishRuns, OtherTaskRuns
  <1>4. ASSUME NEW t \in tasks, ApplyStoreResult(t)
        PROVE  SavesRun'
    BY <1>4, OtherTaskRuns DEF ApplyStoreResult, ApplyPrepare, ApplyConfirmation, Deliver
  <1>5. QED
    BY <1>1, <1>2, <1>3, <1>4, UserSavesRun, ApplySaveRuns DEF Next, SaveStep, StoreStep

LEMMA SavesInit == Init => SavesRun
  <1> SUFFICES ASSUME Init PROVE SavesRun
    OBVIOUS
  <1>1. save = [d \in Docs |-> [status |-> "Idle", generation |-> 0]]
    BY DEF Init
  <1>2. QED
    BY <1>1 DEF SavesRun, SaveRuns, Saving

-----------------------------------------------------------------------------
LEMMA HeadsUntouched ==
    ASSUME HeadsInv, open' \subseteq open, UNCHANGED recovery,
           \A t \in tasks' : t.kind = "Repair" => \E u \in tasks : u.kind = "Repair" /\ u.doc = t.doc
    PROVE  HeadsInv'
  <1>1. ASSUME NEW d \in Docs
        PROVE  HeadFits(d)'
    <2>1. HeadFits(d)
      BY DEF HeadsInv
    <2>2. QED
      BY <2>1 DEF HeadFits, Unheaded
  <1>2. QED
    BY <1>1 DEF HeadsInv

\* One document has another checkpoint.
LEMMA OneHeadChanges ==
    ASSUME HeadsInv, NEW d \in Docs, open' \subseteq open,
           \A e \in Docs \ {d} : recovery'[e] = recovery[e],
           \A t \in tasks' : t.kind = "Repair" /\ t.doc # d =>
              \E u \in tasks : u.kind = "Repair" /\ u.doc = t.doc,
           HeadFits(d)'
    PROVE  HeadsInv'
  <1>1. ASSUME NEW e \in Docs, e # d
        PROVE  HeadFits(e)'
    <2>1. HeadFits(e) /\ recovery'[e] = recovery[e]
      BY <1>1 DEF HeadsInv
    <2>2. QED
      BY <1>1, <2>1 DEF HeadFits, Unheaded
  <1>2. QED
    BY <1>1 DEF HeadsInv

\* What becomes of a checkpoint that is replaced, rebased or cleared.
LEMMA ReplaceHeads ==
    ASSUME DocumentsInv, HeadsInv, NEW d \in open, recovery[d].preparation = "Ready",
           NEW checkpoint \in Checkpoints, NEW new \in ReplaceOutcomes(d, checkpoint)
    PROVE  LET s == new.recovery IN
           /\ s.current => s.head # NoHead
           /\ Unheaded(s) => s.head = NoHead
           /\ ~ Unheaded(s) => s.head # NoHead
  <1> DEFINE r == recovery[d]
             published == [r EXCEPT !.head = checkpoint]
             conflict == [r EXCEPT !.preparation = "Failed", !.head = NoHead]
             unconfirmed == [published EXCEPT !.preparation = "Ambiguous"]
             unloaded == [published EXCEPT !.current = FALSE]
  <1>1. r \in Recoveries /\ checkpoint # NoHead /\ d \in Docs
    BY DEF DocumentsInv, SessionTypes, Checkpoints, NoHead
  <1>2. HeadFits(d)
    BY <1>1 DEF HeadsInv
  <1>3. /\ published.head = checkpoint /\ published.preparation = "Ready"
        /\ unconfirmed.head = checkpoint /\ unconfirmed.preparation = "Ambiguous"
        /\ unloaded.head = checkpoint /\ unloaded.preparation = "Ready"
        /\ conflict.preparation = "Failed" /\ conflict.head = NoHead /\ conflict.current = r.current
    BY <1>1 DEF Recoveries
  <1>4. \/ ~ r.current /\ new = [outcome |-> "Conflict", recovery |-> conflict]
        \/ new = [outcome |-> "Durable", recovery |-> published]
        \/ new = [outcome |-> "Unconfirmed", recovery |-> unconfirmed]
        \/ new = [outcome |-> "Unwritten", recovery |-> r]
        \/ new = [outcome |-> "Unloaded", recovery |-> unloaded]
    BY DEF ReplaceOutcomes, When
  <1>5. new.recovery \in {published, unconfirmed, unloaded, r} \/ (new.recovery = conflict /\ ~ r.current)
    <2> HIDE DEF r, published, conflict, unconfirmed, unloaded
    <2>1. QED
      BY <1>4
  <1>6. r.head # NoHead /\ r.preparation = "Ready"
    BY <1>2 DEF HeadFits, Unheaded
  <1> HIDE DEF r, published, conflict, unconfirmed, unloaded
  <1>7. QED
    BY <1>1, <1>3, <1>5, <1>6 DEF Unheaded

LEMMA RebaseHeads ==
    ASSUME DocumentsInv, HeadsInv, NEW d \in Docs, NEW revision \in Nat,
           NEW new \in RebaseOutcomes(d, revision), ~ Unheaded(recovery[d])
    PROVE  /\ ~ Unheaded(new) /\ (new.current => new.head # NoHead)
           /\ recovery[d].head # NoHead => new.head # NoHead
  <1> DEFINE r == recovery[d]
             failed == [r EXCEPT !.preparation = "RebaseFailed"]
             head == [revision |-> revision, saved |-> revision, saveAs |-> FALSE]
             rebased == [r EXCEPT !.head = head]
             unconfirmed == [rebased EXCEPT !.preparation = "Ambiguous"]
             unloaded == [rebased EXCEPT !.preparation = "RebaseFailed", !.current = FALSE]
  <1>1. r \in Recoveries /\ head # NoHead
    BY DEF DocumentsInv, SessionTypes, NoHead
  <1>2. HeadFits(d)
    BY DEF HeadsInv
  <1>3. new \in {failed, rebased, unconfirmed, unloaded}
    BY DEF RebaseOutcomes, When
  <1> HIDE DEF head
  <1>4. /\ failed.preparation = "RebaseFailed" /\ failed.head = r.head /\ failed.current = r.current
        /\ rebased.preparation = r.preparation /\ rebased.head = head
        /\ unconfirmed.preparation = "Ambiguous" /\ unconfirmed.head = head
        /\ unloaded.preparation = "RebaseFailed" /\ unloaded.head = head
    BY <1>1 DEF Recoveries
  <1>5. r.current => r.head # NoHead
    BY <1>2 DEF HeadFits
  <1>6. r.preparation \notin {"Pending", "Failed"}
    BY DEF Unheaded
  <1> HIDE DEF failed, rebased, unconfirmed, unloaded
  <1>7. QED
    BY <1>1, <1>3, <1>4, <1>5, <1>6 DEF Unheaded

LEMMA CommitHeads ==
    ASSUME DocumentsInv, HeadsInv, NEW d \in Docs, NEW changed \in Timelines, NEW outdates,
           Commit(d, changed, outdates)
    PROVE  HeadsInv'
  <1>1. d \in open /\ ~ Saving(d) /\ recovery[d].preparation = "Ready"
    BY DEF Commit, Editable
  <1>2. PICK new \in ReplaceOutcomes(d, [Checkpoint(d) EXCEPT !.revision = changed.revision]) :
           recovery' = [recovery EXCEPT ![d] = new.recovery]
    BY DEF Commit
  <1>3. [Checkpoint(d) EXCEPT !.revision = changed.revision] \in Checkpoints
    <2>1. Checkpoint(d) \in Checkpoints /\ changed.revision \in Nat
      BY CheckpointType DEF Timelines, DocumentsInv
    <2>2. QED
      BY <2>1 DEF Checkpoints
  <1>4. UNCHANGED <<open, tasks>>
    BY DEF Commit
  <1>5. /\ recovery'[d] = new.recovery /\ \A e \in Docs \ {d} : recovery'[e] = recovery[e]
    BY <1>2 DEF DocumentsInv, SessionTypes
  <1>6. \A t \in tasks : t.doc = d => t.kind = "Cleanup"
    BY <1>1, ReadyIsFree
  <1>7. HeadFits(d)'
    BY <1>1, <1>2, <1>3, <1>4, <1>5, <1>6, ReplaceHeads DEF HeadFits, Unheaded
  <1>8. QED
    BY <1>4, <1>5, <1>7, OneHeadChanges

\* Closing a document whose checkpoint fits, one that is rebased included.
LEMMA CloseHeads ==
    ASSUME DocumentsInv, HeadsInv, NEW d \in open, NEW shown, NEW r \in Recoveries, Close(d, shown, r),
           r.current => r.head # NoHead, Unheaded(r) => r.head = NoHead,
           ~ Unheaded(r) => r.head # NoHead,
           tasks' \subseteq tasks, \A t \in tasks' : t.doc = d /\ t.kind = "Repair" => ~ Unheaded(r)
    PROVE  HeadsInv'
  <1> DEFINE clear == [r EXCEPT !.head = NoHead, !.current = FALSE]
  <1>1. d \in Docs /\ recovery \in [Docs -> Recoveries]
    BY DEF DocumentsInv, SessionTypes
  <1>2. clear.head = NoHead /\ ~ clear.current /\ clear.preparation = r.preparation
    BY DEF Recoveries
  <1>3. \/ open' = open \ {d} /\ \E s \in {clear, r} : recovery' = [recovery EXCEPT ![d] = s]
        \/ UNCHANGED open /\ recovery' = [recovery EXCEPT ![d] = r]
    BY DEF Close, ClearOutcomes, When
  <1> HIDE DEF clear
  <1>4. \A e \in Docs \ {d} : recovery'[e] = recovery[e]
    BY <1>1, <1>3
  <1>5. \/ d \notin open' /\ recovery'[d] \in {clear, r}
        \/ recovery'[d] = r
    BY <1>1, <1>3
  <1>6. HeadFits(d)'
    BY <1>2, <1>5 DEF HeadFits, Unheaded
  <1>7. open' \subseteq open
    BY <1>3
  <1>8. QED
    BY <1>1, <1>4, <1>6, <1>7, OneHeadChanges

LEMMA AnswerHeads ==
    ASSUME DocumentsInv, HeadsInv, NEW d \in open, NEW shown, NEW warning, UNCHANGED tasks,
           Close(d, shown, recovery[d]) \/ AnswerClose(d, shown, warning)
    PROVE  HeadsInv'
  <1>1. recovery[d] \in Recoveries /\ HeadFits(d)
    BY DEF DocumentsInv, SessionTypes, HeadsInv
  <1>2. CASE Close(d, shown, recovery[d])
    BY <1>1, <1>2, CloseHeads DEF HeadFits
  <1>3. CASE UNCHANGED <<open, recovery>>
    BY <1>3, HeadsUntouched
  <1>4. QED
    BY <1>2, <1>3 DEF AnswerClose, Stay

LEMMA RetryHeads ==
    ASSUME DocumentsInv, HeadsInv, NEW d \in Docs, Retry(d)
    PROVE  HeadsInv'
  <1>1. d \in open /\ UNCHANGED open /\ recovery[d] \in Recoveries /\ HeadFits(d)
        /\ recovery \in [Docs -> Recoveries]
    BY DEF Retry, DocumentsInv, SessionTypes, HeadsInv
  <1>2. CASE /\ recovery[d].preparation = "Failed"
             /\ recovery' = [recovery EXCEPT ![d].preparation = "Pending"]
             /\ tasks' = tasks \cup {PrepareTask(d)}
    <2>1. /\ \A e \in Docs \ {d} : recovery'[e] = recovery[e]
          /\ recovery'[d].preparation = "Pending" /\ recovery'[d].head = recovery[d].head
          /\ recovery'[d].current = recovery[d].current
      BY <1>1, <1>2 DEF Recoveries
    <2>2. PrepareTask(d).kind = "Prepare"
      BY DEF PrepareTask
    <2>3. \A t \in tasks' : t.kind = "Repair" => t \in tasks
      BY <1>2, <2>2
    <2>4. HeadFits(d)'
      BY <1>1, <1>2, <2>1, <2>3 DEF HeadFits, Unheaded
    <2>5. QED
      BY <1>1, <2>1, <2>3, <2>4, OneHeadChanges
  <1>3. CASE /\ recovery[d].preparation \in {"Ambiguous", "RebaseFailed"} /\ UNCHANGED recovery
             /\ \E kind \in {"Confirm", "Repair"} : tasks' = tasks \cup {Task(kind, d)}
    <2>1. \A t \in tasks' : t.kind = "Repair" => t \in tasks \/ t.doc = d
      BY <1>3 DEF Task
    <2>2. HeadFits(d)'
      BY <1>1, <1>3 DEF HeadFits, Unheaded
    <2>3. QED
      BY <1>1, <1>3, <2>1, <2>2, OneHeadChanges
  <1>4. QED
    BY <1>2, <1>3 DEF Retry

LEMMA UserHeads ==
    ASSUME DocumentsInv, HeadsInv, UserStep
    PROVE  HeadsInv'
  <1> DEFINE Quiet == /\ UNCHANGED <<open, recovery>>
                      /\ \A t \in tasks' : t \in tasks \/ t.kind = "Save"
  <1>1. Quiet => HeadsInv'
    BY HeadsUntouched
  <1>2. ASSUME NEW d \in Docs, Edit(d) \/ Undo(d) \/ Redo(d)
        PROVE  HeadsInv'
    <2>1. timeline[d] \in Timelines
      BY DEF DocumentsInv, SessionTypes
    <2>2. QED
      BY <1>2, <2>1, TimelineTypes, CommitHeads DEF Edit, Undo, Redo
  <1>3. ASSUME NEW d \in Docs, RequestClose(d)
        PROVE  HeadsInv'
    BY <1>3, AnswerHeads DEF RequestClose
  <1>4. ASSUME NEW w \in Windows, Discard(w) \/ ContinueClose(w)
        PROVE  HeadsInv'
    <2>1. Pending(w) \in open
      BY <1>4 DEF Discard, ContinueClose, Shown
    <2>2. QED
      BY <1>4, <2>1, AnswerHeads DEF Discard, ContinueClose
  <1>5. ASSUME NEW d, NEW target, Start(d, target) \/ Refused(d) \/ BeginSave(d, target)
                                  \/ BeginCloseSave(d, target)
        PROVE  \A t \in tasks' : t \in tasks \/ t.kind = "Save"
    BY <1>5 DEF Start, Refused, BeginSave, BeginCloseSave
  <1>6. ASSUME NEW d \in Docs, Save(d) \/ DismissFailure(d)
        PROVE  Quiet
    BY <1>5, <1>6 DEF Save, DismissFailure
  <1>7. ASSUME NEW w \in Windows, CancelClose(w) \/ SaveAndClose(w) \/ NoTarget(w)
        PROVE  Quiet
    BY <1>5, <1>7 DEF CancelClose, documents, SaveAndClose, NoTarget
  <1>8. ASSUME NEW w \in Windows, NEW target \in {"Opened", "New"}, PickTarget(w, target)
        PROVE  Quiet
    BY <1>5, <1>8 DEF PickTarget
  <1>9. ASSUME NEW w \in Windows, NEW d \in Docs, MoveTab(d, w)
        PROVE  Quiet
    BY <1>9 DEF MoveTab
  <1> HIDE DEF Quiet
  <1>10. QED
    BY <1>1, <1>2, <1>3, <1>4, <1>6, <1>7, <1>8, <1>9, RetryHeads DEF UserStep

LEMMA SaveTaskHeads ==
    ASSUME DocumentsInv, HeadsInv, NEW t \in tasks, WriteFile(t) \/ ApplySave(t)
    PROVE  HeadsInv'
  <1> DEFINE d == t.doc
  <1>1. t \in Tasks /\ d \in Docs /\ recovery \in [Docs -> Recoveries]
    BY TaskKind DEF DocumentsInv, SessionTypes
  <1>2. CASE WriteFile(t)
    <2>1. PICK result \in Results : Finish(t, result)
      BY <1>2 DEF WriteFile, SaveResults, When, Results
    <2>2. \A u \in tasks' : u.kind = "Repair" => u \in tasks
      BY <1>2, <2>1, FinishedTask DEF WriteFile
    <2>3. QED
      BY <1>2, <2>2, HeadsUntouched DEF WriteFile, documents
  <1>3. CASE ApplySave(t)
    <2>1. t.kind = "Save" /\ tasks' = tasks \ {t}
      BY <1>3 DEF ApplySave, Deliver
    <2>2. CASE UNCHANGED <<open, recovery>>
      BY <2>1, <2>2, HeadsUntouched
    <2>3. CASE ~ UNCHANGED <<open, recovery>>
      <3>1. /\ d \in open /\ recovery[d].preparation = "Ready"
            /\ \E r \in RebaseOutcomes(d, t.revision) :
                  \/ \E shown : Close(d, shown, r)
                  \/ recovery' = [recovery EXCEPT ![d] = r] /\ UNCHANGED open
        BY <1>3, <2>3 DEF ApplySave, Accepted, HalfSaved, Completed
      <3>2. PICK r \in RebaseOutcomes(d, t.revision) :
               \/ \E shown : Close(d, shown, r)
               \/ recovery' = [recovery EXCEPT ![d] = r] /\ UNCHANGED open
        BY <3>1
      <3>3. t.revision \in Nat
        BY <1>1, <2>1, TaskKind DEF SaveTasks
      <3>4. r \in Recoveries
        BY <1>1, <3>3, RebaseType DEF DocumentsInv
      <3>5. ~ Unheaded(recovery[d]) /\ recovery[d].head # NoHead
        BY <1>1, <3>1 DEF HeadsInv, HeadFits, Unheaded
      <3>6. ~ Unheaded(r) /\ r.head # NoHead
        BY <1>1, <3>3, <3>5, RebaseHeads
      <3>7. CASE \E shown : Close(d, shown, r)
        BY <2>1, <3>1, <3>4, <3>6, <3>7, CloseHeads
      <3>8. CASE recovery' = [recovery EXCEPT ![d] = r] /\ UNCHANGED open
        <4>1. recovery'[d] = r /\ \A e \in Docs \ {d} : recovery'[e] = recovery[e]
          BY <1>1, <3>8
        <4>2. HeadFits(d)'
          BY <3>6, <4>1 DEF HeadFits, Unheaded
        <4>3. QED
          BY <1>1, <2>1, <3>8, <4>1, <4>2, OneHeadChanges
      <3>9. QED
        BY <3>2, <3>7, <3>8
    <2>4. QED
      BY <2>2, <2>3
  <1>4. QED
    BY <1>2, <1>3

LEMMA StoreWorkHeads ==
    ASSUME DocumentsInv, HeadsInv, NEW t \in tasks, StoreWork(t)
    PROVE  HeadsInv'
  <1> DEFINE d == t.doc
  <1>1. /\ t \in Tasks /\ d \in Docs /\ recovery \in [Docs -> Recoveries] /\ HeadFits(d)
        /\ UNCHANGED open
    BY TaskKind DEF DocumentsInv, SessionTypes, HeadsInv, StoreWork
  <1>2. \A u \in tasks' : u.kind = "Repair" => \E v \in tasks : v.kind = "Repair" /\ v.doc = u.doc
    <2>1. \/ \E result \in Results : Finish(t, result)
          \/ tasks' = tasks \ {t}
      BY DEF StoreWork, Publish, ConfirmWork, RepairWork, CleanUp, Deliver, Results
    <2>2. QED
      BY <2>1, FinishedTask
  <1>3. CASE UNCHANGED recovery
    BY <1>1, <1>2, <1>3, HeadsUntouched
  <1>4. ASSUME NEW loose, recovery' = [recovery EXCEPT ![d].loose = loose]
        PROVE  HeadsInv'
    <2>1. /\ \A e \in Docs \ {d} : recovery'[e] = recovery[e]
          /\ recovery'[d].preparation = recovery[d].preparation
          /\ recovery'[d].head = recovery[d].head /\ recovery'[d].current = recovery[d].current
      BY <1>1, <1>4 DEF Recoveries
    <2>2. HeadFits(d)'
      BY <1>1, <1>2, <2>1 DEF HeadFits, Unheaded
    <2>3. QED
      BY <1>1, <1>2, <2>1, <2>2, OneHeadChanges
  <1>5. ASSUME t.kind = "Repair", NEW r \in RebaseOutcomes(d, t.revision),
               recovery' = [recovery EXCEPT ![d].head = r.head, ![d].current = FALSE]
        PROVE  HeadsInv'
    <2>1. /\ \A e \in Docs \ {d} : recovery'[e] = recovery[e]
          /\ recovery'[d].preparation = recovery[d].preparation
          /\ recovery'[d].head = r.head /\ recovery'[d].current = FALSE
      BY <1>1, <1>5 DEF Recoveries
    <2>2. ~ Unheaded(recovery[d])
      BY <1>1, <1>5 DEF HeadFits
    <2>3. t.revision \in Nat
      BY <1>1, <1>5, TaskKind DEF CheckTasks
    <2>4. recovery[d].head # NoHead => r.head # NoHead
      BY <1>1, <1>5, <2>2, <2>3, RebaseHeads
    <2>5. HeadFits(d)'
      BY <1>1, <1>2, <2>1, <2>2, <2>4 DEF HeadFits, Unheaded
    <2>6. QED
      BY <1>1, <1>2, <2>1, <2>5, OneHeadChanges
  <1>6. CASE t.kind = "Prepare" /\ Publish(t)
    BY <1>3, <1>4, <1>6 DEF Publish
  <1>7. CASE t.kind = "Confirm" /\ ConfirmWork(t)
    BY <1>3, <1>7 DEF ConfirmWork
  <1>8. CASE t.kind = "Repair" /\ RepairWork(t)
    BY <1>3, <1>5, <1>8 DEF RepairWork
  <1>9. CASE t.kind = "Cleanup" /\ CleanUp(t)
    BY <1>4, <1>9 DEF CleanUp
  <1>10. QED
    BY <1>6, <1>7, <1>8, <1>9 DEF StoreWork

LEMMA StoreResultHeads ==
    ASSUME DocumentsInv, HeadsInv, NEW t \in tasks, ApplyStoreResult(t)
    PROVE  HeadsInv'
  <1> DEFINE d == t.doc
             r == recovery[d]
  <1>1. /\ t \in Tasks /\ d \in Docs /\ recovery \in [Docs -> Recoveries] /\ HeadFits(d)
        /\ UNCHANGED open /\ r \in Recoveries
    BY TaskKind DEF DocumentsInv, SessionTypes, HeadsInv, ApplyStoreResult
  <1>2. \A u \in tasks' : u.kind = "Repair" => u \in tasks
    BY DEF ApplyStoreResult, ApplyPrepare, ApplyConfirmation, Deliver, CleanUpTask
  <1>3. CASE UNCHANGED recovery
    BY <1>1, <1>2, <1>3, HeadsUntouched
  <1>4. CASE t.kind = "Prepare" /\ ApplyPrepare(t)
    <2>1. CASE Here(d, t.window)
      <3>1. recovery' = [recovery EXCEPT ![d] = Prepared(r, t)]
        BY <1>4, <2>1 DEF ApplyPrepare
      <3>2. t.head \in Checkpoints /\ t.head # NoHead
        BY <1>1, <1>4, TaskKind DEF PrepareTasks, Checkpoints, NoHead
      <3>3. r.preparation = "Pending" /\ OneTask(d) /\ d \in open
        BY <1>1, <1>4, <2>1 DEF Here, DocumentsInv, DocumentInv, TasksFit, Fits
      <3>4. r.head = NoHead /\ ~ r.current
        BY <1>1, <3>3 DEF HeadFits, Unheaded
      <3>5. \A u \in tasks : u.doc = d => u.kind # "Repair"
        BY <1>1, <1>4, <3>3 DEF OneTask
      <3>6. LET s == Prepared(r, t) IN
            \/ s.preparation = "Failed" /\ s.head = NoHead /\ ~ s.current
            \/ s.preparation \in {"Ready", "Ambiguous"} /\ s.head = t.head
        BY <1>1, <3>4 DEF Prepared, Recoveries
      <3>7. recovery'[d] = Prepared(r, t) /\ \A e \in Docs \ {d} : recovery'[e] = recovery[e]
        BY <1>1, <3>1
      <3>8. HeadFits(d)'
        BY <1>2, <3>2, <3>5, <3>6, <3>7 DEF HeadFits, Unheaded
      <3>9. QED
        BY <1>1, <1>2, <3>7, <3>8, OneHeadChanges
    <2>2. QED
      BY <1>3, <1>4, <2>1 DEF ApplyPrepare
  <1>5. CASE t.kind \in {"Confirm", "Repair"} /\ ApplyConfirmation(t)
    <2>1. CASE ~ UNCHANGED recovery
      <3>1. d \in open /\ \E preparation \in {"Ready", "Ambiguous"} :
               recovery' = [recovery EXCEPT ![d].current = TRUE, ![d].preparation = preparation]
        BY <1>5, <2>1 DEF ApplyConfirmation
      <3>2. r.head # NoHead
        BY <1>1, <1>5, <3>1 DEF HeadFits, Unheaded, DocumentsInv, DocumentInv, TasksFit, Fits
      <3>3. /\ \A e \in Docs \ {d} : recovery'[e] = recovery[e]
            /\ recovery'[d].head = r.head /\ recovery'[d].preparation \in {"Ready", "Ambiguous"}
        BY <1>1, <3>1 DEF Recoveries
      <3>4. HeadFits(d)'
        BY <3>2, <3>3 DEF HeadFits, Unheaded
      <3>5. QED
        BY <1>1, <1>2, <3>3, <3>4, OneHeadChanges
    <2>2. QED
      BY <1>3, <2>1
  <1>6. QED
    BY <1>4, <1>5 DEF ApplyStoreResult

LEMMA HeadsNext == DocumentsInv /\ HeadsInv /\ [Next]_vars => HeadsInv'
  <1> SUFFICES ASSUME DocumentsInv, HeadsInv, [Next]_vars PROVE HeadsInv'
    OBVIOUS
  <1>1. CASE UNCHANGED vars
    BY <1>1, HeadsUntouched DEF vars, documents
  <1>2. QED
    BY <1>1, UserHeads, SaveTaskHeads, StoreWorkHeads, StoreResultHeads
    DEF Next, SaveStep, StoreStep

LEMMA HeadsInit == Init => HeadsInv
  <1> SUFFICES ASSUME Init, NEW d \in Docs PROVE HeadFits(d)
    BY DEF HeadsInv
  <1>1. \A t \in tasks : t.kind = "Prepare"
    <2>1. tasks = {PrepareTask(e) : e \in Docs \ Recovered}
      BY DEF Init
    <2>2. QED
      BY <2>1 DEF PrepareTask
  <1>2. CASE d \in Recovered
    <2>1. recovery[d] = [Unprepared EXCEPT !.preparation = "Ready", !.current = TRUE,
                                           !.head = Checkpoint(d)]
      BY <1>2 DEF Init
    <2>2. recovery[d].preparation = "Ready" /\ recovery[d].head = Checkpoint(d)
      BY <2>1 DEF Unprepared
    <2>3. Checkpoint(d) # NoHead
      <3>1. timeline[d].revision = 1
        BY <1>2 DEF Init
      <3>2. Checkpoint(d).revision = 1
        BY <3>1 DEF Checkpoint, Revision
      <3>3. QED
        BY <3>2 DEF NoHead
    <2>4. QED
      BY <1>1, <2>2, <2>3 DEF HeadFits, Unheaded
  <1>3. CASE d \notin Recovered
    <2>1. recovery[d] = Unprepared
      BY <1>3 DEF Init
    <2>2. QED
      BY <1>1, <2>1 DEF HeadFits, Unheaded, Unprepared
  <1>4. QED
    BY <1>2, <1>3

-----------------------------------------------------------------------------
\* Only one document, the dialog of its window and its warning change.
LEMMA OneDialogChanges ==
    ASSUME DocumentsInv, DialogsInv, NEW d \in open, UNCHANGED home,
           open \ {d} \subseteq open', NEW x, x \in Dialogs,
           dialog' = [dialog EXCEPT ![home[d]] = x],
           /\ x.pending # NoDoc => x.pending \in open' /\ home[x.pending] = home[d]
           /\ x.closeAfter \in {x.pending, NoDoc}
           /\ x.warning # 0 => x.pending # NoDoc
           /\ x.closeAfter # NoDoc => warned'[x.pending] = 0,
           warned' \in [Docs -> Nat], \A e \in Docs \ {d} : warned'[e] = warned[e],
           confirming' \subseteq open', PromptsInv'
    PROVE  DialogsInv'
  <1>1. /\ d \in Docs /\ home[d] \in Windows /\ dialog \in [Windows -> Dialogs]
        /\ dialog'[home[d]] = x /\ \A v \in Windows \ {home[d]} : dialog'[v] = dialog[v]
        /\ dialog' \in [Windows -> Dialogs]
    BY DEF DocumentsInv, SessionTypes, DialogsInv
  <1>2. Suits(dialog[home[d]], home[d])'
    BY <1>1 DEF Suits, Here
  <1>3. ASSUME NEW v \in Windows, v # home[d]
        PROVE  Suits(dialog[v], v)'
    <2>1. Suits(dialog[v], v) /\ dialog'[v] = dialog[v] /\ dialog[v] \in Dialogs
      BY <1>1, <1>3 DEF DialogsInv
    <2>2. dialog[v].pending # d /\ dialog[v].pending \in Docs \cup {NoDoc}
      BY <1>1, <1>3, <2>1, NoDocAssumption DEF Suits, Here, Dialogs
    <2>3. dialog[v].pending # NoDoc => warned'[dialog[v].pending] = warned[dialog[v].pending]
      BY <2>2
    <2>4. QED
      BY <2>1, <2>2, <2>3 DEF Suits, Here
  <1>4. \A v \in Windows : Suits(dialog[v], v)'
    BY <1>1, <1>2, <1>3
  <1>5. QED
    BY <1>1, <1>4 DEF DialogsInv

LEMMA DialogsUntouched ==
    ASSUME DialogsInv, UNCHANGED <<open, home, warned, dialog>>, confirming' \subseteq open,
           PromptsInv'
    PROVE  DialogsInv'
  BY DEF DialogsInv, Suits, Here

LEMMA PromptsUntouched == PromptsInv /\ UNCHANGED <<prompt, warned>> => PromptsInv'
  BY DEF PromptsInv, PromptFits

\* A prompt that is outdated fits, whatever is written of its document.
LEMMA OutdatedFits ==
    ASSUME PromptsInv, NEW d \in Docs, prompt' = Outdated(d),
           \A e \in Docs \ {d} : warned'[e] = warned[e]
    PROVE  PromptsInv'
  <1>1. ASSUME NEW w \in Windows
        PROVE  prompt'[w] \in Prompts /\ PromptFits(w)'
    <2>1. prompt[w] \in Prompts /\ PromptFits(w)
      BY DEF PromptsInv
    <2>2. CASE prompt[w].doc = d
      <3>1. prompt'[w] = [prompt[w] EXCEPT !.outdated = TRUE]
        BY <2>2 DEF Outdated
      <3>2. prompt[w] \in [doc : Docs, closes : BOOLEAN, outdated : BOOLEAN]
        BY <2>1, <2>2, NoDocAssumption DEF Prompts, NoPrompt
      <3>3. prompt'[w] \in [doc : Docs, closes : BOOLEAN, outdated : BOOLEAN] /\ prompt'[w].outdated
        BY <3>1, <3>2
      <3>4. QED
        BY <3>3 DEF Prompts, PromptFits
    <2>3. CASE prompt[w].doc # d
      <3>1. prompt'[w] = prompt[w]
        BY <2>3 DEF Outdated
      <3>2. prompt[w] # NoPrompt => prompt[w].doc \in Docs \ {d}
        BY <2>1, <2>3 DEF Prompts
      <3>3. QED
        BY <2>1, <3>1, <3>2 DEF PromptFits
    <2>4. QED
      BY <2>2, <2>3
  <1>2. prompt' = [w \in Windows |-> prompt'[w]]
    BY DEF Outdated
  <1>3. QED
    BY <1>1, <1>2 DEF PromptsInv

\* A prompt that goes, or a new one for a document without a warning.
LEMMA PromptChanges ==
    ASSUME PromptsInv, NEW w \in Windows, NEW p \in Prompts,
           prompt' = [prompt EXCEPT ![w] = p], UNCHANGED warned,
           p # NoPrompt /\ p.closes => warned[p.doc] = 0
    PROVE  PromptsInv'
  <1>1. prompt' \in [Windows -> Prompts]
    BY DEF PromptsInv
  <1>2. ASSUME NEW v \in Windows
        PROVE  PromptFits(v)'
    <2>1. prompt'[v] = prompt[v] \/ prompt'[v] = p
      BY DEF PromptsInv
    <2>2. PromptFits(v)
      BY DEF PromptsInv
    <2>3. QED
      BY <2>1, <2>2 DEF PromptFits
  <1>3. QED
    BY <1>1, <1>2 DEF PromptsInv

\* close_document with a dialog that suits the window.
LEMMA CloseDialogs ==
    ASSUME DocumentsInv, DialogsInv, NEW d \in open, NEW shown, shown \in Dialogs, NEW r,
           Close(d, shown, r), UNCHANGED home,
           Suits(shown, home[d]),
           warned' \in [Docs -> Nat], \A e \in Docs \ {d} : warned'[e] = warned[e],
           warned[d] = 0 => warned'[d] = 0, PromptsInv'
    PROVE  DialogsInv'
  <1>1. d \in Docs /\ confirming \subseteq open /\ d # NoDoc
    BY NoDocAssumption DEF DocumentsInv, SessionTypes, DialogsInv
  <1>2. /\ shown.pending \in Docs \cup {NoDoc} /\ shown.warning \in Nat
        /\ shown.closeAfter \in {shown.pending, NoDoc}
        /\ shown.pending # NoDoc => shown.pending \in open /\ home[shown.pending] = home[d]
        /\ shown.warning # 0 => shown.pending # NoDoc
        /\ shown.closeAfter # NoDoc => warned[shown.pending] = 0
    BY DEF Dialogs, Suits, Here
  <1>3. CASE /\ open' = open \ {d} /\ dialog' = [dialog EXCEPT ![home[d]] = WithoutDialog(d, shown)]
             /\ confirming' = confirming \ {d}
    <2> DEFINE x == WithoutDialog(d, shown)
    <2>1. /\ x.pending = (IF shown.pending = d THEN NoDoc ELSE shown.pending)
          /\ x.warning = (IF shown.pending = d THEN 0 ELSE shown.warning)
          /\ x.closeAfter = (IF shown.closeAfter = d THEN NoDoc ELSE shown.closeAfter)
      BY DEF WithoutDialog
    <2>2. x \in Dialogs
      BY <1>2, <2>1 DEF Dialogs, WithoutDialog
    <2> HIDE DEF x
    <2>3. /\ x.pending # NoDoc => x.pending \in open' /\ home[x.pending] = home[d]
          /\ x.closeAfter \in {x.pending, NoDoc}
          /\ x.warning # 0 => x.pending # NoDoc
          /\ x.closeAfter # NoDoc => x.pending \in Docs \ {d} /\ warned[x.pending] = 0
      BY <1>1, <1>2, <1>3, <2>1
    <2>4. x.closeAfter # NoDoc => warned'[x.pending] = 0
      BY <2>3
    <2>5. open \ {d} \subseteq open' /\ confirming' \subseteq open'
      BY <1>1, <1>3
    <2>6. dialog' = [dialog EXCEPT ![home[d]] = x]
      BY <1>3 DEF x
    <2>7. QED
      BY <2>2, <2>3, <2>4, <2>5, <2>6, OneDialogChanges
  <1>4. CASE dialog' = [dialog EXCEPT ![home[d]] = shown] /\ UNCHANGED <<open, confirming>>
    <2>1. shown.closeAfter # NoDoc => warned'[shown.pending] = 0
      BY <1>2
    <2>2. QED
      BY <1>1, <1>2, <1>4, <2>1, OneDialogChanges
  <1>5. QED
    BY <1>3, <1>4 DEF Close

\* The dialog that is put up for a document, unless there is one already.
LEMMA AnswerDialogs ==
    ASSUME DocumentsInv, DialogsInv, NEW d \in open, NEW shown, shown \in Dialogs,
           NEW warning \in Nat, AnswerClose(d, shown, warning), UNCHANGED home,
           Suits(shown, home[d]),
           warned' \in [Docs -> Nat], \A e \in Docs \ {d} : warned'[e] = warned[e],
           warned[d] = 0 => warned'[d] = 0, PromptsInv'
    PROVE  DialogsInv'
  <1>1. d \in Docs /\ confirming \subseteq open /\ d # NoDoc
    BY NoDocAssumption DEF DocumentsInv, SessionTypes, DialogsInv
  <1>2. /\ shown.pending \in Docs \cup {NoDoc} /\ shown.warning \in Nat
        /\ shown.closeAfter \in {shown.pending, NoDoc}
        /\ shown.pending # NoDoc => shown.pending \in open /\ home[shown.pending] = home[d]
        /\ shown.warning # 0 => shown.pending # NoDoc
        /\ shown.closeAfter # NoDoc => warned[shown.pending] = 0
    BY DEF Dialogs, Suits, Here
  <1>3. CASE Close(d, shown, recovery[d])
    BY <1>3, CloseDialogs
  <1>4. CASE shown.pending # NoDoc /\ Stay(d, shown)
    <2>1. shown.closeAfter # NoDoc => warned'[shown.pending] = 0
      BY <1>2
    <2>2. /\ dialog' = [dialog EXCEPT ![home[d]] = shown] /\ UNCHANGED <<open, confirming>>
      BY <1>4 DEF Stay
    <2>3. QED
      BY <1>1, <1>2, <2>1, <2>2, OneDialogChanges
  <1>5. CASE shown.pending = NoDoc /\ Stay(d, [shown EXCEPT !.pending = d, !.warning = warning])
    <2> DEFINE x == [shown EXCEPT !.pending = d, !.warning = warning]
    <2>1. x \in Dialogs /\ x.pending = d /\ x.closeAfter = NoDoc
      BY <1>1, <1>2, <1>5 DEF Dialogs
    <2>2. /\ dialog' = [dialog EXCEPT ![home[d]] = x] /\ UNCHANGED <<open, confirming>>
      BY <1>5 DEF Stay
    <2> HIDE DEF x
    <2>3. QED
      BY <1>1, <2>1, <2>2, OneDialogChanges
  <1>6. QED
    BY <1>3, <1>4, <1>5 DEF AnswerClose

\* A pending close is of a tab of its window.
LEMMA PendingIsHere ==
    ASSUME DocumentsInv, DialogsInv, NEW w \in Windows, Pending(w) \in open
    PROVE  /\ home[Pending(w)] = w /\ Pending(w) \in Docs /\ Pending(w) # NoDoc
           /\ dialog[w] \in Dialogs /\ Suits(dialog[w], w)
           /\ dialog[w].closeAfter \in {Pending(w), NoDoc}
           /\ dialog[w].closeAfter # NoDoc => warned[Pending(w)] = 0
  BY NoDocAssumption DEF DocumentsInv, SessionTypes, DialogsInv, Suits, Here, Pending

LEMMA UserClosesDialogs ==
    ASSUME DocumentsInv, DialogsInv,
           \/ \E d \in Docs : RequestClose(d)
           \/ \E w \in Windows : CancelClose(w) \/ Discard(w) \/ ContinueClose(w)
    PROVE  DialogsInv'
  <1>1. /\ open \subseteq Docs /\ home \in [Docs -> Windows] /\ warned \in [Docs -> Nat]
        /\ confirming \subseteq open /\ PromptsInv
        /\ dialog \in [Windows -> Dialogs] /\ \A w \in Windows : Suits(dialog[w], w)
    BY DEF DocumentsInv, SessionTypes, DialogsInv
  <1>2. ASSUME NEW d \in Docs, RequestClose(d)
        PROVE  DialogsInv'
    <2>1. /\ d \in open /\ AnswerClose(d, dialog[home[d]], warned[d])
          /\ UNCHANGED <<home, warned, prompt>>
      BY <1>2 DEF RequestClose
    <2>2. PromptsInv'
      BY <1>1, <2>1, PromptsUntouched
    <2>3. QED
      BY <1>1, <2>1, <2>2, AnswerDialogs
  <1>3. ASSUME NEW w \in Windows, CancelClose(w)
        PROVE  DialogsInv'
    <2>1. /\ Pending(w) \in open /\ dialog' = [dialog EXCEPT ![w] = NoDialog]
          /\ UNCHANGED <<open, home, warned, confirming, prompt>>
      BY <1>3 DEF CancelClose, Shown, documents
    <2>2. NoDialog \in Dialogs /\ NoDialog.pending = NoDoc /\ NoDialog.closeAfter = NoDoc
          /\ NoDialog.warning = 0
      BY DEF NoDialog, Dialogs
    <2>3. PromptsInv'
      BY <1>1, <2>1, PromptsUntouched
    <2>4. home[Pending(w)] = w
      BY <2>1, PendingIsHere
    <2>5. QED
      BY <1>1, <2>1, <2>2, <2>3, <2>4, OneDialogChanges
  <1>4. ASSUME NEW w \in Windows, Discard(w)
        PROVE  DialogsInv'
    <2>1. /\ Pending(w) \in open /\ Close(Pending(w), dialog[w], recovery[Pending(w)])
          /\ UNCHANGED <<home, warned, prompt>>
      BY <1>4 DEF Discard, Shown
    <2>2. PromptsInv'
      BY <1>1, <2>1, PromptsUntouched
    <2>3. home[Pending(w)] = w /\ dialog[w] \in Dialogs /\ Suits(dialog[w], w)
      BY <2>1, PendingIsHere
    <2>4. QED
      BY <1>1, <2>1, <2>2, <2>3, CloseDialogs
  <1>5. ASSUME NEW w \in Windows, ContinueClose(w)
        PROVE  DialogsInv'
    <2> DEFINE d == Pending(w)
               x == [dialog[w] EXCEPT !.pending = NoDoc, !.warning = 0]
    <2>1. d \in open /\ warned[d] # 0
      BY <1>5 DEF ContinueClose, Shown
    <2>2. PICK left \in {0, warned[d]} :
             warned' = [warned EXCEPT ![d] = left] /\ AnswerClose(d, x, left)
      BY <1>5 DEF ContinueClose
    <2>3. UNCHANGED <<home, prompt>>
      BY <1>5 DEF ContinueClose
    <2>4. home[d] = w /\ d \in Docs /\ dialog[w] \in Dialogs /\ dialog[w].closeAfter = NoDoc
      BY <2>1, PendingIsHere
    <2>5. x \in Dialogs /\ x.pending = NoDoc /\ x.closeAfter = NoDoc /\ x.warning = 0
      BY <2>4 DEF Dialogs
    <2> HIDE DEF d, x
    <2>6. Suits(x, home[d])
      BY <2>5 DEF Suits
    <2>7. /\ left \in Nat /\ warned' \in [Docs -> Nat] /\ \A e \in Docs \ {d} : warned'[e] = warned[e]
          /\ \A e \in Docs : warned[e] = 0 => warned'[e] = 0
      BY <1>1, <2>2, <2>4
    <2>8. PromptsInv'
      BY <1>1, <2>3, <2>7 DEF PromptsInv, PromptFits, Prompts
    <2>9. QED
      BY <2>1, <2>2, <2>3, <2>4, <2>5, <2>6, <2>7, <2>8, AnswerDialogs
  <1>6. QED
    BY <1>2, <1>3, <1>4, <1>5

\* The dialog of a document that has no warning lets it close with its save.
LEMMA CloseSaveDialogs ==
    ASSUME DocumentsInv, DialogsInv, NEW d \in open, NEW target, BeginCloseSave(d, target),
           Pending(home[d]) = d, warned[d] = 0, UNCHANGED <<open, home, warned, confirming>>,
           PromptsInv'
    PROVE  DialogsInv'
  <1>1. CASE UNCHANGED dialog
    BY <1>1, DialogsUntouched DEF DialogsInv
  <1>2. CASE dialog' = [dialog EXCEPT ![home[d]].closeAfter = d]
    <2> DEFINE x == [dialog[home[d]] EXCEPT !.closeAfter = d]
    <2>1. /\ d \in Docs /\ home[d] \in Windows /\ dialog \in [Windows -> Dialogs]
          /\ confirming \subseteq open /\ warned \in [Docs -> Nat]
      BY DEF DocumentsInv, SessionTypes, DialogsInv
    <2>2. dialog' = [dialog EXCEPT ![home[d]] = x]
      BY <1>2, <2>1
    <2>3. x \in Dialogs /\ x.pending = d /\ x.closeAfter = d
      BY <2>1 DEF Dialogs, Pending
    <2>4. d # NoDoc
      BY <2>1, NoDocAssumption
    <2> HIDE DEF x
    <2>5. QED
      BY <2>1, <2>2, <2>3, <2>4, OneDialogChanges
  <1>3. QED
    BY <1>1, <1>2 DEF BeginCloseSave

LEMMA UserSavesDialogs ==
    ASSUME DocumentsInv, DialogsInv,
           \/ \E d \in Docs : Save(d) \/ DismissFailure(d) \/ Edit(d) \/ Undo(d) \/ Redo(d) \/ Retry(d)
           \/ \E w \in Windows : SaveAndClose(w) \/ NoTarget(w)
           \/ \E w \in Windows, target \in {"Opened", "New"} : PickTarget(w, target)
    PROVE  DialogsInv'
  <1>1. /\ open \subseteq Docs /\ home \in [Docs -> Windows] /\ warned \in [Docs -> Nat]
        /\ confirming \subseteq open /\ PromptsInv
    BY DEF DocumentsInv, SessionTypes, DialogsInv
  <1>2. ASSUME NEW d \in Docs, NEW closes \in BOOLEAN
        PROVE  /\ Prompted(d, closes) \in Prompts /\ Prompted(d, closes).closes = closes
               /\ Prompted(d, closes).doc = d
    BY DEF Prompted, Prompts
  <1>3. NoPrompt \in Prompts
    BY DEF Prompts
  <1>4. ASSUME NEW d \in Docs, Save(d)
        PROVE  DialogsInv'
    <2>1. UNCHANGED <<open, home, warned, dialog, confirming>>
      BY <1>4 DEF Save
    <2>2. UNCHANGED prompt \/ prompt' = [prompt EXCEPT ![home[d]] = Prompted(d, FALSE)]
      BY <1>4 DEF Save, Prompt
    <2>3. home[d] \in Windows
      BY <1>1
    <2>4. PromptsInv'
      BY <1>1, <1>2, <2>1, <2>2, <2>3, PromptsUntouched, PromptChanges
    <2>5. QED
      BY <1>1, <2>1, <2>4, DialogsUntouched
  <1>5. ASSUME NEW d \in Docs, DismissFailure(d) \/ Retry(d)
        PROVE  DialogsInv'
    <2>1. /\ UNCHANGED <<open, home, warned, dialog, prompt>> /\ d \in open
          /\ confirming' \subseteq confirming \cup {d}
      BY <1>5 DEF DismissFailure, Retry
    <2>2. PromptsInv'
      BY <1>1, <2>1, PromptsUntouched
    <2>3. QED
      BY <1>1, <2>1, <2>2, DialogsUntouched
  <1>6. ASSUME NEW d \in Docs, Edit(d) \/ Undo(d) \/ Redo(d)
        PROVE  DialogsInv'
    <2>1. UNCHANGED <<open, home, warned, dialog, confirming>>
      BY <1>6 DEF Edit, Undo, Redo, Commit
    <2>2. UNCHANGED prompt \/ prompt' = Outdated(d)
      BY <1>6 DEF Edit, Undo, Redo, Commit
    <2>3. PromptsInv'
      BY <1>1, <2>1, <2>2, PromptsUntouched, OutdatedFits
    <2>4. QED
      BY <1>1, <2>1, <2>3, DialogsUntouched
  <1>7. ASSUME NEW w \in Windows, SaveAndClose(w)
        PROVE  DialogsInv'
    <2> DEFINE d == Pending(w)
    <2>1. /\ d \in open /\ warned[d] = 0 /\ UNCHANGED <<open, home, warned, confirming>>
      BY <1>7 DEF SaveAndClose, Shown
    <2>2. home[d] = w /\ d \in Docs
      BY <2>1, PendingIsHere
    <2>3. CASE prompt' = [prompt EXCEPT ![home[d]] = Prompted(d, TRUE)] /\ UNCHANGED dialog
      <3>1. PromptsInv'
        BY <1>1, <1>2, <2>1, <2>2, <2>3, PromptChanges
      <3>2. QED
        BY <1>1, <2>1, <2>3, <3>1, DialogsUntouched
    <2>4. CASE BeginCloseSave(d, "Opened") /\ UNCHANGED prompt
      <3>1. PromptsInv'
        BY <1>1, <2>1, <2>4, PromptsUntouched
      <3>2. QED
        BY <2>1, <2>2, <2>4, <3>1, CloseSaveDialogs
    <2>5. QED
      BY <1>7, <2>3, <2>4 DEF SaveAndClose, Prompt
  <1>8. ASSUME NEW w \in Windows, NoTarget(w)
        PROVE  DialogsInv'
    <2>1. /\ UNCHANGED <<open, home, warned, dialog, confirming>>
          /\ prompt' = [prompt EXCEPT ![w] = NoPrompt]
      BY <1>8 DEF NoTarget
    <2>2. PromptsInv'
      BY <1>1, <1>3, <2>1, PromptChanges
    <2>3. QED
      BY <1>1, <2>1, <2>2, DialogsUntouched
  <1>9. ASSUME NEW w \in Windows, NEW target \in {"Opened", "New"}, PickTarget(w, target)
        PROVE  DialogsInv'
    <2> DEFINE d == prompt[w].doc
    <2>1. /\ UNCHANGED <<open, home, warned, confirming>> /\ prompt[w] # NoPrompt
          /\ prompt' = [prompt EXCEPT ![w] = NoPrompt]
      BY <1>9 DEF PickTarget
    <2>2. PromptsInv'
      BY <1>1, <1>3, <2>1, PromptChanges
    <2>3. CASE UNCHANGED dialog
      BY <1>1, <2>1, <2>2, <2>3, DialogsUntouched
    <2>4. CASE PromptHolds(w) /\ prompt[w].closes /\ BeginCloseSave(d, target)
      <3>1. /\ d \in open /\ home[d] = w /\ Pending(w) = d /\ ~ prompt[w].outdated
        BY <2>4 DEF PromptHolds, Here
      <3>2. warned[d] = 0
        BY <1>1, <2>1, <2>4, <3>1 DEF PromptsInv, PromptFits
      <3>3. QED
        BY <2>1, <2>2, <2>4, <3>1, <3>2, CloseSaveDialogs
    <2>5. QED
      BY <1>9, <2>3, <2>4 DEF PickTarget
  <1>10. QED
    BY <1>4, <1>5, <1>6, <1>7, <1>8, <1>9

LEMMA MoveDialogs ==
    ASSUME DocumentsInv, DialogsInv, NEW d \in Docs, NEW w \in Windows, MoveTab(d, w)
    PROVE  DialogsInv'
  <1>1. /\ d # Pending(home[d]) /\ home' = [home EXCEPT ![d] = w]
        /\ UNCHANGED <<open, warned, dialog, prompt, confirming>>
    BY DEF MoveTab, Movable
  <1>2. home \in [Docs -> Windows] /\ dialog \in [Windows -> Dialogs]
    BY DEF DocumentsInv, SessionTypes, DialogsInv
  <1>3. ASSUME NEW v \in Windows
        PROVE  Suits(dialog[v], v)'
    <2>1. Suits(dialog[v], v) /\ dialog[v].pending # d /\ dialog[v].pending \in Docs \cup {NoDoc}
      BY <1>1, <1>2, NoDocAssumption DEF DialogsInv, Suits, Here, Pending, Dialogs
    <2>2. dialog[v].pending # NoDoc => home'[dialog[v].pending] = home[dialog[v].pending]
      BY <1>1, <1>2, <2>1
    <2>3. QED
      BY <1>1, <2>1, <2>2 DEF Suits, Here
  <1>4. PromptsInv'
    BY <1>1, PromptsUntouched DEF DialogsInv
  <1>5. QED
    BY <1>1, <1>3, <1>4 DEF DialogsInv

LEMMA ApplySaveDialogs ==
    ASSUME DocumentsInv, DialogsInv, NEW t \in tasks, ApplySave(t)
    PROVE  DialogsInv'
  <1> DEFINE d == t.doc
             x == dialog[home[d]]
             back == [x EXCEPT !.closeAfter = NoDoc, !.pending = d]
             again == [x EXCEPT !.pending = d]
  <1>1. /\ d \in Docs /\ d # NoDoc /\ home \in [Docs -> Windows] /\ warned \in [Docs -> Nat]
        /\ confirming \subseteq open /\ PromptsInv /\ UNCHANGED home
        /\ dialog \in [Windows -> Dialogs] /\ Suits(x, home[d]) /\ x \in Dialogs
        /\ t.kind = "Save" /\ t.generation \in Nat
    BY TaskKind, NoDocAssumption
    DEF DocumentsInv, SessionTypes, DialogsInv, ApplySave, SaveTasks
  <1>2. CASE UNCHANGED <<open, warned, dialog, confirming, prompt>>
    BY <1>1, <1>2, DialogsUntouched, PromptsUntouched
  <1>3. back \in Dialogs /\ back.pending = d /\ back.closeAfter = NoDoc
    BY <1>1 DEF Dialogs
  <1>4. ClosesAfterSave(d) => x.pending = d /\ again = x /\ warned[d] = 0
    BY <1>1 DEF ClosesAfterSave, Suits, Dialogs
  <1>5. dialog' = DialogBack(d) => dialog' = [dialog EXCEPT ![home[d]] = IF ClosesAfterSave(d) THEN back ELSE x]
    BY <1>1 DEF DialogBack
  <1> HIDE DEF back, again
  <1>6. ASSUME d \in open, dialog' = DialogBack(d), UNCHANGED <<open, confirming>>, PromptsInv',
               warned' \in [Docs -> Nat], \A e \in Docs \ {d} : warned'[e] = warned[e]
        PROVE  DialogsInv'
    <2>1. CASE ClosesAfterSave(d)
      BY <1>1, <1>3, <1>5, <1>6, <2>1, OneDialogChanges
    <2>2. CASE ~ ClosesAfterSave(d)
      <3>1. dialog' = [dialog EXCEPT ![home[d]] = x]
        BY <1>5, <1>6, <2>2
      <3>2. x.closeAfter # NoDoc => x.pending \in Docs \ {d} /\ warned[x.pending] = 0
        BY <1>1, <2>2 DEF ClosesAfterSave, Suits, Dialogs
      <3>3. /\ x.pending # NoDoc => x.pending \in open /\ home[x.pending] = home[d]
            /\ x.closeAfter \in {x.pending, NoDoc}
            /\ x.warning # 0 => x.pending # NoDoc
        BY <1>1 DEF Suits, Here
      <3> HIDE DEF x
      <3>4. QED
        BY <1>1, <1>6, <3>1, <3>2, <3>3, OneDialogChanges
    <2>3. QED
      BY <2>1, <2>2
  <1>7. CASE /\ d \in open /\ dialog' = DialogBack(d)
             /\ UNCHANGED <<open, warned, confirming, prompt>>
    BY <1>1, <1>6, <1>7, PromptsUntouched
  <1>8. CASE /\ d \in open /\ prompt' = Outdated(d)
             /\ warned' = [warned EXCEPT ![d] = IF t.result = "Warned" THEN t.generation ELSE 0]
             /\ \/ dialog' = DialogBack(d) /\ UNCHANGED <<open, confirming>>
                \/ /\ ClosesAfterSave(d) /\ t.result = "Saved"
                   /\ \E r : Close(d, again, r)
    <2>1. warned' \in [Docs -> Nat] /\ \A e \in Docs \ {d} : warned'[e] = warned[e]
      BY <1>1, <1>8
    <2>2. PromptsInv'
      BY <1>1, <1>8, <2>1, OutdatedFits
    <2>3. CASE dialog' = DialogBack(d) /\ UNCHANGED <<open, confirming>>
      BY <1>6, <1>8, <2>1, <2>2, <2>3
    <2>4. CASE ClosesAfterSave(d) /\ t.result = "Saved" /\ \E r : Close(d, again, r)
      <3>1. warned'[d] = 0
        BY <1>1, <1>8, <2>4
      <3>2. PICK r : Close(d, x, r)
        BY <1>4, <2>4
      <3>3. QED
        BY <1>1, <1>8, <2>1, <2>2, <3>1, <3>2, CloseDialogs
    <2>5. QED
      BY <1>8, <2>3, <2>4
  <1>9. QED
    BY <1>2, <1>7, <1>8 DEF ApplySave, HalfSaved, Completed, again

LEMMA DialogsNext == DocumentsInv /\ DialogsInv /\ [Next]_vars => DialogsInv'
  <1> SUFFICES ASSUME DocumentsInv, DialogsInv, [Next]_vars PROVE DialogsInv'
    OBVIOUS
  <1>1. confirming \subseteq open /\ PromptsInv
    BY DEF DialogsInv
  <1>2. ASSUME UNCHANGED <<open, home, warned, dialog, prompt>>, confirming' \subseteq confirming
        PROVE  DialogsInv'
    BY <1>1, <1>2, DialogsUntouched, PromptsUntouched
  <1>3. CASE UNCHANGED vars
    BY <1>2, <1>3 DEF vars, documents
  <1>4. ASSUME NEW t \in tasks, WriteFile(t) \/ StoreWork(t) \/ ApplyStoreResult(t)
        PROVE  DialogsInv'
    BY <1>2, <1>4 DEF WriteFile, StoreWork, ApplyStoreResult, documents
  <1>5. QED
    BY <1>3, <1>4, UserClosesDialogs, UserSavesDialogs, MoveDialogs, ApplySaveDialogs
    DEF Next, UserStep, SaveStep, StoreStep

LEMMA DialogsInit == Init => DialogsInv
  <1> SUFFICES ASSUME Init PROVE DialogsInv
    OBVIOUS
  <1>1. /\ warned = [d \in Docs |-> 0] /\ confirming = {}
        /\ dialog = [w \in Windows |-> NoDialog] /\ prompt = [w \in Windows |-> NoPrompt]
    BY DEF Init
  <1>2. QED
    BY <1>1 DEF DialogsInv, PromptsInv, PromptFits, Prompts, Dialogs, NoDialog, Suits

-----------------------------------------------------------------------------
\* The state has its shape and a tab shown as saved is saved: the saves counted,
\* every save that is waited for under way, a checkpoint for each prepared document,
\* dialogs of the window's own tabs (begin_save_request, apply_save_result,
\* request_close_document).
THEOREM TabsAreSaved == Spec => []DocInv
  <1>1. Spec => []DocumentsInv
    BY DocumentsInit, DocumentsNext, PTL DEF Spec
  <1>2. Init => ShapeInv
    BY BoundsInit, SavesInit, HeadsInit, DialogsInit DEF ShapeInv
  <1>3. DocumentsInv /\ ShapeInv /\ [Next]_vars => ShapeInv'
    BY BoundsNext, SavesNext, HeadsNext, DialogsNext DEF ShapeInv
  <1>4. Spec => []ShapeInv
    BY <1>1, <1>2, <1>3, PTL DEF Spec
  <1>5. DocumentsInv /\ ShapeInv => DocInv
    BY ShapeIsType, CleanIsSaved DEF DocInv
  <1>6. QED
    BY <1>1, <1>4, <1>5, PTL

=============================================================================
