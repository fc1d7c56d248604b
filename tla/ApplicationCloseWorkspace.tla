---------------------- MODULE ApplicationCloseWorkspace ----------------------
(***************************************************************************)
(* The adapter of application_close_workspace.rs: it runs the requests of  *)
(* the close coordinator against the documents of one window, and turns a  *)
(* failed close into an alert sheet with "Try again" and "Keep open".      *)
(*                                                                         *)
(* The coordinator's commands are drained in one call, so nothing else     *)
(* happens while one is due.  Between the calls the rest of the window is  *)
(* free: background saves end, files arrive from Finder or another window, *)
(* and documents can be edited whenever no close dialog covers them (the   *)
(* alert sheet does not).                                                  *)
(*                                                                         *)
(* Revision r of a session is written r + 1 here, since 0 says "clean".    *)
(***************************************************************************)
EXTENDS ApplicationClose, SequencesExt

CONSTANTS
    Generated,     \* documents with no file yet, which need Save As
    Recovered,     \* documents that load with recovered, unsaved edits
    OpenAtStart,   \* the documents of the window, in tab order
    MaxRevision    \* bound on the revisions of a document

ASSUME WorkspaceAssumption ==
    /\ Generated \subseteq Documents /\ Recovered \subseteq Documents
    /\ OpenAtStart \in Seq(Documents)
    /\ \A i, j \in DOMAIN OpenAtStart : OpenAtStart[i] = OpenAtStart[j] => i = j
    /\ MaxRevision \in Nat \ {0}
    /\ Recovered # {} => MaxRevision > 1

VARIABLES
    tabs,       \* open documents
    loading,    \* open documents whose file is still being opened
    revision,   \* current annotation revision of each document
    saved,      \* the revision its file holds
    untitled,   \* documents with save_as_required
    warning,    \* saved revision whose durability warning is unacknowledged, or 0
    writing,    \* background saves
    alert,      \* the recovery sheet
    following,  \* resume_recovery is about to choose Save All
    resumed     \* transactions taken up again by retry_session_checkpoint

documentVars == <<loading, revision, saved, untitled>>
workspaceVars == <<tabs, documentVars, warning, writing, alert, following, resumed>>

NoOne == [tx |-> 0]     \* the owner of an ordinary save

Open == {tabs[i] : i \in DOMAIN tabs}
BeingSaved(d) == \E w \in writing : w.doc = d
DirtyDoc(d) == d \in untitled \/ revision[d] # saved[d]
DirtyRevision(d) == IF DirtyDoc(d) THEN revision[d] ELSE Clean
Without(d) == RemoveAt(tabs, CHOOSE i \in DOMAIN tabs : tabs[i] = d)

CapturedSnapshot ==
    [i \in DOMAIN tabs |-> [id |-> tabs[i], dirty |-> DirtyRevision(tabs[i]),
                            saveAs |-> tabs[i] \in untitled]]

AlertKinds == {"SaveFailed", "PublishedWithWarning", "SessionCheckpointFailed", "ReleaseFailed"}
Alert(kind, tx, doc, warned) == [kind |-> kind, tx |-> tx, doc |-> doc, warned |-> warned]

\* A confirmed close removes the window at once.
WindowOpen == lastCompletion = None

\* A command, or a result that the same call still has to hand over.
CommandDue ==
    \/ following
    \/ state.phase \in {"Checkpointing", "Releasing"}
    \/ /\ state.phase = "Saving"
       /\ \/ Answered(state.pending)
          \/ /\ state.pending.kind = "Save"
             /\ \A w \in writing : w.by # state.pending

Settled == WindowOpen /\ ~ CommandDue

\* Bug: the close dialog does not keep the document from being edited.
EditableBehindDialog(d) == Settled /\ d \in Open \ loading /\ ~ BeingSaved(d)

\* The close dialog is modal; a session that is saving refuses edits.
Editable(d) ==
    /\ Settled /\ state = Idle
    /\ d \in Open \ loading /\ ~ BeingSaved(d)

WorkspaceTypeOK ==
    /\ TypeOK
    /\ tabs \in Seq(Documents)
    /\ loading \subseteq Documents /\ untitled \subseteq Documents
    /\ revision \in [Documents -> 1 .. MaxRevision]
    /\ saved \in [Documents -> 1 .. MaxRevision]
    /\ warning \in [Documents -> 0 .. MaxRevision]
    /\ writing \subseteq [doc : Documents, rev : 1 .. MaxRevision, by : {NoOne} \cup Tokens]
    /\ alert = None \/ alert \in [kind : AlertKinds, tx : Nat,
                                  doc : Documents \cup {0}, warned : 0 .. MaxRevision]
    /\ following \in BOOLEAN
    /\ resumed \subseteq Nat

WorkspaceInit ==
    /\ Init
    /\ tabs = OpenAtStart
    /\ loading = Open
    /\ revision = [d \in Documents |-> 1]
    /\ saved = [d \in Documents |-> 1]
    /\ untitled = Generated
    /\ warning = [d \in Documents |-> 0]
    /\ writing = {}
    /\ alert = None
    /\ following = FALSE
    /\ resumed = {}

-----------------------------------------------------------------------------
(* The rest of the window.                                                 *)

Edit(d) ==
    /\ Editable(d)
    /\ revision[d] < MaxRevision
    /\ revision' = [revision EXCEPT ![d] = @ + 1]
    /\ UNCHANGED <<vars, tabs, loading, saved, untitled, warning, writing,
                   alert, following, resumed>>

\* begin_save_request for the Save command; an untitled document has had its
\* file chosen.
BeginSave(d) ==
    /\ Editable(d)
    /\ DirtyDoc(d)
    /\ writing' = writing \cup {[doc |-> d, rev |-> revision[d], by |-> NoOne]}
    /\ UNCHANGED <<vars, tabs, documentVars, warning, alert, following, resumed>>

\* apply_save_result; a document closed meanwhile is only dropped.
ApplySave(w, outcome) ==
    /\ writing' = writing \ {w}
    /\ IF outcome = "SaveFailed" \/ w.doc \notin Open
       THEN UNCHANGED <<saved, untitled, warning>>
       ELSE /\ saved' = [saved EXCEPT ![w.doc] = w.rev]
            /\ untitled' = untitled \ {w.doc}
            /\ warning' = [warning EXCEPT ![w.doc] =
                              IF outcome = "SavedWithWarning" THEN w.rev ELSE 0]

OrdinarySaveEnds(w, outcome) ==
    /\ Settled
    /\ w \in writing /\ w.by = NoOne
    /\ outcome \in Outcomes("Save")
    /\ ApplySave(w, outcome)
    /\ UNCHANGED <<vars, tabs, loading, revision, alert, following, resumed>>

\* Opened from Finder or restored: a tab at once, its pages later.  Nothing
\* asks whether the window is closing.  A document joins at most once, unedited.
OpenFile(d) ==
    /\ Settled
    /\ d \notin Open /\ saved[d] = 1 /\ revision[d] = 1
    /\ tabs' = Append(tabs, d)
    /\ loading' = loading \cup {d}
    /\ UNCHANGED <<vars, revision, saved, untitled, warning, writing, alert, following, resumed>>

\* apply_open_result; startup recovery restores the unsaved timeline here.
FileLoaded(d) ==
    /\ Settled
    /\ d \in loading /\ d \in Open
    /\ loading' = loading \ {d}
    /\ revision' = [revision EXCEPT ![d] = IF d \in Recovered THEN 2 ELSE 1]
    /\ UNCHANGED <<vars, tabs, saved, untitled, warning, writing, alert, following, resumed>>

\* attach_document: a tab with unsaved edits comes from another window.
AttachDocument(d) ==
    /\ Settled
    /\ d \notin Open /\ saved[d] = 1 /\ revision[d] = 1 /\ MaxRevision > 1
    /\ tabs' = Append(tabs, d)
    /\ revision' = [revision EXCEPT ![d] = 2]
    /\ UNCHANGED <<vars, loading, saved, untitled, warning, writing, alert, following, resumed>>

-----------------------------------------------------------------------------
(* Starting a close.                                                       *)

WarnedPositions(warned) == {i \in DOMAIN tabs : warned[tabs[i]] # 0}
FirstWarned(warned) ==
    tabs[CHOOSE i \in WarnedPositions(warned) : \A j \in WarnedPositions(warned) : i <= j]

\* request_close when no dialog is up: an unacknowledged warning stops it
\* before the coordinator is asked.
StartClose(warned) ==
    /\ warning' = warned
    /\ \/ /\ WarnedPositions(warned) # {}
          /\ LET d == FirstWarned(warned)
             IN  alert' = Alert("PublishedWithWarning", 0, d, warned[d])
          /\ UNCHANGED vars
       \/ /\ WarnedPositions(warned) = {}
          /\ RequestClose(CapturedSnapshot)
          /\ alert' = None

\* A second request while the dialog is up is rejected as stale.
RequestWindowClose ==
    /\ Settled /\ state = Idle
    /\ StartClose(warning)
    /\ UNCHANGED <<tabs, documentVars, writing, following, resumed>>

ChooseInDialog ==
    /\ Settled
    /\ Choose
    /\ UNCHANGED workspaceVars

DismissRecovery ==
    /\ Settled /\ alert # None
    /\ alert' = None
    /\ UNCHANGED <<vars, tabs, documentVars, warning, writing, following, resumed>>

\* Bug: the sheet stays up while its transaction goes on.
ResumeCheckpointKeepingAlert ==
    /\ Settled
    /\ alert # None /\ alert.kind = "SessionCheckpointFailed"
    /\ RetrySessionCheckpoint(alert.tx)
    /\ resumed' = resumed \cup {alert.tx}
    /\ UNCHANGED <<tabs, documentVars, warning, writing, alert, following>>

ResumeCheckpoint ==
    /\ Settled
    /\ alert # None /\ alert.kind = "SessionCheckpointFailed"
    /\ RetrySessionCheckpoint(alert.tx)
    /\ alert' = None
    /\ resumed' = resumed \cup {alert.tx}
    /\ UNCHANGED <<tabs, documentVars, warning, writing, following>>

\* The other sheets start over; all but a failed release go on to Save All
\* when that asks for a decision.
ResumeClose ==
    /\ Settled /\ state = Idle
    /\ alert # None /\ alert.kind # "SessionCheckpointFailed"
    /\ LET acknowledged == alert.kind = "PublishedWithWarning"
                             /\ alert.doc \in Open /\ warning[alert.doc] = alert.warned
       IN  StartClose(IF acknowledged THEN [warning EXCEPT ![alert.doc] = 0] ELSE warning)
    /\ following' = (alert.kind # "ReleaseFailed" /\ state'.phase = "AwaitingDecision")
    /\ UNCHANGED <<tabs, documentVars, writing, resumed>>

FollowWithSaveAll ==
    /\ following
    /\ ChooseSaveAll
    /\ following' = FALSE
    /\ UNCHANGED <<tabs, documentVars, warning, writing, alert, resumed>>

-----------------------------------------------------------------------------
(* Running the coordinator's commands.                                     *)

PendingSave ==
    /\ state.phase = "Saving" /\ state.pending.kind = "Save"
    /\ ~ Answered(state.pending)
    /\ \A w \in writing : w.by # state.pending

\* Bug: an ordinary save of the same document may still be running.
StartPendingSaveBesideAnother ==
    /\ PendingSave
    /\ LET d == state.pending.doc
       IN  /\ d \in Open \ loading /\ DirtyRevision(d) = state.pending.rev
           /\ writing' = writing \cup {[doc |-> d, rev |-> revision[d], by |-> state.pending]}
    /\ UNCHANGED <<vars, tabs, documentVars, warning, alert, following, resumed>>

\* prepare_save; dispatch_pending_save takes it to the background at once.
StartPendingSave ==
    /\ PendingSave
    /\ LET d == state.pending.doc
       IN  /\ d \in Open \ loading /\ DirtyRevision(d) = state.pending.rev /\ ~ BeingSaved(d)
           /\ writing' = writing \cup {[doc |-> d, rev |-> revision[d], by |-> state.pending]}
    /\ UNCHANGED <<vars, tabs, documentVars, warning, alert, following, resumed>>

\* The document changed since the snapshot, or begin_save refuses it.
RejectPendingSave ==
    /\ PendingSave
    /\ Answer(state.pending, "SaveFailed")
    /\ UNCHANGED workspaceVars

\* Bug: the save is reported as it was written, whatever the session says now.
WrittenOutcomeUnchecked(w, outcome) == IF outcome = "SaveFailed" THEN "Saved" ELSE outcome

\* apply_pending_save_result: saved only if the session is clean afterwards.
WrittenOutcome(w, outcome) ==
    IF outcome = "SaveFailed" \/ w.doc \notin Open \/ revision[w.doc] # w.rev
    THEN "SaveFailed" ELSE outcome

PendingSaveEnds(w, outcome) ==
    /\ WindowOpen /\ w \in writing /\ w.by # NoOne
    /\ outcome \in Outcomes("Save")
    /\ ApplySave(w, outcome)
    /\ Answer(w.by, WrittenOutcome(w, outcome))
    /\ UNCHANGED <<tabs, loading, revision, alert, following, resumed>>

\* The one native picker.
PickerCloses(outcome) ==
    /\ WindowOpen /\ state.phase = "Saving" /\ state.pending.kind = "SaveAs"
    /\ Answer(state.pending, outcome)
    /\ UNCHANGED workspaceVars

\* handle_result, and the sheet that a reported failure or warning puts up.
ApplySaveTransition(a) ==
    /\ \/ HandleSaveAsSelected(a) /\ UNCHANGED alert
       \/ HandleSaved(a) /\ UNCHANGED alert
       \/ /\ HandleSaveInterrupted(a)
          /\ alert' = CASE a.outcome = "SaveAsCancelled"  -> alert
                        [] a.outcome = "SavedWithWarning" ->
                              Alert("PublishedWithWarning", a.token.tx, a.token.doc,
                                    warning[a.token.doc])
                        [] OTHER -> Alert("SaveFailed", a.token.tx, a.token.doc, 0)
    /\ UNCHANGED <<tabs, documentVars, warning, writing, following, resumed>>

PublishSessionCheckpoint(ok) ==
    /\ PublishCheckpoint(ok)
    /\ UNCHANGED workspaceVars

ApplyCheckpointTransition(c) ==
    /\ c.tx # publishing
    /\ \/ HandleCheckpointPublished(c) /\ UNCHANGED alert
       \/ HandleCheckpointFailed(c) /\ alert' = Alert("SessionCheckpointFailed", c.tx, 0, 0)
    /\ UNCHANGED <<tabs, documentVars, warning, writing, following, resumed>>

\* release_document: close_document_checked as it stands now, without asking
\* again whether the document is dirty.
ReleaseDocument(token) ==
    /\ state.phase = "Releasing" /\ IsFirst(token, state.pending)
    /\ \/ /\ token.doc \in Open
          /\ Answer(token, "Released")
          /\ tabs' = Without(token.doc)
          /\ loading' = loading \ {token.doc}
       \/ Answer(token, "ReleaseFailed") /\ UNCHANGED <<tabs, loading>>
    /\ UNCHANGED <<revision, saved, untitled, warning, writing, alert, following, resumed>>

ApplyReleaseTransition(a) ==
    /\ \/ HandleReleased(a) /\ UNCHANGED alert
       \/ /\ HandleReleaseFailed(a)
          /\ alert' = Alert("ReleaseFailed", a.token.tx, a.token.doc, 0)
    /\ UNCHANGED <<tabs, documentVars, warning, writing, following, resumed>>

WorkspaceNext ==
    \/ \E d \in Documents :
          Edit(d) \/ BeginSave(d) \/ OpenFile(d) \/ FileLoaded(d) \/ AttachDocument(d)
    \/ \E w \in writing : \E outcome \in Outcomes("Save") :
          OrdinarySaveEnds(w, outcome) \/ PendingSaveEnds(w, outcome)
    \/ RequestWindowClose \/ ChooseInDialog
    \/ DismissRecovery \/ ResumeCheckpoint \/ ResumeClose \/ FollowWithSaveAll
    \/ StartPendingSave \/ RejectPendingSave
    \/ \E outcome \in Outcomes("SaveAs") : PickerCloses(outcome)
    \/ \E a \in answers : ApplySaveTransition(a) \/ ApplyReleaseTransition(a)
    \/ \E ok \in BOOLEAN : PublishSessionCheckpoint(ok)
    \/ \E c \in checkpoints : ApplyCheckpointTransition(c)
    \/ \E token \in issued : ReleaseDocument(token)

allVars == <<vars, workspaceVars>>

WorkspaceSpec == WorkspaceInit /\ [][WorkspaceNext]_allVars

-----------------------------------------------------------------------------
(* What the adapter promises.                                              *)

\* The user chose Discard All for exactly the revision d has now.
DiscardDecided(d) ==
    /\ state.kind = "DiscardedAll"
    /\ \E i \in DOMAIN state.snapshot :
          state.snapshot[i].id = d /\ state.snapshot[i].dirty = DirtyRevision(d)

\* A document with unsaved edits is closed only by a Discard All that was asked
\* for this very revision.  release_document does not look again, so this rests
\* on every way the edits could have changed since the snapshot.
DecisionCoversEdits ==
    [][\A d \in Open \ Open' : DirtyDoc(d) => DiscardDecided(d)]_allVars

\* The same for every transaction that did not go through "Try again" after a
\* failed checkpoint, and for documents that loaded without recovered edits.
FirstAttemptCoversEdits ==
    [][\A d \in Open \ Open' :
          DirtyDoc(d) /\ d \notin Recovered /\ state.tx \notin resumed
             => DiscardDecided(d)]_allVars

\* When the transaction reports "saved all", the file of every document that
\* was dirty holds the revision the dialog asked about (or a later one).
SavedAllIsOnDisk ==
    [][WindowOpen /\ ~ WindowOpen' /\ lastCompletion'.kind = "SavedAll" =>
          \A i \in DirtyPositions(state.snapshot) :
             saved[state.snapshot[i].id] >= state.snapshot[i].dirty]_allVars

\* "Try again" on a failed checkpoint always has its transaction to resume, and
\* a sheet is up only while the coordinator is at rest.
AlertCanBeResumed ==
    alert # None =>
        /\ state = Idle /\ ~ following
        /\ alert.kind = "SessionCheckpointFailed" =>
              recoverable # None /\ recoverable.tx = alert.tx

\* No two background saves of one document overlap, whoever asked for them.
OneWriterPerDocument == \A v, w \in writing : v.doc = w.doc => v = w

\* The state has its shape and, whoever starts saves, one document is being
\* written at most once at a time.
WorkspaceInv == WorkspaceTypeOK /\ OneWriterPerDocument

=============================================================================
