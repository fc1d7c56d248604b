--------------------------- MODULE DocumentSession ---------------------------
(***************************************************************************)
(* Editing, saving and closing the tabs of the windows, and moving them    *)
(* between windows: DocumentWorkspace and its sessions                     *)
(* (document_workspace.rs, document_session.rs).                           *)
(*                                                                         *)
(* Everything here runs on the UI thread, one handler at a time, but for   *)
(* the background tasks: saves, and the recovery store's publications and  *)
(* confirmations.  A task works at some moment after it was started and    *)
(* its result is applied at a later one; the windows are free in between.  *)
(* Each window has a workspace with a dialog and a prompt of its own; the  *)
(* result of a task goes to the window that started it.                    *)
(*                                                                         *)
(* The recovery store is seen from one session: whether a checkpoint is    *)
(* published, for which revision, and whether the session still holds its  *)
(* authority.  RecoveryStore.tla has the store's own steps.                *)
(***************************************************************************)
EXTENDS Integers, Sequences

CONSTANTS
    Docs,          \* documents
    Windows,       \* windows, those without tabs included, which need not be open
    FirstWindow,   \* the window all documents are opened in
    Generated,     \* documents made by the program, which need Save As
    Recovered,     \* documents reopened at startup with recovered edits
    Moving,        \* bound: the documents whose tabs are moved between windows
    MaxRevision,   \* bound on each document's revisions
    MaxSaves,      \* bound on each document's save generations
    Faults         \* for each document, which of "SaveFails", "SaveWarns", "WriteFails", "SyncFails",
                   \* "LoadFails", "ReleaseFails", "PickerFails", "EncodeFails", "PictureFails" happen

ASSUME SessionAssumption ==
    /\ FirstWindow \in Windows /\ Moving \subseteq Docs
    /\ Generated \subseteq Docs /\ Recovered \subseteq Docs \ Generated
    /\ MaxRevision \in [Docs -> Nat] /\ MaxSaves \in [Docs -> Nat]
    /\ \A d \in Recovered : MaxRevision[d] > 0

VARIABLES
    open,        \* the sessions of all windows
    home,        \* the window each document is, or was, a tab of
    timeline,    \* each document's revision, undo and redo history, saved revision
    untitled,    \* save_as_required
    save,        \* save status and save generation of each document
    warned,      \* generation of its unacknowledged publication warning, or 0
    recovery,    \* recovery preparation of each document and its checkpoint
    file,        \* the revision in the file each session was opened from or last saved to
    tasks,       \* background tasks
    confirming,  \* recovery_confirmation_pending
    dialog,      \* of each window: pending close, its warning generation, close after save
    prompt,      \* of each window: pending_save_prompt
    discarded,   \* history: documents the user chose to discard
    abandoned    \* history: documents with a checkpoint the store failed to retire or replace;
                 \* it stays in the store, and is not followed any further

documents == <<open, home, timeline, untitled, save, warned, recovery>>
history == <<discarded, abandoned>>
vars == <<documents, file, tasks, confirming, dialog, prompt, history>>

NoDoc == "none"
NoFile == -1
NoHead == [revision |-> -1]
ASSUME NoDocAssumption == NoDoc \notin Docs

NoDialog == [pending |-> NoDoc, warning |-> 0, closeAfter |-> NoDoc]
NoPrompt == [doc |-> NoDoc]

Checkpoints == [revision : Nat, saved : Nat, saveAs : BOOLEAN]
Preparations == {"Pending", "Ready", "Failed", "Ambiguous", "RebaseFailed"}
TaskKinds == {"Save", "Prepare", "Confirm", "Repair", "Cleanup"}

Revision(d) == timeline[d].revision
Saved(d) == timeline[d].saved
Dirty(d) == d \in untitled \/ Revision(d) # Saved(d)
Saving(d) == save[d].status = "Saving"

\* What a checkpoint of the document would hold now.
Checkpoint(d) == [revision |-> Revision(d), saved |-> Saved(d), saveAs |-> d \in untitled]

Pending(w) == dialog[w].pending

\* The confirmation that the tab with the window's pending close shows.
Shown(w) ==
    IF Pending(w) \notin open THEN "None"
    ELSE IF warned[Pending(w)] # 0 THEN "Warning"
    ELSE IF Dirty(Pending(w)) THEN "Dirty"
    ELSE "None"

DocTypeOK ==
    /\ home \in [Docs -> Windows]
    /\ open \subseteq Docs /\ untitled \subseteq Docs /\ confirming \subseteq open
    /\ \A d \in Docs :
          /\ Revision(d) \in 0 .. MaxRevision[d] /\ Saved(d) \in 0 .. MaxRevision[d]
          /\ save[d].status \in {"Idle", "Saving", "Failed"} /\ save[d].generation \in 0 .. MaxSaves[d]
          /\ warned[d] \in 0 .. save[d].generation
          /\ recovery[d].preparation \in Preparations
          /\ recovery[d].head \in Checkpoints \cup {NoHead}
          /\ recovery[d].current => recovery[d].head # NoHead
          /\ recovery[d].preparation \in {"Pending", "Failed"} => recovery[d].head = NoHead
          /\ recovery[d].loose \subseteq Checkpoints
          /\ Saving(d) /\ d \in open <=> \E t \in tasks : t.kind = "Save" /\ t.doc = d /\ d \in open
    /\ \A t \in tasks : t.kind \in TaskKinds /\ t.result \in {"Waiting"} \cup
          {"Failed", "Saved", "Warned", "Durable", "Unconfirmed", "Conflict"}
    /\ \A w \in Windows :
          /\ Pending(w) \in {d \in open : home[d] = w} \cup {NoDoc}
          /\ dialog[w].closeAfter \in {Pending(w), NoDoc}
          /\ dialog[w].warning # 0 => Pending(w) # NoDoc
          /\ prompt[w].doc \in Docs \cup {NoDoc}

-----------------------------------------------------------------------------
(* Checkpoints.  Each operation is the set of what may become of it.       *)

\* begin_document_recovery_preparation: there is no checkpoint yet.
Unprepared == [preparation |-> "Pending", head |-> NoHead, current |-> FALSE, loose |-> {}]

PrepareTask(d) ==
    [kind |-> "Prepare", doc |-> d, window |-> home[d], head |-> Checkpoint(d), result |-> "Waiting"]

When(fault, d, outcomes) == IF fault \in Faults[d] THEN outcomes ELSE {}

\* replace_recovery_timeline_reconciled and what its caller makes of it.  With
\* "Unloaded" the new head is published but could not be synced, nor read again;
\* the next change is a "Conflict" then, which gives that checkpoint up.
ReplaceOutcomes(d, checkpoint) ==
    LET r == recovery[d]
        published == [r EXCEPT !.head = checkpoint]
    IN IF ~ r.current
       THEN {[outcome |-> "Conflict",
              recovery |-> [r EXCEPT !.preparation = "Failed", !.head = NoHead]]}
       ELSE {[outcome |-> "Durable", recovery |-> published]}
            \cup When("SyncFails", d, {[outcome |-> "Unconfirmed",
                                        recovery |-> [published EXCEPT !.preparation = "Ambiguous"]]})
            \cup When("WriteFails", d, {[outcome |-> "Unwritten", recovery |-> r]})
            \cup When("LoadFails", d, {[outcome |-> "Unloaded",
                                        recovery |-> [published EXCEPT !.current = FALSE]]})

\* rebase_recovery_after_save_reconciled, in commit_saved_recovery_rebase.
RebaseOutcomes(d, revision) ==
    LET r == recovery[d]
        failed == [r EXCEPT !.preparation = "RebaseFailed"]
        rebased == [r EXCEPT !.head = [revision |-> revision, saved |-> revision, saveAs |-> FALSE]]
    IN IF ~ r.current THEN {failed}
       ELSE {rebased}
            \cup When("SyncFails", d, {[rebased EXCEPT !.preparation = "Ambiguous"]})
            \cup When("WriteFails", d, {failed})
            \cup When("LoadFails", d, {[rebased EXCEPT !.preparation = "RebaseFailed", !.current = FALSE]})

\* clear_authority, for a session that holds one.
ClearOutcomes(d, r) ==
    IF r.current
    THEN {[r EXCEPT !.head = NoHead, !.current = FALSE]} \cup When("WriteFails", d, {r})
    ELSE {r}

Init ==
    /\ open = Docs
    /\ home = [d \in Docs |-> FirstWindow]
    /\ timeline = [d \in Docs |->
                      IF d \in Recovered
                      THEN [revision |-> 1, saved |-> 0, past |-> <<0>>, future |-> <<>>, next |-> 2]
                      ELSE [revision |-> 0, saved |-> 0, past |-> <<>>, future |-> <<>>, next |-> 1]]
    /\ untitled = Generated
    /\ save = [d \in Docs |-> [status |-> "Idle", generation |-> 0]]
    /\ warned = [d \in Docs |-> 0]
    /\ recovery = [d \in Docs |->
                      IF d \in Recovered
                      THEN [Unprepared EXCEPT !.preparation = "Ready", !.current = TRUE,
                                              !.head = Checkpoint(d)]
                      ELSE Unprepared]
    /\ file = [d \in Docs |-> IF d \in Generated THEN NoFile ELSE 0]
    /\ tasks = {PrepareTask(d) : d \in Docs \ Recovered}
    /\ confirming = {}
    /\ dialog = [w \in Windows |-> NoDialog]
    /\ prompt = [w \in Windows |-> NoPrompt]
    /\ discarded = {} /\ abandoned = {}

-----------------------------------------------------------------------------
(* Edits, undo and redo.                                                   *)

Edited(t) ==
    [t EXCEPT !.revision = t.next, !.next = @ + 1,
              !.past = Append(@, t.revision), !.future = <<>>]

Undone(t) ==
    [t EXCEPT !.revision = t.past[Len(t.past)], !.past = SubSeq(@, 1, Len(@) - 1),
              !.future = Append(@, t.revision)]

Redone(t) ==
    [t EXCEPT !.revision = t.future[Len(t.future)], !.future = SubSeq(@, 1, Len(@) - 1),
              !.past = Append(@, t.revision)]

\* A prompt answers for the document's generation: undo, redo and saves outdate it.
Outdated(d) ==
    [w \in Windows |-> IF prompt[w].doc = d THEN [prompt[w] EXCEPT !.outdated = TRUE] ELSE prompt[w]]

\* Bug: the save status is not looked at.
EditableWhileSaving(d) == d \in open /\ recovery[d].preparation = "Ready"

\* What an edit, an undo and a redo check before they start.
Editable(d) == d \in open /\ ~ Saving(d) /\ recovery[d].preparation = "Ready"

\* Bug: a change stays although its checkpoint could not be written.
KeepsUnwritten(outcome) == outcome \in {"Durable", "Unconfirmed", "Unwritten"}

Keeps(outcome) == outcome \in {"Durable", "Unconfirmed"}

\* commit_recovery_guarded_annotation_change: a change stays once its checkpoint
\* is there, durable or not yet confirmed, and is rolled back otherwise.
Commit(d, changed, outdates) ==
    /\ Editable(d)
    /\ \E new \in ReplaceOutcomes(d, [Checkpoint(d) EXCEPT !.revision = changed.revision]) :
          /\ recovery' = [recovery EXCEPT ![d] = new.recovery]
          /\ timeline' = IF Keeps(new.outcome) THEN [timeline EXCEPT ![d] = changed] ELSE timeline
          /\ prompt' = IF outdates /\ new.outcome = "Durable" THEN Outdated(d) ELSE prompt
          /\ abandoned' = IF new.outcome = "Unloaded" THEN abandoned \cup {d} ELSE abandoned
    /\ UNCHANGED <<open, home, untitled, save, warned, file, tasks, confirming, dialog, discarded>>

Edit(d) == timeline[d].next <= MaxRevision[d] /\ Commit(d, Edited(timeline[d]), FALSE)
Undo(d) == timeline[d].past # <<>> /\ Commit(d, Undone(timeline[d]), TRUE)
Redo(d) == timeline[d].future # <<>> /\ Commit(d, Redone(timeline[d]), TRUE)

-----------------------------------------------------------------------------
(* Closing a tab.                                                          *)

WithoutDialog(d, shown) ==
    [pending |-> IF shown.pending = d THEN NoDoc ELSE shown.pending,
     warning |-> IF shown.pending = d THEN 0 ELSE shown.warning,
     closeAfter |-> IF shown.closeAfter = d THEN NoDoc ELSE shown.closeAfter]

\* close_document, from a dialog and a recovery that the same handler may have
\* changed already: the session is released, then its checkpoint is retired.  A
\* session that cannot be released stays as it is.
Close(d, shown, r) ==
    \/ \E cleared \in ClearOutcomes(d, r) :
          /\ open' = open \ {d}
          /\ recovery' = [recovery EXCEPT ![d] = cleared]
          /\ dialog' = [dialog EXCEPT ![home[d]] = WithoutDialog(d, shown)]
          /\ confirming' = confirming \ {d}
          /\ abandoned' = IF r.current /\ cleared.current THEN abandoned \cup {d} ELSE abandoned
    \/ /\ "ReleaseFails" \in Faults[d]
       /\ recovery' = [recovery EXCEPT ![d] = r]
       /\ dialog' = [dialog EXCEPT ![home[d]] = shown]
       /\ UNCHANGED <<open, confirming, abandoned>>

Stay(d, shown) ==
    dialog' = [dialog EXCEPT ![home[d]] = shown] /\ UNCHANGED <<open, recovery, confirming, abandoned>>

\* Bug: a document that is being saved counts as clean.
AnswerCloseIgnoringSave(d, shown, warning) ==
    IF warning # 0 \/ (Dirty(d) /\ ~ Saving(d))
    THEN Stay(d, IF shown.pending # NoDoc THEN shown
                 ELSE [shown EXCEPT !.pending = d, !.warning = warning])
    ELSE Close(d, shown, recovery[d])

\* request_close_document: a dirty or warned document asks first, unless another
\* close is pending already.
AnswerClose(d, shown, warning) ==
    IF warning # 0 \/ Dirty(d)
    THEN Stay(d, IF shown.pending # NoDoc THEN shown
                 ELSE [shown EXCEPT !.pending = d, !.warning = warning])
    ELSE Close(d, shown, recovery[d])

RequestClose(d) ==
    /\ d \in open
    /\ AnswerClose(d, dialog[home[d]], warned[d])
    /\ UNCHANGED <<home, timeline, untitled, save, warned, file, tasks, prompt, discarded>>

\* resolve_dirty_close_cancel: "Cancel", or "Keep open" of the warning.
CancelClose(w) ==
    /\ Shown(w) = "Warning" \/ (Shown(w) = "Dirty" /\ ~ Saving(Pending(w)))
    /\ dialog' = [dialog EXCEPT ![w] = NoDialog]
    /\ UNCHANGED <<documents, file, tasks, confirming, prompt, history>>

\* resolve_dirty_close_discard
Discard(w) ==
    /\ Shown(w) = "Dirty" /\ ~ Saving(Pending(w))
    /\ Close(Pending(w), dialog[w], recovery[Pending(w)])
    /\ discarded' = discarded \cup (open \ open')
    /\ UNCHANGED <<home, timeline, untitled, save, warned, file, tasks, prompt>>

\* resolve_publication_warning_close: the warning the dialog was opened for is
\* acknowledged, then the close is requested again.
ContinueClose(w) ==
    /\ Shown(w) = "Warning"
    /\ LET d == Pending(w)
           left == IF warned[d] = dialog[w].warning THEN 0 ELSE warned[d]
       IN /\ warned' = [warned EXCEPT ![d] = left]
          /\ AnswerClose(d, [dialog[w] EXCEPT !.pending = NoDoc, !.warning = 0], left)
    /\ UNCHANGED <<home, timeline, untitled, save, file, tasks, prompt, discarded>>

-----------------------------------------------------------------------------
(* Saving.                                                                 *)

\* What begin_save_request checks; the path must not be lost for Save.
Savable(d, target) ==
    /\ d \in open /\ ~ Saving(d) /\ recovery[d].preparation = "Ready"
    /\ target = "Opened" => d \notin untitled

\* begin_save_request and dispatch_save_request.
Start(d, target) ==
    /\ save' = [save EXCEPT ![d] = [status |-> "Saving", generation |-> @.generation + 1]]
    /\ tasks' = tasks \cup {[kind |-> "Save", doc |-> d, target |-> target, revision |-> Revision(d),
                             generation |-> save[d].generation + 1, result |-> "Waiting"]}

\* record_document_save_failure, for a save that could not begin.
Refused(d) ==
    /\ save' = IF d \in open /\ ~ Saving(d)
               THEN [save EXCEPT ![d] = [status |-> "Failed", generation |-> @.generation + 1]]
               ELSE save
    /\ UNCHANGED tasks

\* Save, or Save As with a target: outside of a close.
BeginSave(d, target) == IF Savable(d, target) THEN Start(d, target) ELSE Refused(d)

\* begin_dirty_close_save(_as): what is refused here only leaves a message.
BeginCloseSave(d, target) ==
    IF Savable(d, target)
    THEN Start(d, target) /\ dialog' = [dialog EXCEPT ![home[d]].closeAfter = d]
    ELSE UNCHANGED <<save, tasks, dialog>>

Prompted(d, closes) == [doc |-> d, closes |-> closes, outdated |-> FALSE]

\* prompt_to_save_as_with_intent: one prompt at a time.
MayPrompt(d) == d \in open /\ prompt[home[d]] = NoPrompt /\ ~ Saving(d)
Prompt(d, closes) == prompt' = [prompt EXCEPT ![home[d]] = Prompted(d, closes)]

\* save_active_document, or Save As from the menu.
Save(d) ==
    /\ d \in open /\ save[d].generation < MaxSaves[d]
    /\ \/ /\ d \notin untitled /\ BeginSave(d, "Opened")
          /\ UNCHANGED prompt
       \/ /\ MayPrompt(d) /\ Prompt(d, FALSE)
          /\ UNCHANGED <<save, tasks>>
    /\ UNCHANGED <<open, home, timeline, untitled, warned, recovery, file, confirming, dialog, history>>

\* "Save" in the dialog: prompt_to_save_pending_close.
SaveAndClose(w) ==
    /\ Shown(w) = "Dirty" /\ ~ Saving(Pending(w))
    /\ save[Pending(w)].generation < MaxSaves[Pending(w)]
    /\ IF Pending(w) \in untitled
       THEN /\ MayPrompt(Pending(w)) /\ Prompt(Pending(w), TRUE)
            /\ UNCHANGED <<save, tasks, dialog>>
       ELSE BeginCloseSave(Pending(w), "Opened") /\ UNCHANGED prompt
    /\ UNCHANGED <<open, home, timeline, untitled, warned, recovery, file, confirming, history>>

Here(d, w) == d \in open /\ home[d] = w
PromptHolds(w) ==
    /\ Here(prompt[w].doc, w) /\ ~ prompt[w].outdated /\ ~ Saving(prompt[w].doc)
    /\ prompt[w].closes => Pending(w) = prompt[w].doc

\* A target is picked; naming the opened PDF itself saves it in place.
PickTarget(w, target) ==
    /\ prompt[w] # NoPrompt /\ save[prompt[w].doc].generation < MaxSaves[prompt[w].doc]
    /\ target = "Opened" => prompt[w].doc \notin untitled
    /\ prompt' = [prompt EXCEPT ![w] = NoPrompt]
    /\ IF ~ PromptHolds(w) THEN UNCHANGED <<save, tasks, dialog>>
       ELSE IF prompt[w].closes THEN BeginCloseSave(prompt[w].doc, target)
       ELSE BeginSave(prompt[w].doc, target) /\ UNCHANGED dialog
    /\ UNCHANGED <<open, home, timeline, untitled, warned, recovery, file, confirming, history>>

\* The picker is cancelled, or fails.
NoTarget(w) ==
    /\ prompt[w] # NoPrompt /\ prompt' = [prompt EXCEPT ![w] = NoPrompt]
    /\ \/ UNCHANGED <<save, tasks>>
       \/ LET d == prompt[w].doc IN
          /\ "PickerFails" \in Faults[d] /\ ~ prompt[w].closes /\ save[d].generation < MaxSaves[d]
          /\ Here(d, w) /\ Refused(d)
    /\ UNCHANGED <<open, home, timeline, untitled, warned, recovery, file, confirming, dialog, history>>

DismissFailure(d) ==
    /\ d \in open /\ save[d].status = "Failed"
    /\ save' = [save EXCEPT ![d].status = "Idle"]
    /\ UNCHANGED <<open, home, timeline, untitled, warned, recovery, file, tasks, confirming, dialog, prompt, history>>

\* The save task: it writes, validates and reopens a copy, and publishes it last.
\* Save As reads the PDF from the session's own checkpoint, of this revision.
SaveResults(t) ==
    When("SaveFails", t.doc, {"Failed"})
    \cup IF t.target = "New" /\ ~ (recovery[t.doc].current /\ recovery[t.doc].head.revision = t.revision)
         THEN {"Failed"}
         ELSE {"Saved"} \cup When("SaveWarns", t.doc, {"Warned"})

Finish(t, result) == tasks' = (tasks \ {t}) \cup {[t EXCEPT !.result = result]}

WriteFile(t) ==
    /\ t.kind = "Save" /\ t.result = "Waiting"
    /\ \E result \in SaveResults(t) :
          /\ Finish(t, result)
          /\ file' = IF t.target = "Opened" /\ result # "Failed"
                     THEN [file EXCEPT ![t.doc] = t.revision] ELSE file
    /\ UNCHANGED <<documents, confirming, dialog, prompt, history>>

Deliver(t) == tasks' = tasks \ {t}

ClosesAfterSave(d) == dialog[home[d]].closeAfter = d

\* Bug: a failed save takes the dialog away.
DialogGone(d) == IF ClosesAfterSave(d) THEN [dialog EXCEPT ![home[d]] = NoDialog] ELSE dialog

\* A failed save brings the dialog back.
DialogBack(d) ==
    IF ClosesAfterSave(d)
    THEN [dialog EXCEPT ![home[d]].closeAfter = NoDoc, ![home[d]].pending = d]
    ELSE dialog

\* What commit_saved_recovery_rebase checks first.
Accepted(t) == Revision(t.doc) = t.revision /\ recovery[t.doc].preparation = "Ready"

\* The timeline is marked saved and the save still ends as failed: the clean timeline
\* cannot be encoded for the checkpoint, or, after that, the picture of the page is
\* refused, which does not bring the dialog back: close_after_save stays.
HalfSaved(t) ==
    LET d == t.doc IN
    /\ timeline' = [timeline EXCEPT ![d].saved = t.revision]
    /\ file' = [file EXCEPT ![d] = t.revision]
    /\ save' = [save EXCEPT ![d].status = "Failed"]
    /\ \/ "EncodeFails" \in Faults[d] /\ dialog' = DialogBack(d) /\ UNCHANGED recovery
       \/ /\ "PictureFails" \in Faults[d] /\ UNCHANGED dialog
          /\ \E r \in RebaseOutcomes(d, t.revision) : recovery' = [recovery EXCEPT ![d] = r]
    /\ UNCHANGED <<open, untitled, warned, confirming, prompt, abandoned>>

\* The session takes over the saved PDF; the tab closes when its dialog asked for it
\* and nothing is left to repair.
Completed(t) ==
    LET d == t.doc IN
    /\ timeline' = [timeline EXCEPT ![d].saved = t.revision]
    /\ save' = [save EXCEPT ![d].status = "Idle"]
    /\ untitled' = untitled \ {d}
    /\ warned' = [warned EXCEPT ![d] = IF t.result = "Warned" THEN t.generation ELSE 0]
    /\ file' = [file EXCEPT ![d] = t.revision]
    /\ prompt' = Outdated(d)
    /\ \E r \in RebaseOutcomes(d, t.revision) :
          IF ClosesAfterSave(d) /\ t.result = "Saved" /\ r.preparation # "RebaseFailed"
          THEN Close(d, [dialog[home[d]] EXCEPT !.pending = d], r)
          ELSE /\ recovery' = [recovery EXCEPT ![d] = r]
               /\ dialog' = DialogBack(d)
               /\ UNCHANGED <<open, confirming, abandoned>>

\* apply_save_result: nothing for a session that is gone or has started another
\* save.  The saver always answers for the revision it was asked to save, so its
\* answer for another one (14447-14467) has no step.
ApplySave(t) ==
    /\ t.kind = "Save" /\ t.result # "Waiting"
    /\ Deliver(t)
    /\ LET d == t.doc IN
       IF d \notin open \/ save[d].generation # t.generation
       THEN UNCHANGED <<open, timeline, untitled, save, warned, recovery, file, confirming, dialog, prompt, abandoned>>
       ELSE IF t.result = "Failed" \/ ~ Accepted(t)
       THEN /\ save' = [save EXCEPT ![d].status = "Failed"]
            /\ dialog' = DialogBack(d)
            /\ UNCHANGED <<open, timeline, untitled, warned, recovery, file, confirming, prompt, abandoned>>
       ELSE HalfSaved(t) \/ Completed(t)
    /\ UNCHANGED <<home, discarded>>

-----------------------------------------------------------------------------
(* Recovery preparation, confirmation and repair.                          *)

Task(kind, d) == [kind |-> kind, doc |-> d, revision |-> Revision(d), result |-> "Waiting"]

\* retry_document_recovery_preparation
Retry(d) ==
    /\ d \in open
    /\ \/ /\ recovery[d].preparation = "Failed"
          /\ recovery' = [recovery EXCEPT ![d].preparation = "Pending"]
          /\ tasks' = tasks \cup {PrepareTask(d)}
          /\ UNCHANGED confirming
       \/ /\ recovery[d].preparation \in {"Ambiguous", "RebaseFailed"} /\ d \notin confirming
          /\ recovery[d].preparation = "RebaseFailed" => Revision(d) = Saved(d)
          /\ confirming' = confirming \cup {d}
          /\ tasks' = tasks \cup
                {Task(IF recovery[d].preparation = "Ambiguous" THEN "Confirm" ELSE "Repair", d)}
          /\ UNCHANGED recovery
    /\ UNCHANGED <<open, home, timeline, untitled, save, warned, file, dialog, prompt, history>>

\* stage_recovery_authority_reconciled, under an identifier no session knows yet.
Publish(t) ==
    \/ /\ "WriteFails" \in Faults[t.doc] /\ Finish(t, "Failed")
       /\ UNCHANGED recovery
    \/ /\ recovery' = [recovery EXCEPT ![t.doc].loose = @ \cup {t.head}]
       /\ \/ Finish(t, "Durable")
          \/ "SyncFails" \in Faults[t.doc] /\ Finish(t, "Unconfirmed")

ConfirmWork(t) ==
    /\ \/ recovery[t.doc].current /\ Finish(t, "Durable")
       \/ /\ ~ recovery[t.doc].current \/ Faults[t.doc] \cap {"WriteFails", "SyncFails"} # {}
          /\ Finish(t, "Failed")
    /\ UNCHANGED recovery

\* The session does not hold the repaired checkpoint's authority until it learns it.
RepairWork(t) ==
    IF ~ recovery[t.doc].current
    THEN Finish(t, "Conflict") /\ UNCHANGED recovery
    ELSE \E r \in RebaseOutcomes(t.doc, t.revision) :
            IF r.head = recovery[t.doc].head /\ r.preparation = "RebaseFailed" /\ r.current
            THEN Finish(t, "Failed") /\ UNCHANGED recovery
            ELSE /\ recovery' = [recovery EXCEPT ![t.doc].head = r.head, ![t.doc].current = FALSE]
                 /\ Finish(t, IF ~ r.current THEN "Failed"
                              ELSE IF r.preparation = "Ambiguous" THEN "Unconfirmed" ELSE "Durable")

\* The checkpoint of a closed document goes; a failure is not looked at.
CleanUp(t) ==
    /\ Deliver(t)
    /\ recovery' = [recovery EXCEPT ![t.doc].loose = @ \ {t.head}]
    /\ \/ UNCHANGED abandoned
       \/ "WriteFails" \in Faults[t.doc] /\ abandoned' = abandoned \cup {t.doc}

StoreWork(t) ==
    /\ t.result = "Waiting"
    /\ \/ t.kind = "Prepare" /\ Publish(t) /\ UNCHANGED abandoned
       \/ t.kind = "Confirm" /\ ConfirmWork(t) /\ UNCHANGED abandoned
       \/ t.kind = "Repair" /\ RepairWork(t) /\ UNCHANGED abandoned
       \/ t.kind = "Cleanup" /\ CleanUp(t)
    /\ UNCHANGED <<open, home, timeline, untitled, save, warned, file, confirming, dialog, prompt, discarded>>

\* What a session makes of its first checkpoint.
Prepared(r, t) ==
    IF t.result = "Failed" THEN [r EXCEPT !.preparation = "Failed"]
    ELSE [r EXCEPT !.preparation = IF t.result = "Durable" THEN "Ready" ELSE "Ambiguous",
                   !.head = t.head, !.current = TRUE, !.loose = @ \ {t.head}]

CleanUpTask(t) == [kind |-> "Cleanup", doc |-> t.doc, head |-> t.head, result |-> "Waiting"]

\* Bug: the result for a document that was closed is dropped.
ApplyPrepareDropping(t) ==
    /\ Deliver(t)
    /\ recovery' = IF Here(t.doc, t.window) THEN [recovery EXCEPT ![t.doc] = Prepared(@, t)] ELSE recovery

\* apply_recovery_preparation_result: the checkpoint of a document that is not in
\* the window any more, closed or moved, is cleared.
ApplyPrepare(t) ==
    IF Here(t.doc, t.window)
    THEN Deliver(t) /\ recovery' = [recovery EXCEPT ![t.doc] = Prepared(@, t)]
    ELSE /\ tasks' = (tasks \ {t}) \cup (IF t.result = "Failed" THEN {} ELSE {CleanUpTask(t)})
         /\ UNCHANGED recovery

\* apply_recovery_confirmation_result, apply_saved_recovery_rebase_retry_result:
\* a failure stays what it was; a closed document learns nothing.
ApplyConfirmation(t) ==
    /\ Deliver(t)
    /\ recovery' = IF t.doc \notin open \/ t.result \in {"Failed", "Conflict"} THEN recovery
                   ELSE [recovery EXCEPT ![t.doc].current = TRUE, ![t.doc].preparation =
                            IF t.result = "Durable" THEN "Ready" ELSE "Ambiguous"]

ApplyStoreResult(t) ==
    /\ t.result # "Waiting"
    /\ \/ t.kind = "Prepare" /\ ApplyPrepare(t) /\ UNCHANGED confirming
       \/ t.kind \in {"Confirm", "Repair"} /\ ApplyConfirmation(t) /\ confirming' = confirming \ {t.doc}
    /\ UNCHANGED <<open, home, timeline, untitled, save, warned, file, dialog, prompt, history>>

-----------------------------------------------------------------------------
(* Moving a tab.                                                           *)

\* can_transfer_document.  All documents here are loaded.
Movable(d) ==
    /\ d \in open /\ ~ Saving(d) /\ d \notin confirming
    /\ d \notin {Pending(home[d]), dialog[home[d]].closeAfter}

\* move_document_between_windows: the session changes its workspace, and nothing of
\* it but the workspace.  The last tab takes its window along.
MoveTab(d, w) ==
    /\ Movable(d) /\ d \in Moving /\ w # home[d]
    /\ home' = [home EXCEPT ![d] = w]
    /\ UNCHANGED <<open, timeline, untitled, save, warned, recovery, file, tasks, confirming, dialog,
                   prompt, history>>

-----------------------------------------------------------------------------

UserStep ==
    \/ \E d \in Docs : Edit(d) \/ Undo(d) \/ Redo(d) \/ RequestClose(d)
                       \/ Save(d) \/ DismissFailure(d) \/ Retry(d)
    \/ \E w \in Windows :
          \/ CancelClose(w) \/ Discard(w) \/ ContinueClose(w) \/ SaveAndClose(w) \/ NoTarget(w)
          \/ \E target \in {"Opened", "New"} : PickTarget(w, target)
          \/ \E d \in Docs : MoveTab(d, w)

SaveStep(d) == \E t \in tasks : t.doc = d /\ (WriteFile(t) \/ ApplySave(t))
StoreStep == \E t \in tasks : StoreWork(t) \/ ApplyStoreResult(t)

Next == UserStep \/ (\E d \in Docs : SaveStep(d)) \/ StoreStep

Spec == Init /\ [][Next]_vars

\* A save that was started runs, and the UI thread handles its result.
FairSpec == Spec /\ \A d \in Docs : WF_vars(SaveStep(d))

-----------------------------------------------------------------------------
(* What editing, saving and closing promise.                               *)

\* A tab without the unsaved mark can be closed or lost at no cost: the file it was
\* opened from or last saved to holds the revision it shows, through undo, redo and
\* every save that failed, failed half-way or was answered late.
CleanMeansSaved == \A d \in open : ~ Dirty(d) => file[d] = Revision(d)

\* The state has its shape, and a tab shown as saved is saved.
DocInv == DocTypeOK /\ CleanMeansSaved

\* "Closing a tab with unsaved changes asks" (CHANGELOG.md:474): edits are gone with
\* their tab only when the user chose Discard.
ClosedDocumentsAreSaved ==
    \A d \in Docs \ open : d \in discarded \/ (d \notin untitled /\ file[d] = Revision(d))

\* As long as the session holds its checkpoint's authority the checkpoint has the
\* revision on the screen, so that a crash loses no edit the user was shown, and
\* calls it saved or not as the session does, unless its save failed half-way.
MayBeHalfSaved(d) == Faults[d] \cap {"EncodeFails", "PictureFails"} # {} /\ Revision(d) = Saved(d)
CheckpointCoversEdits ==
    \A d \in open : recovery[d].current =>
        /\ recovery[d].head.revision = Revision(d)
        /\ recovery[d].preparation # "RebaseFailed" =>
              recovery[d].head = Checkpoint(d) \/ MayBeHalfSaved(d)

\* Once its background work is over, a closed document leaves no checkpoint with
\* unsaved edits behind, which the next start would bring back, unless the store failed.
NothingComesBack ==
    \A d \in Docs \ open :
        d \in abandoned \/ (\E t \in tasks : t.doc = d)
        \/ \A left \in ({recovery[d].head} \ {NoHead}) \cup recovery[d].loose :
              left.revision = left.saved /\ ~ left.saveAs

\* Save in the close dialog is answered, in each way that a save can end: the tab
\* closes, nothing unsaved is left of it, or its dialog is there and can be used again.
CloseSaveEnds ==
    \A d \in Docs : (ClosesAfterSave(d) /\ Saving(d)) ~>
        (d \notin open \/ ~ Dirty(d) \/ (Pending(home[d]) = d /\ ~ Saving(d)))

\* "Closing a tab with unsaved changes asks" (CHANGELOG.md:474): with an unsaved
\* document in the window, either a close would open its dialog or one is open.
ClosingAsks == \A d \in open : Dirty(d) => Pending(home[d]) = NoDoc \/ Shown(home[d]) # "None"

\* A tab moves to another window "keeping its edits, history and recovery checkpoint"
\* (document_workspace.rs:6456-6457): while a document waits for its first checkpoint,
\* which it can neither be edited nor saved without, the checkpoint is on its way.
PreparationGoesOn ==
    \A d \in open : recovery[d].preparation = "Pending" =>
        \E t \in tasks : t.kind = "Prepare" /\ t.doc = d

=============================================================================
