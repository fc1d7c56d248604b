# Butter Paper: TLA+ verification project

Butter Paper is a desktop PDF editor written in Rust on GPUI. This directory
holds TLA+ models of the parts of it that keep or lose a user's work: editing,
saving and closing documents, closing windows and quitting, the crash-recovery
store, the session files, what a document's pages show while its PDF worker is
told of edits, asked for pages, stops and is replaced, the gate before that
worker, and the transfer of a signature from a phone. TLC checks them
on small instances; TLAPS proves the theorems of eight proof modules for every value
of the constants.

Paths below are relative to `crates/butter-paper/src/` of the repository.

## Running it

    tlc -workers 2 -config MCRenderGate.cfg MCRenderGate     # a TLC run
    tlapm RenderGate_proofs.tla                              # the proofs of a module

`PROJECT.json` lists every run with its configuration, the lines each
definition models (`map`), for each property a plausible bug that breaks it
(`mutants`; the buggy variants stand in the modules, above what they replace,
and are commented `Bug:`), the hazards, the findings and the theorems.

## The system and its parts

| Part | Source | State | Operations |
|---|---|---|---|
| Document session | `document_session.rs`, `document_workspace.rs` | revision timeline with undo and redo, saved revision, save status and generation, publication warning, recovery preparation | edit, undo, redo, save, Save As, close, retry of recovery |
| Document workspace (one per window) | `document_workspace.rs` | its sessions, the pending close, the tab to close after a save, the one pending save prompt, recovery confirmations under way | close dialogs, picker results, results of background tasks, moving a tab away |
| Recovery store | `document_recovery_store.rs` | index, heads, objects, staging directory, two leases | publish, replace, rebase, confirm, clear, load, sweep at opening |
| Application-close coordinator | `application_close.rs` | one close transaction: phase, frozen snapshot, pending request, a checkpoint that may be retried | request, choose, results, retry |
| Application-close adapter | `application_close_workspace.rs` | the coordinator, save tasks, the recovery sheet | captures snapshots, executes the coordinator's commands, resumes sheets |
| Window sessions | `document_windows.rs`, `bin/butter-paper.rs` | open windows, whether a Quit is on, who closed during it, the combined snapshot | open, close, quit, cancel |
| Session files | `session_manifest.rs` | restart manifest, dirty-session marker, whether live writes are stopped | replace, debounced marker writes |
| Render gate | `render_gate.rs` | busy flag, heap of waiting tickets, condition variable | enter, drop of a turn |
| Document viewer | `document_viewer.rs`, `viewer.rs`, `document_workspace_page_text.rs` | plan, queue, active jobs, caches, kept tiles, the edits the worker was told | plan, claim, finish, refresh, send edits |
| Page requests | `document_workspace.rs`, `document_workspace_pages.rs`, `document_session.rs` | generation, shown and requested page, pending rotation and its queue, recovery under way | go to a page, turn, rearrange, undo, redo, Retry |
| PDF worker | `pdf_worker.rs`, `document_resource.rs` | the process, the edits and page lists it draws; jobs, cancellation tokens, surfaces | draws, takes edits, stops; its job registry is not modelled (the program never cancels a job) |
| PDF publication | `pdf_file_authority.rs` | temporary and target file | outcomes only, in the save task |
| Updates | `native_updater.rs`, `native_update_policy.rs` | staged package, handover script | not modelled yet |
| Phone signature | `phone_signature.rs`, `services/signature-relay` (`index.ts`, `app.js`) | relay session, payload, counters, alarm; the desktop's loop and panel; the phone's drawing and its envelope | create, put, get, acknowledge, delete, expire; poll, cancel; draw, send |
| Recents, signatures, templates | `recent_documents.rs`, `recent_signature_store.rs`, `template_library.rs` | bounded lists in files | not modelled |
| PDF engine, tools, forms, export, UI | the other files | document data and pixels | not modelled: no orders or failures a state machine would tell apart |

How they interact. All UI state belongs to one thread, which runs a handler
to its end. Saves, publications and confirmations are background tasks: they
read what they were given when they started, work at some later moment, and
their result is applied at a later one still, when the tab may be closed, saved
again or edited. An edit writes a checkpoint to the recovery store before it is
kept, on the UI thread; opening a document publishes its first checkpoint in
the background. Closing a window freezes a snapshot of its documents and runs a
transaction over it; several windows share one coordinator, one restart
manifest and one marker during a Quit. The worker threads of a document meet
only at its render gate. Tiles, pages and edit updates are asked of the worker in
the background and applied in callbacks, which compare an epoch (which worker) or
a generation (which request) with the session's. The phone, the relay and the
desktop share nothing but requests that may be lost, late or repeated.

What is hard here: results that come late or for the wrong request; a frozen
snapshot against documents that live on; three stores of truth (the PDF, the
recovery checkpoint, the session files) that must not disagree in the wrong
direction after a failure; renames whose directory was not synced; a
condition variable with priorities; pictures drawn for contents, an order or a
turn that changed while they were drawn; a protocol of three parties none of
which can rely on an answer. `PROJECT.json` lists each hazard at its line
with the properties that cover it.

## Modules

| Module | Models | Composes |
|---|---|---|
| `CloseContract` | what a close promises, with no coordinator or tokens | implemented by `ApplicationClose` |
| `ApplicationClose` | the coordinator and an adapter that answers late, repeatedly or for old transactions | instance of `CloseContract` |
| `ApplicationCloseWorkspace` | the real adapter over live documents: snapshot, saves, sheets, arriving tabs | extends `ApplicationClose` |
| `WindowSession` | several windows, Quit, the manifest and the marker | |
| `DocumentSession` | editing, saving, closing tabs and recovery preparation, and tabs moved between windows | the store's outcomes, as `RecoveryStore` explains them |
| `RecoveryStore` | the store write by write, with crashes and power losses | |
| `RenderGate` | the priority gate | |
| `PageTiles` | the view's tiles, the tasks that draw them, the edits sent to the worker, its end and replacement | |
| `PageRequests` | navigation, rotation, undo, rearranging and the reopening of a stopped worker | in detail what `PageTiles` has as one step |
| `SignatureTransfer` | desktop, relay and phone over an unreliable network | |
| `ApplicationClose_proofs` | theorems about the coordinator, the contract and the window | extends `ApplicationCloseWorkspace` |
| `WindowSession_proofs`, `DocumentSession_proofs`, `RecoveryStore_proofs`, `RenderGate_proofs`, `PageTiles_proofs`, `PageRequests_proofs`, `SignatureTransfer_proofs` | theorems | extend the module in their name |
| `MC*` | finite instances for TLC | extend the module in their name |

### ApplicationClose

`state` is `CoordinatorState` (idle, awaiting the decision, saving, publishing
the checkpoint, releasing); `recoverable` is the checkpoint that may be tried
again. `RequestClose`, the three choices, `HandleResult`, `HandleCheckpoint` and
`RetrySessionCheckpoint` are the public functions with every early return; a
result the code calls stale is a stuttering step. `issued` and `answers` make
the adapter the worst one the contract allows. Tokens carry transaction,
sequence, document, revision and kind, as in the code.

`CloseContract` says the same of documents and the manifest alone: a close is
asked for, decided, its dirty documents are saved or discarded, the manifest is
published, documents are released, the close is confirmed; it may be given up at
any time, and suspended until its manifest is published. The mapping
(`ApplicationClose!Contract`) reads the close under way off the state or the
recoverable checkpoint, and what is saved, published and released off the
adapter's answers, so an answer that reaches the wrong request or none shows as
a step the contract does not have.

### ApplicationCloseWorkspace

Adds the documents of the window (tab order, current and saved revision,
untitled, loading), the saves being written, the recovery sheet (`alert`) and
what follows a resumed sheet. `apply_transition`'s command loop is the sequence of
"due" actions that run before anything else. `release_document` closes a
document without looking at it again, as the code does. Left out: `request_close` first commits
an open text editor and does not start when that is refused (386-392).

### WindowSession

A window is reduced to the phases of its close that other windows can notice.
The coordinator's four fields are variables; `asked` is what is left of the
Quit handler's loop, which is one uninterrupted handler.

The marker has three parts. `Look` is `schedule_recovery_marker_checkpoint`: each window
keeps what it has seen last (`observed`) and delays a write of what is unsaved in
all windows (`waiting`), unless a window is opening documents, or the snapshot is empty while
a window shows the warning of an earlier marker (`HeldBack`), or it has seen the same
before. 250 ms later the write belongs to a background thread (`StartWrite`,
`writer`), and the threads' writes land in any order, or fail, which is only
reported (`LandWrite`); after `stopped` they do nothing. `newest` is a history: who has the
write scheduled last, or what became of it. `Notify` is any other change of a
workspace, on which a window looks again.

A window may stop opening documents or never (Observations). Left out: a failure while the
clean close removes the marker.

### DocumentSession

A document has its timeline, its save status and generation, its warning, and
its recovery: the preparation state, the published checkpoint `head`, whether the
session still holds that checkpoint's authority (`current`), and checkpoints
published for it that no session has taken over (`loose`). A tab is in the window
`home` names; `MoveTab` changes that and nothing else, while tasks of the old
window may be under way, whose results go to the old window. An operation of
the store is the set of its outcomes: durable, published but unconfirmed, not
written, or published and then neither synced nor read again. `tasks` holds
background work, done or not; `dialog` is each window's pending close and
the tab to close after a save; `prompt` its Save As picker. `file` is the
revision in the PDF the session was opened from or last saved to, and belongs to no
variable of the code: the properties compare with it.

A save ends in one of these ways (`ApplySave`): its session is gone or has started
another; it failed, or what it was given is not what the session shows any more
(`Accepted`); it completes (`Completed`); or it fails after the timeline was marked saved
(`HalfSaved`), because the clean timeline cannot be encoded, or because the picture
of the page is refused, an end at which the code does not bring the close dialog
back. `RasterSurface::new` has checked that picture already, so that this last end
is not known to happen; the properties hold with it.

Left out: `Unbound` preparation (no store is configured only in tests), pending
page rotations and the clearing of history when pages are rearranged (both only
forbid steps), the limit on the history, and three ends of a save no code path reaches:
a result with a revision other than the request's (`document_workspace.rs:14447-14467`; the
one saver answers with the request's, 2728), a result without the source's digest
(the opener always sets it), and a save refused for an open gesture when it is applied
(`begin_save_request` refuses it at the start). Preparation and
confirmation generations are left out because one task per preparation is under
way.

### RecoveryStore

Every directory entry has the value programs see and the set of values a power
loss may leave, which a sync of its directory reduces to one. `Steps` gives the
order of writes, renames and syncs of each kind of operation; `Step` does the first of
them, `Fail` makes it fail, `PassOver` is a removal or a sync whose failure the code
ignores, `End` ends the program (exit or kill) and `PowerLoss`
the machine. Base PDFs and timelines are contents, which documents may share, as
the objects are named by digest. `restartedUnsynced` records that a start found
entries that were not synced (`Unsynced`: the index, a head, or an object that a
head of the index names), the one situation in which two of the promises do not
hold (see Observations).

After a failure of `Confirm` the session has the status of what it began with. Where the
code confirms a checkpoint that did not change it may go on as "ambiguous" instead
(`document_workspace.rs:3399-3428`), and a published head may be unreadable;
`DocumentSession` has these outcomes, `RecoveryStore` not. A session is "ready" here more
often than in the code, so that more is promised of it.

Left out: encodings, size limits other than the number of active documents, and
other processes. Identifiers are never reused, as they are random. A file
system keeps at least what was synced, and anything since.

### RenderGate

Each section under the mutex is a step. The drop of a turn is two, as the code
releases the mutex before it notifies. Tickets are represented by who asked
before whom, so nothing is bounded. Spurious wake-ups happen.

### PageTiles

A tile stands for the tiles of one page, in two qualities. `Dispatch`, which gives
jobs to idle slots, is part of every handler that may have queued one; a job of a
plan that was cancelled becomes a stray, which keeps its slot and whose answer is
dropped. A tile task reads the page lists, then waits for the worker, then draws:
three moments, between which an edit update may arrive. `text` and `updates` are the
page text's state in its epoch and the one update under way there. The worker may
stop at any time; `Reopen` swaps in a fresh one, which draws the file unedited.

A promotion is promised when a preview arrives. While the view moves the code may
promise it only when the motion settles (`rebuild_promotions`); both are `promotions`.

Left out: an image larger than the whole cache, which is refused without an error of its
page (`document_viewer.rs:1042-1045`); tile geometry and eviction, prefetch, qualities above full, the
whole-page image, thumbnails, tiles kept from another zoom, and the clocks of
the policies (a timer may go off at any time).

### PageRequests

`session` is one record because handlers change many of its fields at once. A
request under way is `nav`, `rot` or `rec` while its answer would count; when the
generation moves on it is dropped, or stays as a stray whose callback finds
nothing to do. Pages are pages of the file; the document has their order and
their turns, and the picture shown has the page and the turn it was drawn with.

Left out: recovery publications that stay unconfirmed (they are in
`DocumentSession`), saves, blank and copied pages.

### SignatureTransfer

The relay handles a request in a transaction, which is one step; what
`create`, `acknowledge` and `deleteSession` do after it is another (`tails`). A
request may be lost, and so may its answer; it may be handled after its sender
gave it up. The desktop's loop, the panel's events and the phone's `Send` (read the
canvas, encrypt, send, look at the answer) are steps that others fall between.
`mixed`, `blob` and `told` are histories of a phone: the picture when Send was
pressed last, whether it was drawn on while being encrypted, and what its user
was told.

`panel` is the signature popover. Whether an event of the transfer counts there depends on
`authority`: it is `shown` while the transfer's document is in front and no new
generation has begun, `away` while another document is in front, `stale` for good
once the generation has moved on. `cancel_signature_operation` starts a generation of
the document in front only (`CancelTransfer`), so that a cancel with another document in
front leaves an `away` authority as it is. `stopped` is the history that a cancel or a
dismissal met the transfer with its document in front.

The relay answers 429 for the session's own counters; its edge limiters, which count
by address and also answer 429, are `refused`, like any other failure.

Left out: the photo mode of the page, encryption, wrong tokens, the local
transfer, the generations that choosing an image file starts (an event may be dropped
at any time), and the loss of the relay between the transaction of `create` and its
`setAlarm` (a session without an alarm would stay).

## What the runs check

| Run | Instance | Distinct states | Result |
|---|---|---|---|
| `close` | two documents, seven windows, three transactions, fair adapter | 579,972 | holds |
| `close_window` | two live documents, one untitled, two transactions, revisions to 3 | 2,495,409 | holds |
| `windows` | two windows, one edited, the other opening documents, two writing threads, macOS | 2,027,497 | holds |
| `recovery_store` | two documents, shared contents, two checkpoints, two starts, all faults | 2,619,825 | holds |
| `render_gate` | three threads, three priorities, unbounded, deadlock checked | 4,489 | holds |
| `document_session` | two tabs in two windows, an edit each with undo and redo, two saves, moves and all faults of one of them | 1,383,128 | holds |
| `page_tiles` | one page, two values of the edits, two tasks, one replacement of the worker | 623,492 | holds |
| `page_requests` | two pages, two edits, a queue of two, one replacement of the worker | 1,724,413 | holds |
| `signature_transfer` | one phone, two strokes, two presses of Send, two polls and acknowledgements, another document opened and left | 2,976,019 | holds |
| `close_retry`, `close_swallowed`, `tab_move` | small instances | | violated: Findings |

Besides a type invariant each (where the invariant is called `...Inv` it is joined
with the safety part named in parentheses), the passing runs check:

- `close`: Save All reports success only when each dirty revision was saved in
  this transaction (`SavedAllIsEarned`); nothing is released before the manifest
  of its own transaction is published (`ReleaseOnlyAfterCheckpoint`); only the
  newest transaction acts (`OnlyTheLiveTransactionActs`); the whole implements the
  abstract close (`ImplementsContract`: no publication before the saves or the
  decision to discard, no release before it, confirmed only when everything
  is released, a suspended close resumed with what it had); and a decided
  close ends (`DecidedCloseEnds`).
- `close_window`: saves of one document do not overlap (`WorkspaceInv`:
  `OneWriterPerDocument`); edits are released only under a decision made for
  them, except by a retried transaction (`FirstAttemptCoversEdits`, of documents that were not recovered); Save All
  leaves the asked revisions on disk (`SavedAllIsOnDisk`); a sheet has something to
  resume (`AlertCanBeResumed`).
- `windows`: once no write of the marker is under way and every open window has seen
  what is unsaved, the marker names exactly that, unless its newest write failed or an
  older one landed after it, and after the clean close no late write brings it back
  (`WindowsInv`: `MarkerNamesUnsaved`, `MarkerStaysRemoved`); without failures a Quit publishes every window
  (`FaultlessQuitPublishesEveryWindow`); only the last window publishes
  (`OnlyTheFinalWindowPublishes`).
- `recovery_store`: a recovery reported durable survives any power loss
  (`ReadyRecoverySurvives`), a retired one stays retired (`ClearedStaysCleared`),
  the store opens again (`StoreInv`: `OpensAgain`), and a stale session never replaces a newer
  checkpoint (`CheckpointsAdvance`).
- `render_gate`: one caller at a time (`MutualExclusion`), no lost wake-up
  (`NoLostWakeup`), service in order (`ServedInOrder`), and a request of the highest
  priority is served (`HighestIsServed`).
- `document_session`: a tab without the unsaved mark is what its file holds
  (`DocInv`: `CleanMeansSaved`); a closed tab was saved or discarded
  (`ClosedDocumentsAreSaved`); the checkpoint covers the edits on the screen
  (`CheckpointCoversEdits`); closed documents leave nothing that would come back
  (`NothingComesBack`); Save in the close dialog ends, in each way a save can end:
  the tab closes, nothing is unsaved in it, or its dialog can be used again
  (`CloseSaveEnds`).
- `page_tiles`: between updates the worker draws what the workspace believes
  (`WorkerDrawsShown`); no tile begun before an update survives it
  (`TilesShowAcknowledgedEdits`); no kept tile is forgotten (`TilesInv`:
  `KeptTilesAreReplaced`); and when the user stops the screen comes to rest
  (`ScreenSettles`).
- `page_requests`: no worker process is left behind (`RequestsInv`:
  `WorkersAreReleased`); the sharp page picture is the document's page, turned as
  the document turns it (`PictureFollowsDocument`); a late failure takes back
  nothing but its own rotation (`OnlyTheFailedRotationIsUndone`).
- `signature_transfer`: at most one phone is told "Signature sent" (with the one phone of
  the run this part says nothing; the theorem has any number), and the desktop
  has that picture or none (`PhoneAndDesktopAgree`); after a cancel with its document in
  front a transfer never shows its picture, whatever is opened and closed afterwards
  (`CancelledShowsNothing`); what is reported as sent is the last drawing
  (`SentIsLastDrawing`); a stored picture outlives lost answers
  (`KeptUntilReceived`); the relay's limits for a session never end a transfer (`TransferInv`:
  `OwnLimitsNeverBite`) and it forgets everything (`RelayForgets`).

### Bounds, and why they are enough

- Two documents are needed for tab order, for a dialog that competes with
  another, and for shared objects; no code path looks at three at once. Two
  windows and two writers let an older marker write of one window land after a newer one
  of the other, and a Quit have a first and a last window; what the run checks is
  proved for any number of windows and writers. Three threads of the gate: one has the turn, one is next, one overtakes.
- Three transactions let an answer reach the transaction after the next. Two
  starts of the program give a crash during recovery from a crash. Two checkpoint
  sequences give an old and a new one. The theorems have any number.
- In `document_session` one edit with its undo and redo gives the three
  relations of saved and shown revision that matter (equal, behind, ahead) with a
  redo that returns to it, and two saves let a result of the first arrive during the second. That
  document is untitled, so its first save is a Save As, and may move between the
  windows at any time. The second was recovered and is dirty, and faultless: it is
  there to be asked about, undone and closed in between.
- `page_tiles`: a page in two qualities and the tasks of cancelled plans compete for
  two slots as tiles of two pages would; two values of the edits can differ from
  what is sent, shown or refused, and return.
- `page_requests`: two pages let a picture be of the wrong one, and a deleted page
  change the index of the other; two edits let an undo fall between a rotation
  and its failure; the second worker is the replacement.
- `signature_transfer`: two of everything give a first and a repeated request, and an
  old and a new drawing. `MaxDrawn` and `MaxSends` bound each phone. The
  upload limit of the relay is not reached by two presses of Send; the theorems have
  any number of phones, presses and limits.
- Every bound is a named constant, used in guards only.

`CHECK_DEADLOCK FALSE` stands where the system may stop: windows closed, the
program ended, or a bound reached. Only `RenderGate` never stops, and is checked.

### Fairness

- `close`: a request the adapter was given is settled and delivered. Saves run on
  the background executor, pickers are answered by the user, publications are
  synchronous. Nobody has to choose in a dialog. (The abstract close has no
  fairness: the refinement is about safety.)
- `render_gate`: threads run and turns end; nobody has to ask, and no spurious
  wake-up is counted on. Lower priorities may starve, as the code intends.
- `document_session`: a started save runs and the UI thread handles its result
  (weak fairness of `SaveStep` for each document). Users owe nothing.
- `page_tiles`: tasks that started run and their callbacks are called, timers go
  off, a frame follows a change. `ScreenSettles` is about behaviours in which the
  user and the worker's failures stop.
- `signature_transfer`: time passes, an alarm that is set goes off (the platform
  repeats one that fails), and the steps after a transaction are done. Nothing is
  asked of the network, the desktop, the phones or the users.

## Findings

1. `close_retry`. After a failed checkpoint the sheet leaves the window
   editable; Try again resumes the frozen transaction, which releases
   documents without asking whether they are dirty now and retires their
   recovery. Edits made in between are gone without a decision.
2. `close_swallowed`. Undo while a close dialog is open takes the dialog away but
   not the pending close; closing another unsaved tab then does nothing.
3. `tab_move`. A tab moved to another window before its first recovery checkpoint is
   published never gets one: the result comes to the old window, which clears the
   checkpoint, and the new window starts none. The document can neither be
   edited nor saved, and Retry refuses, until it is closed and opened again.

Observations met while modelling, which are not runs of their own.

Closing and quitting:

- A document that arrives after the snapshot is still in the window when it is
  removed, against the comment at `application_close_workspace.rs:1339-1342`.
- `checkpoint_for_close` takes the combined snapshot before the store is asked
  (`document_windows.rs:105`); after one failed publication, the manifest of the
  retried Quit lacks the windows that closed before.
- An ordinary save that ends while the close dialog is up makes Save All report a
  failure; "Continue closing" on a warning shown before any decision chooses Save
  All; after a save that closes ends with a publication warning, "Continue
  closing" must be pressed twice (`pending_publication_warning_generation` is not
  set); the message that a closed document kept its checkpoint is overwritten at
  the end of `close_document_checked`; a rebase that can neither sync nor reload
  leaves a session whose every repair is refused until the tab is closed; after a
  release failed, a later ordinary save closes the tab, because the pending close
  is still set; a cancelled Save As or a
  failed save leaves a Quit on, so that the next single close counts as part of it.

- A release that fails after the manifest was published leaves the store stopped while
  its window stays open and is edited: its edits are in no marker.
- An end of a save at `document_workspace.rs:14526-14549` would leave
  `close_after_save` set: the dialog can be used, but a later ordinary save
  of the document would close its tab. After a Save As that fails when its clean
  timeline cannot be encoded, the tab counts as saved while its path and its
  checkpoint are still those of the old file.

The dirty-session marker (each found as a trace of `WindowSession`, or by reading):

- Two background writes exclude one another but keep no order
  (`bin/butter-paper.rs:439-448`, `session_manifest.rs:586`): when the older one lands
  last, the marker stays wrong until the set of unsaved windows changes. A write
  that fails is not repeated either, as each window's cache already holds what it said.
- The cache is per window, and a write that was held back leaves the others'
  untouched: the first window has seen nothing unsaved; the second
  opens documents while the first is edited, which is not written; the second ends
  opening and writes that the first is unsaved; the first is saved and finds what it saw
  last, so it writes nothing. The marker names a saved window until another change. In
  the same way unsaved edits may not be named until then. So `MarkerNamesUnsaved` asks
  that every open window has seen the present set.
- Closing a tab while it opens takes the early return at
  `document_workspace.rs:10095`, and `active_document_open_batches` is never
  counted down: no window writes the marker again, and the window shows "Opening PDFs" for good.

Moving a tab (`MoveTab` looks at the save, the close and the confirmation only, as
`can_transfer_document` does):

- A tile being drawn when its tab moves is answered to the old window:
  `finish_viewer_job` (`document_workspace.rs:12771-12780`) finds no session there and
  does not call `finish_at`, so that the tile keeps its slot of the viewer for good.
  After two of them (one on a slow machine) the document draws nothing any more.
- Edits being sent when the tab moves are unknown to the new window, whose
  `page_text` starts as if the worker drew the file unedited. With all edits undone
  meanwhile nothing is sent, and the worker goes on drawing them; otherwise
  two updates may be under way at once and end in either order.

Recovery store:

- A start after a kill between the rename of the index and the sync of its directory
  (`document_recovery_store.rs:1604`) reads the index that was not synced and sweeps
  what it does not name, and never syncs the index. On a file system that
  keeps no more than what was synced, a power loss then brings the old index back
  without its heads, and the store does not open again. `ReadyRecoverySurvives`
  and `OpensAgain` except such starts; without the exception TLC finds this.
- A start can also find an object that was not synced. A head is renamed and
  the sync of its directory fails; the clearing of another document drops the
  timeline both heads had shared; a power loss brings the renamed head's
  predecessor back and loses that timeline, and a later publication writes the same
  object again and is killed before its sync. The next start reports the first
  document as ready, and a power loss takes it. This needs three recoveries and
  three starts, more than the run has; it was met while proving, and is why
  `Unsynced` looks at objects too.

Pages and the worker:

- The answer of a reopening is stale after a navigation, a rotation, an undo or a
  redo made meanwhile (`document_workspace.rs:14110`), `recovery_generation` is
  then never cleared, and Retry stays disabled (13951). A Retry during a
  rotation likewise leaves `pending_rotation_generation` set until the next undo,
  redo, rotation or save.
- The reopening of a document whose pages were rearranged fails the comparison of
  page geometry every time. Its result is shown for the page current now
  although it was drawn for the one of the request.
- `arrange_pages` starts no new generation: a page picture of the old order may be
  shown for the page now at its index, and queued rotations keep their old indexes.
- A rotation that fails because the worker stopped cannot be rolled back; a
  refused queued rotation leaves the rest of its queue dormant; Redo with
  nothing to redo clears the pending rotation; turning a page does not turn the
  coarse picture shown while a sharp one is on its way, and an undo during a
  navigation leaves that coarse picture.

Phone signature:

- Drawing on while the picture is encrypted makes a later retry send the old
  drawing and report it as sent; after a lost answer and a new drawing the phone
  is told "already sent" while the desktop gets the first; Clear stays disabled
  after a failed send; a picture is dropped without a word when the document's
  generation changes during the transfer.
- A cancel while another document is in front leaves the transfer's authority current
  (`cancel_signature_operation`, `document_workspace.rs:17237-17247`; an open that ends
  brings its document to the front without `leave_active_document`, 10914). If the user
  then goes back and opens the popover again (25011-25018) while the picture is still being
  acknowledged, the cancelled transfer's picture is shown. The model takes these steps
  (`OtherOpened`, `CancelTransfer`, `Reopen`, `PanelEvent`); `CancelledShowsNothing` is
  about cancels with the transfer's document in front.

## Theorems

Every safety invariant and every action property a passing run checks is also a
theorem. All are proved from the modules' own assumptions on constants only:

| Module | Assumed of the constants |
|---|---|
| `ApplicationClose`, `ApplicationCloseWorkspace` | snapshots list a document once; the tabs at start are different documents; generated and recovered ones are documents; a recovered one needs a second revision |
| `WindowSession` | the first window, the edited and the opening ones are windows; windows, writers and the marks are different; what an earlier marker names is no window |
| `RecoveryStore` | there is a first checkpoint sequence |
| `DocumentSession` | bounds are naturals; recovered documents are not generated and have a first revision; "no document" is none |
| `RenderGate` | priorities are naturals |
| `PageTiles` | a document has finitely many pages; there is a task slot; the values that stand for nothing are none |
| `PageRequests` | a file's pages are different; an order of pages is a non-empty sequence of pages of the file no longer than it; there is a first worker |
| `SignatureTransfer` | the relay's limits are positive and the desktop's within them; the desktop is no phone |

`ApplicationClose_proofs`, first part, for any documents, snapshots and number of
transactions: `TypeCorrect`, `SavedAllEarned`, `ReleaseFollowsCheckpoint`,
`LiveTransactionActs`. The inductive invariant grows in four layers. `TypeInv` adds to
the types that the saving position lies inside the snapshot. `LiveInv` says that
whatever can act (a phase, a recoverable checkpoint, a publication) belongs to the
newest transaction; without it an old checkpoint could release a new window.
`ReleaseInv` says that a transaction has issued no release until its own
checkpoint is published. `EarnedInv` says that each dirty position the saving
phase has passed has its save, and that the pending token names the revision the
snapshot recorded; `SavedAllIsEarned` alone is not inductive, as it says nothing of
the saving phase. All are shown for `AnyNext`, in which a close may be requested
for any valid snapshot, so that the window's steps are covered too.

Second part: `CoordinatorImplementsContract`, the
refinement the run `close` checks. Each action of the coordinator is shown to be a
step of the contract under the mapping, or to leave all of its variables alone.
The mapping reads what was saved, published and released off the answers, so
that a step is one of the contract only if no answer came before its request.
That is `ContractInv`: answers have requests (`AnswersToRequests`), a manifest is
published once in a transaction (`PublishedOnce`), a dialog is up only if
something is unsaved and a close without one only if nothing is (`Undecided`), every save but the pending one
is answered (`SavesAnswered`), releases are asked for documents of the snapshot
(`ReleasesInside`), and what is not released yet is still pending
(`ReleasesPending`).

Third part, the window with its live documents: `OneWriterAtATime`,
`TryAgainFindsItsClose`, `SavedAllReachesDisk`, `FirstAttemptIsCovered`, and
`WindowImplementsContract`: each step of the window is one the coordinator and its
adapter may take (`WorkspaceIsAny`), so with the real adapter, too, the coordinator
implements the contract. `WindowInv` has five parts. `TabsInv`: each tab is a document
of its own, and one still loading is unedited. `WritersInv`: what is being written is
what the document was after its last save, and a save for the coordinator is the one
it waits for, of a document that stays. `SheetInv`: a sheet is up only while the
coordinator rests. `OnDisk`: an answer "saved" means a file that holds at least that
revision. `CoveredInv`: while a close that was not taken up again is under way, a
document of its snapshot has the revision the dialog showed, and one answered as
saved stays saved. The edits a retried transaction loses (Findings, 1) are the
case this invariant has to exclude.

`RenderGate_proofs`, for any set of threads and priorities: `TypeCorrect`,
`WorkerIsExclusive`, `WakeupsAreKept`, `ServiceIsOrdered`. Exclusion and the wake-up
invariant are inductive over the types; the order of service needs `TotalOrder`, that
of two waiting callers one asked first.

`PageTiles_proofs`, for any pages, contents, number of task slots and of replacements:
`WorkerDraws`, that the worker draws what the workspace believes whenever no update
is under way. By itself this says nothing of a worker that has taken an update
whose answer is still to come; `EditsInv` adds that the text is of this worker or an
earlier one, that what is noted as being sent is the update under way, and that the
worker draws that update once it has accepted it and the acknowledged edits before.
`TilesShowEdits` rests on `DrawnInv`: until the worker accepts an update, the caches, the
page lists read and the tiles drawn are of the acknowledged edits. After that
a mixture may be drawn, and it is the refresh at the update's answer that drops it
with every task that could still bring some. `TilesAreSound` rests on `ViewInv`: the jobs of a
plan and the strays of older ones never exceed the slots (`DispatchClaims`,
`StraysTakeTheSlots`), a plan is the plan of what is visible, and every step that takes a
kept tile's job away leaves an error, a promotion or a job in its place.

`PageRequests_proofs`, for any file, orders of its pages and numbers of edits, turns,
queued rotations and workers: `SoundAlways`, `NoWorkerIsLeft`, `PictureIsThePage`,
`NothingElseIsUndone`. Callbacks share operators that change the session, so each of
these is shown to lead from a sound session to another (`Leads`), and the actions
follow. `PictureFollowsDocument` is not inductive: the picture comes with an answer
that was asked for earlier. `Answers` says that an answer that will still be shown
has the present turn of its page (whatever changes the turn starts a new
generation), `Depicts` that the shown image has the page's turn or is awaited anew.
This holds until a page is rearranged (`Straight`), as the property does. For
`NothingElseIsUndone`, a failed rotation undoes only while no edit or undo began after
its own, so that the one revision it takes back is the rotation's (`Adds`).

`DocumentSession_proofs`, for any documents, windows, revisions, saves, moves and
faults: `CleanIsOnDisk`, `ClosingLosesNothing`, `CheckpointsCover`,
`ClosedStaysClosed` and `TabsAreSaved`. `DocumentsInv` says which tasks an open document may have: one at a
time, fitting the state of its recovery (`TasksFit`), a save only of the revision on
the screen (`SavesTheScreen`), and a file that is either what the session believes or
what its save has just written (`FileKnown`). Without it the answer of a save could
mark as saved what was edited meanwhile. `CoverInv` adds that every checkpoint on its
way to a session is what the session will show when it arrives. `LeftoversInv` adds
that a checkpoint has one keeper, and that one nobody keeps has a task that sees to it.
`ShapeInv` is what the type invariant lacks: histories know no revision that is still
to come (`BoundsInv`), each save under way has its task (`SavesRun`), prepared documents have a
checkpoint (`HeadsInv`), and no dialog or prompt lets a document close with its save while a
publication warning waits to be answered (`DialogsInv`): closing could then fail and
leave the window waiting for a save with no dialog. `CheckpointsCover` excepts a session
whose save failed half-way: its checkpoint has the right revision and may still call
it unsaved.
Each step touches one document; `OneDocumentChanges` carries the invariant of the rest.

`SignatureTransfer_proofs`, for any phones, limits and bounds (the run has one phone):
`PicturesAgree`, `PagesReportTheirDrawing`, `PicturesAreKept`, `CancelHolds` and
`LimitsNeverEndATransfer`. Everyone
who knows a picture has it from the relay, and the relay holds one for as long as the
session lives (`OnePicture`). For this each page must wait for one answer at a time,
that of the envelope it sent (`Turns`), and the session must be created once and its
alarm be set before anyone has the link (`Opening`): otherwise the second step of an
old request, which deletes what it finds, could meet a new session. The relay's limits
are budgets: the requests that wait and those already counted are together at most
those the desktop and the phones have made (`Budgets`, `Within`), late and repeated ones included.
`CancelHolds` rests on the panel alone: a transfer that was stopped with its document in front
has a stale authority for good, whatever documents are opened and popovers
reopened, and only a current one lets an event show a picture.

`WindowSession_proofs`, for any windows: `CoordinatorIsSound`, `OnlyTheLastPublishes`,
`QuitPublishesAll`, `MarkerIsTrue`. `CoordinatorInv` says that one window at a time is between its
checkpoint and its release, and that a window counted as closed is past its
checkpoint or has failed; otherwise a window could publish while one that has not
been asked is still open. `Gathered` says that without a failure the pending
snapshot is that of the closed windows until the final one has published, and that
from then on no window is left that could close. `MarkerIsTrue` is
about caches that each window keeps for itself: `MarkerInv` says that, unless its newest
write was lost or the store is stopped, some open window has last seen what the newest
write says, wherever that write is (`SeenByOne`, `NewestSays`), or no window has seen anything (`SeenByNone`);
that a window which is not open has seen nothing; and that the marker stays removed after a clean
close. When all windows have seen the present set, the one vouches for the write.

`RecoveryStore_proofs`, for any recoveries, contents and starts, with every crash,
power loss and failure of a step: `ReadySurvives`, `ClearedStays`, `AlwaysOpensAgain`,
`CheckpointsOnlyAdvance`, `StoreIsWellFormed`. A power loss may fall between any two writes, so
`StoreInvariant` says of every operation what it has made durable by its position
in its table (`WriteFacts`, `ConfirmFacts`, `ClearFacts`), and what the session that waits for
it thinks of its recovery (`StatusFacts`). `ReadyHeld` says that whatever head the disk may
still hold for a recovery its session relies on is complete and at least as new;
that a step of another recovery keeps this needs `ReadySettled` (its head is synced
outside its own rename) and `NoneDangling` (nothing drops an object a head of the index
names). `OpeningSynced` carries both through the sweep of a start. For the
shape, `OwnHeads` says that a head's contents are of its own document.

Only model-checked: liveness (`DecidedCloseEnds`, `HighestIsServed`, `CloseSaveEnds`,
`ScreenSettles`, `RelayForgets`). Liveness under
fairness, ENABLED, induction over data and RECURSIVE operators are beyond the
installed provers; no module here uses RECURSIVE. The properties of the runs that
expect a violation are refuted, and have no theorem.

## Plan

Done: the close coordinator with its abstract contract and its adapter, windows
and Quit, the recovery store, document sessions, the render gate, tiles and edit
updates, page requests and the reopening of the worker, the phone signature.

Next, models:

1. The recovery store seen from a session as an abstract module, implemented by
   `RecoveryStore` and used by `DocumentSession`, so that the outcomes assumed there are
   shown to be those of the store.
2. Durability of the restart manifest and the marker, with the directory model
   of `RecoveryStore`.
3. Staging leases of two processes over one store; the limit of active documents.
4. What a move of a tab does to `PageTiles`; opening batches and startup recovery.
5. Update staging and the handover script with its rollback.

Next, theorems: with model 1, that `RecoveryStore` implements the abstract store, step by
step and up to a start on unsynced entries; the safety half of the liveness
properties (that a session the relay stores always has its alarm set or being set, that a
save a dialog waits for always has its task).
