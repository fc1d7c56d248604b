------------------------------ MODULE PageTiles ------------------------------
(***************************************************************************)
(* What a document's pages show: the tiles of document_viewer.rs, drawn by *)
(* the document's PDF worker (document_resource.rs), and the edits the     *)
(* worker is told to draw (sync_document_edits of                          *)
(* document_workspace_page_text.rs).                                       *)
(*                                                                         *)
(* The UI thread keeps the view and plans it; at most MaxActive background *)
(* tasks draw tiles and one sends edits, and each ends in a callback on    *)
(* the UI thread, which may run long after what it was started for is      *)
(* gone.  A tile task reads the worker's page lists before it has the      *)
(* worker (shown_pages, then RenderGate::enter), so an update may fall     *)
(* between the two.  The worker process may stop at any time; the document *)
(* recovery then swaps in another one (PageRequests has that protocol in   *)
(* detail; here it is one step).                                           *)
(*                                                                         *)
(* A "tile" stands for the tiles of one page.  Qualities above full, the   *)
(* whole-page image, thumbnails and the tiles kept from another zoom are   *)
(* left out, as is eviction: the caches hold what a view plans.            *)
(***************************************************************************)
EXTENDS Integers, FiniteSets

CONSTANTS
  Tiles,        \* the pages a view can show
  Edits,        \* the values the document's edits can have
  Unedited,     \* the edits of a file just opened
  MaxActive,    \* MAX_ACTIVE_TILE_JOBS, or 1 when the machine is slow
  MaxReopens,   \* bound: how often the worker stops and is replaced
  None

\* A set_document_edits task: what it sends, and the worker's reply.
Update == [edits: Edits, reply: {"ok", "error", None}]

ASSUME EditsAssumption == Unedited \in Edits /\ None \notin Edits \cup Update \cup {"ok", "error"}
ASSUME BoundsAssumption == MaxActive \in Nat \ {0} /\ MaxReopens \in Nat
\* A document has finitely many pages, and no plan is not a plan of pages.
ASSUME TilesAssumption == IsFiniteSet(Tiles) /\ \A p \in SUBSET Tiles : p # None

VARIABLES
  desired,     \* DocumentEdits the pages should show
  epoch,       \* session.resource_epoch
  worker,      \* session.resource: the process, the edits it draws, its page lists
  text,        \* PageTextDocumentState: epoch, shown, sending, rejected
  updates,     \* the set_document_edits task sent in each epoch
  visible,     \* the tiles the viewport asks for
  planned,     \* viewport_key is the viewport's
  plan,        \* last_tile_identities: None after cancel
  queue,       \* jobs waiting to be claimed
  promotions,  \* jobs waiting for their quality timer
  jobs,        \* the active jobs of this plan
  strays,      \* how many active jobs are of an older plan or content
  cache,       \* the tiles drawn since the last refresh
  kept,        \* content_fallback
  pageErrors,  \* page_errors
  failure      \* presentation_error is shown

viewVars == <<planned, plan, queue, promotions, jobs, strays, cache, kept, pageErrors>>
vars == <<desired, epoch, worker, text, updates, visible, viewVars, failure>>

Qualities == {"preview", "full"}
Epochs == 0..MaxReopens
Job(t, q) == [tile |-> t, quality |-> q]
\* What was drawn: the edits the worker had, and those its page lists had.
Image == [edits: Edits, layout: Edits]
\* A tile task: claimed, then it has the page lists, then it has ended.
ActiveJob == [job: [tile: Tiles, quality: Qualities], step: {"claimed"}]
  \cup [job: [tile: Tiles, quality: Qualities], step: {"listed"}, layout: Edits]
  \cup [job: [tile: Tiles, quality: Qualities], step: {"done"}, image: Image \cup {None}]
NewText(e) == [epoch |-> e, shown |-> Unedited, sending |-> None, rejected |-> None]
NewWorker == [running |-> TRUE, edits |-> Unedited, pages |-> Unedited]

Init ==
  /\ desired = Unedited
  /\ epoch = 0
  /\ worker = NewWorker
  /\ text = NewText(0)
  /\ updates = [w \in Epochs |-> None]
  /\ visible \in SUBSET Tiles
  /\ planned = FALSE /\ plan = None
  /\ queue = {} /\ promotions = {} /\ jobs = {} /\ strays = 0
  /\ cache = [t \in Tiles |-> [q \in Qualities |-> None]]
  /\ kept = [t \in Tiles |-> None]
  /\ pageErrors = {}
  /\ failure = FALSE
-----------------------------------------------------------------------------
(* The viewer *)

\* enqueue: not what is queued or being drawn for this plan already.
Enqueued(q, added, active) == q \cup (added \ {a.job : a \in active})

\* claim_jobs, run at the end of every handler that may have queued a job:
\* idle slots take jobs, in whatever order the queue has them.
Dispatch(q, active, others) ==
  LET idle == MaxActive - Cardinality(active) - others
      n == IF idle < Cardinality(q) THEN idle ELSE Cardinality(q)
  IN \E claimed \in {c \in SUBSET q : Cardinality(c) = n} :
       /\ jobs' = active \cup {[job |-> j, step |-> "claimed"] : j \in claimed}
       /\ queue' = q \ claimed
       /\ strays' = others

\* planner.cancel and every new plan: what is being drawn will be refused.
AllStray == strays + Cardinality(jobs)

\* cancel_plan
CancelPlan ==
  /\ planned' = FALSE /\ plan' = None
  /\ queue' = {} /\ promotions' = {} /\ pageErrors' = {}
  /\ jobs' = {} /\ strays' = AllStray

\* invalidate_raster
InvalidateRaster ==
  /\ CancelPlan
  /\ cache' = [t \in Tiles |-> [q \in Qualities |-> None]]
  /\ kept' = [t \in Tiles |-> None]

\* refresh_content: the plan's tiles stay, until full tiles replace them;
\* everything drawn or being drawn for the old content is dropped.
Shown(t) == IF cache[t]["full"] # None THEN cache[t]["full"]
            ELSE IF cache[t]["preview"] # None THEN cache[t]["preview"] ELSE kept[t]
\* Bug: the caches are emptied, what is being drawn goes on.
RefreshCachesOnly ==
  /\ kept' = [t \in Tiles |-> IF plan # None /\ t \in plan THEN Shown(t) ELSE kept[t]]
  /\ cache' = [t \in Tiles |-> [q \in Qualities |-> None]]
  /\ planned' = FALSE /\ plan' = plan
  /\ queue' = {} /\ promotions' = {}
  /\ UNCHANGED <<jobs, strays, pageErrors>>
RefreshContent ==
  /\ kept' = [t \in Tiles |-> IF plan # None /\ t \in plan THEN Shown(t) ELSE kept[t]]
  /\ cache' = [t \in Tiles |-> [q \in Qualities |-> None]]
  /\ planned' = FALSE /\ plan' = None
  /\ queue' = {} /\ promotions' = {}
  /\ jobs' = {} /\ strays' = AllStray
  /\ UNCHANGED pageErrors

\* refresh_viewport_async, on the frame after the view needs a plan: a plan
\* of the same tiles keeps its generation.  "direct" are the tiles drawn at
\* full quality at once: a kept tile's replacement, a page an image as
\* sharp as a preview covers, a page chosen in the sidebar.
PlanView ==
  /\ ~planned
  /\ planned' = TRUE /\ plan' = visible
  /\ LET active == IF plan = visible THEN jobs ELSE {}
         others == IF plan = visible THEN strays ELSE AllStray
         bare == {t \in visible : cache[t]["full"] = None}
         previewed == {t \in bare : cache[t]["preview"] # None}
     IN \E direct \in SUBSET (bare \ previewed) :
          /\ {t \in bare \ previewed : kept[t] # None} \subseteq direct
          /\ promotions' = {Job(t, "full") : t \in previewed}
          /\ Dispatch(Enqueued({}, {Job(t, IF t \in direct THEN "full" ELSE "preview") :
                                    t \in bare \ previewed}, active),
                      active, others)
  /\ UNCHANGED <<desired, epoch, worker, text, updates, visible, cache, kept, pageErrors, failure>>

\* The quality timer: release_due_promotions, then dispatch_viewer_jobs.
PromotionsDue ==
  /\ \E due \in SUBSET promotions \ {{}} :
       /\ promotions' = promotions \ due
       /\ Dispatch(Enqueued(queue, due, jobs), jobs, strays)
  /\ UNCHANGED <<desired, epoch, worker, text, updates, visible, planned, plan, cache, kept,
                 pageErrors, failure>>
-----------------------------------------------------------------------------
(* The tile tasks *)

\* shown_pages, before the task has the worker.
ReadPageLists(a) ==
  /\ a.step = "claimed"
  /\ jobs' = (jobs \ {a}) \cup
       {[job |-> a.job, step |-> "listed", layout |-> worker.pages]}
  /\ UNCHANGED <<desired, epoch, worker, text, updates, visible, planned, plan, queue, promotions,
                 strays, cache, kept, pageErrors, failure>>

\* The exchange with the worker: the tile drawn, or an error.
DrawTile(a) ==
  /\ a.step = "listed"
  /\ \E image \in {None} \cup
         (IF worker.running
          THEN {[edits |-> worker.edits, layout |-> a.layout]} ELSE {}) :
       jobs' = (jobs \ {a}) \cup {[job |-> a.job, step |-> "done", image |-> image]}
  /\ UNCHANGED <<desired, epoch, worker, text, updates, visible, planned, plan, queue, promotions,
                 strays, cache, kept, pageErrors, failure>>

\* finish_viewer_job, the task's callback: an error with the document's
\* worker gone raises the recovery, whatever the task was for.
Raise(failed) == failure' = (failure \/ (failed /\ ~worker.running))

\* Bug: a kept tile outlives its replacement.
FinishTileKeeping(a) ==
  /\ a.step = "done"
  /\ LET drawn == a.image # None
         t == a.job.tile
         full == a.job.quality = "full"
     IN /\ cache' = IF drawn THEN [cache EXCEPT ![t][a.job.quality] = a.image] ELSE cache
        /\ kept' = kept
        /\ pageErrors' = IF drawn THEN pageErrors \ {t} ELSE pageErrors \cup {t}
        /\ promotions' = IF drawn /\ ~full THEN promotions \cup {Job(t, "full")} ELSE promotions
        /\ Raise(~drawn)
  /\ Dispatch(queue, jobs \ {a}, strays)
  /\ UNCHANGED <<desired, epoch, worker, text, updates, visible, planned, plan>>

\* A promotion not promised while the view moves is the one that
\* rebuild_promotions makes once the motion settles; both are "promotions".
\* An image larger than the whole cache is left out.
FinishTile(a) ==
  /\ a.step = "done"
  /\ LET drawn == a.image # None
         t == a.job.tile
         full == a.job.quality = "full"
     IN /\ cache' = IF drawn THEN [cache EXCEPT ![t][a.job.quality] = a.image] ELSE cache
        /\ kept' = IF drawn /\ full THEN [kept EXCEPT ![t] = None] ELSE kept
        /\ pageErrors' = IF drawn THEN pageErrors \ {t} ELSE pageErrors \cup {t}
        /\ promotions' = IF drawn /\ ~full THEN promotions \cup {Job(t, "full")} ELSE promotions
        /\ Raise(~drawn)
  /\ Dispatch(queue, jobs \ {a}, strays)
  /\ UNCHANGED <<desired, epoch, worker, text, updates, visible, planned, plan>>

\* finish_at refuses what belongs to an older plan or content.
FinishStray ==
  /\ strays > 0
  /\ \E failed \in BOOLEAN : Raise(failed)
  /\ Dispatch(queue, jobs, strays - 1)
  /\ UNCHANGED <<desired, epoch, worker, text, updates, visible, planned, plan, promotions, cache,
                 kept, pageErrors>>

\* retry_viewer_page: a page that is not in the plan keeps its error.
RetryPage(t) ==
  /\ t \in pageErrors /\ plan # None /\ t \in plan
  /\ pageErrors' = pageErrors \ {t}
  /\ LET q == IF cache[t]["full"] # None THEN {}
              ELSE IF cache[t]["preview"] # None THEN {Job(t, "full")} ELSE {Job(t, "preview")}
     IN Dispatch(Enqueued(queue, q, jobs), jobs, strays)
  /\ UNCHANGED <<desired, epoch, worker, text, updates, visible, planned, plan, promotions, cache,
                 kept, failure>>
-----------------------------------------------------------------------------
(* The edits the worker draws *)

\* page_text_state: a reopened worker draws its own source unedited.
TextNow == IF text.epoch = epoch THEN text ELSE NewText(epoch)

\* sync_document_edits on a text state: one update at a time, none that is
\* shown already or that the worker refused.
\* Bug: edits the worker refused are sent again at once.
SendsRefused(s) == s.sending = None /\ s.shown # desired
Sends(s) == s.sending = None /\ s.shown # desired /\ s.rejected # desired
SyncFrom(s, tasks) ==
  /\ text' = IF Sends(s) THEN [s EXCEPT !.sending = desired] ELSE s
  /\ updates' = IF Sends(s) THEN [tasks EXCEPT ![epoch] = [edits |-> desired, reply |-> None]]
                ELSE tasks

\* Every frame of the active document, and every change of its pages.
SyncDocumentEdits ==
  /\ Sends(TextNow) \/ text # TextNow
  /\ SyncFrom(TextNow, updates)
  /\ UNCHANGED <<desired, epoch, worker, visible, viewVars, failure>>

\* set_document_edits with the worker: accepted or refused as a whole.  A
\* worker that stopped, or was closed for the next one, refuses.
ExchangeEdits(w) ==
  /\ updates[w] # None /\ updates[w].reply = None
  /\ \E accepted \in BOOLEAN :
       /\ accepted => w = epoch /\ worker.running
       /\ updates' = [updates EXCEPT ![w].reply = IF accepted THEN "ok" ELSE "error"]
       /\ worker' = IF accepted
                    THEN [worker EXCEPT !.edits = updates[w].edits, !.pages = updates[w].edits]
                    ELSE worker
  /\ UNCHANGED <<desired, epoch, text, visible, viewVars, failure>>

\* The task's callback: a reply for another epoch's state is ignored, then
\* the view is drawn again and what changed meanwhile is sent.
\* Bug: the reply of an older epoch counts for the present one.
EditsReplyOfAnyEpoch(w) ==
  /\ updates[w] # None /\ updates[w].reply # None
  /\ LET sent == updates[w].edits
         done == [updates EXCEPT ![w] = None]
         s == IF updates[w].reply = "ok"
              THEN [TextNow EXCEPT !.sending = None, !.shown = sent, !.rejected = None]
              ELSE [TextNow EXCEPT !.sending = None, !.rejected = sent]
     IN /\ SyncFrom(s, done)
        /\ IF updates[w].reply = "ok" THEN RefreshContent ELSE UNCHANGED viewVars
  /\ UNCHANGED <<desired, epoch, worker, visible, failure>>

EditsReply(w) ==
  /\ updates[w] # None /\ updates[w].reply # None
  /\ LET sent == updates[w].edits
         done == [updates EXCEPT ![w] = None]
     IN IF text.epoch # w
        THEN updates' = done /\ UNCHANGED <<text, viewVars>>
        ELSE LET s == IF updates[w].reply = "ok"
                      THEN [text EXCEPT !.sending = None, !.shown = sent, !.rejected = None]
                      ELSE [text EXCEPT !.sending = None, !.rejected = sent]
             IN /\ SyncFrom(IF w = epoch THEN s ELSE NewText(epoch), done)
                /\ IF updates[w].reply = "ok" THEN RefreshContent ELSE UNCHANGED viewVars
  /\ UNCHANGED <<desired, epoch, worker, visible, failure>>
-----------------------------------------------------------------------------
(* The user, the worker process, and the document recovery *)

Edit(e) ==
  /\ e # desired /\ desired' = e
  /\ UNCHANGED <<epoch, worker, text, updates, visible, viewVars, failure>>

Scroll(s) ==
  /\ s # visible /\ visible' = s /\ planned' = FALSE
  /\ UNCHANGED <<desired, epoch, worker, text, updates, plan, queue, promotions, jobs, strays, cache,
                 kept, pageErrors, failure>>

\* invalidate_layout: another page arrives in the view.
Relayout ==
  /\ plan # None
  /\ CancelPlan
  /\ UNCHANGED <<desired, epoch, worker, text, updates, visible, cache, kept, failure>>

WorkerStops ==
  /\ worker.running /\ epoch < MaxReopens
  /\ worker' = [worker EXCEPT !.running = FALSE]
  /\ UNCHANGED <<desired, epoch, text, updates, visible, viewVars, failure>>

\* apply_document_recovery_result, applied.
Reopen ==
  /\ failure /\ epoch < MaxReopens
  /\ epoch' = epoch + 1
  /\ worker' = NewWorker
  /\ failure' = FALSE
  /\ InvalidateRaster
  /\ UNCHANGED <<desired, text, updates, visible>>

UserActs ==
  \/ \E e \in Edits : Edit(e)
  \/ \E s \in SUBSET Tiles : Scroll(s)
  \/ Relayout
  \/ \E t \in Tiles : RetryPage(t)
TaskActs ==
  \/ \E a \in jobs : ReadPageLists(a) \/ DrawTile(a)
  \/ \E w \in Epochs : ExchangeEdits(w)
WindowActs ==
  \/ PlanView \/ PromotionsDue \/ SyncDocumentEdits
  \/ FinishStray
  \/ \E a \in jobs : FinishTile(a)
  \/ \E w \in Epochs : EditsReply(w)

Next == UserActs \/ TaskActs \/ WindowActs \/ WorkerStops \/ Reopen

Spec == Init /\ [][Next]_vars

(***************************************************************************)
(* While a task, a callback, a due timer or a frame the view asked for is  *)
(* waiting, the executor and the UI thread run one of them.  Which one is  *)
(* theirs to choose, and the user owes nothing, not even a press of Retry. *)
(***************************************************************************)
Fairness == WF_vars(TaskActs \/ WindowActs)
FairSpec == Spec /\ Fairness
-----------------------------------------------------------------------------
(***************************************************************************)
(* The shape of the state: one task per slot, one update per worker.       *)
(***************************************************************************)
TypeOK ==
  /\ desired \in Edits /\ epoch \in Epochs
  /\ worker \in [running: BOOLEAN, edits: Edits, pages: Edits]
  /\ text \in [epoch: Epochs, shown: Edits, sending: Edits \cup {None},
               rejected: Edits \cup {None}]
  /\ updates \in [Epochs -> Update \cup {None}]
  /\ visible \subseteq Tiles /\ planned \in BOOLEAN
  /\ plan \in (SUBSET Tiles) \cup {None}
  /\ jobs \subseteq ActiveJob /\ queue \cup promotions \subseteq [tile: Tiles, quality: Qualities]
  /\ cache \in [Tiles -> [Qualities -> Image \cup {None}]]
  /\ kept \in [Tiles -> Image \cup {None}]
  /\ pageErrors \subseteq Tiles /\ failure \in BOOLEAN
  /\ strays \in Nat /\ Cardinality(jobs) + strays <= MaxActive

(***************************************************************************)
(* Between updates the worker draws what the workspace believes it draws:  *)
(* no reply lost, late or of another worker leaves "shown" beside what the *)
(* running worker has (sync_document_edits, set_document_edits).           *)
(***************************************************************************)
WorkerDrawsShown ==
  (TextNow.sending = None /\ worker.running)
    => worker.edits = TextNow.shown /\ worker.pages = TextNow.shown

(***************************************************************************)
(* Between updates every tile on screen that is not marked as kept from    *)
(* before shows exactly the acknowledged edits, laid out by the same       *)
(* edits: no tile begun before an update, or that read its page lists      *)
(* before it, survives in the caches (refresh_content, finish_at).         *)
(***************************************************************************)
TilesShowAcknowledgedEdits ==
  TextNow.sending = None =>
    \A t \in Tiles, q \in Qualities :
      cache[t][q] \in {None, [edits |-> TextNow.shown, layout |-> TextNow.shown]}

(***************************************************************************)
(* A tile kept from before a change goes when its full replacement comes,  *)
(* and none is forgotten: what is kept has no full tile over it, and the   *)
(* current plan draws, has queued, or has reported an error for it.        *)
(***************************************************************************)
KeptTilesAreReplaced ==
  \A t \in Tiles : kept[t] # None =>
    /\ cache[t]["full"] = None
    /\ (planned /\ t \in visible) =>
         \/ t \in pageErrors
         \/ \E j \in queue \cup promotions : j.tile = t
         \/ \E a \in jobs : a.job.tile = t

\* The state has its shape, and no picture kept from before is left for good.
TilesInv == TypeOK /\ KeptTilesAreReplaced

(***************************************************************************)
(* When the user stops, the screen comes to rest: the worker has the last  *)
(* edits or has refused them, and every visible page shows at full quality *)
(* what the worker draws or says that it could not be drawn, unless the    *)
(* recovery is offered.  No schedule of tasks, replies, refreshes and      *)
(* timers leaves a page blank, blurred or out of date without a word.      *)
(***************************************************************************)
Settled ==
  \/ failure
  \/ /\ text.epoch = epoch /\ text.sending = None /\ desired \in {text.shown, text.rejected}
     /\ \A t \in visible :
          \/ t \in pageErrors
          \/ cache[t]["full"] = [edits |-> text.shown, layout |-> text.shown]
ScreenSettles == <>[][~UserActs]_vars => <>[]Settled
=============================================================================
