----------------------------- MODULE PageRequests -----------------------------
(***************************************************************************)
(* The page requests of one open document (document_workspace.rs): going   *)
(* to a page, turning pages, undo and redo, rearranging pages, and         *)
(* reopening a document whose PDF worker has stopped.  Each asks the       *)
(* worker in the background and applies the answer in a callback, checked  *)
(* against session.generation, which most of them change: here a request   *)
(* in flight is "current" until the generation moves on.                   *)
(*                                                                         *)
(* A page is a page of the file; the document's slots list the pages in    *)
(* the order shown, and "turns" holds what the document turns each page by *)
(* beyond the file's own rotation.  Thumbnails and images drawn ahead are  *)
(* taken to show the page they are kept for.  Tiles and the update of the  *)
(* worker's order are in PageTiles; here the order arrives at some later   *)
(* moment.  An edit's recovery is published or refused; that it can stay   *)
(* unconfirmed, and saving, are in DocumentSession.  Blank and copied      *)
(* pages are left out.                                                     *)
(***************************************************************************)
EXTENDS Integers, SequencesExt

CONSTANTS
  FilePages,    \* the file's pages in order, a sequence
  Geometry,     \* each file page's size and rotation
  Orders,       \* the orders the user may choose
  Workers,      \* bound: the worker processes that can be started, 1..n
  MaxEdits,     \* bound: the edits made
  MaxQueue,     \* bound: the page rotations waiting
  None

ASSUME FileAssumption == FilePages \in Orders /\ IsInjective(FilePages)
ASSUME OrdersAssumption ==
  \A o \in Orders : o \in Seq(ToSet(FilePages)) /\ Len(o) > 0 /\ Len(o) <= Len(FilePages)
ASSUME BoundsAssumption == 1 \in Workers /\ MaxEdits \in Nat /\ MaxQueue \in Nat

VARIABLES
  session,   \* the document's session, owned by the UI thread
  workers,   \* each worker process
  order,     \* the pages each worker draws, in its order
  moved      \* history: pages were rearranged
vars == <<session, workers, order, moved>>

Pages == ToSet(FilePages)
Indexes == 1..Len(FilePages)
Turns == 0..3
Doc == [slots: Orders, turns: [Pages -> Turns], rev: 0..MaxEdits]
\* The page image at full sharpness: None while a thumbnail stands in.
Picture == [index: Indexes, page: Pages, turn: Turns]
\* What waits for an answer: a navigation, a rotation, a reopening.
Navs == [page: Indexes, turn: Turns, current: BOOLEAN, drawn: Pages \cup {None}]
Rots == [page: Indexes, turn: Turns, rev: 0..MaxEdits, worker: Workers, drawn: Pages \cup {None}]
Recs == [index: Indexes, current: BOOLEAN, worker: Workers \cup {None}, slots: Orders,
         step: {"opening", "ready", "error"}, turn: Turns, epoch: Workers]
Sessions ==
  [worker: Workers, open: BOOLEAN, doc: Doc, past: Seq(Doc), future: Seq(Doc),
   revs: 0..MaxEdits, current: Indexes, requested: Indexes,
   placeholder: Indexes \cup {None}, image: Picture \cup {None}, failure: BOOLEAN,
   rotating: BOOLEAN, recovering: BOOLEAN, queue: Seq(Indexes),
   nav: Navs \cup {None}, rot: Rots \cup {None}, strays: 0..MaxEdits, rec: Recs \cup {None}]

ASSUME NoneAssumption == None \notin Recs

NewSession == [
       worker |-> 1, open |-> TRUE,
       doc |-> [slots |-> FilePages, turns |-> [p \in Pages |-> 0], rev |-> 0],
       past |-> <<>>, future |-> <<>>, revs |-> 0,
       current |-> 1, requested |-> 1, placeholder |-> None,
       image |-> [index |-> 1, page |-> FilePages[1], turn |-> 0],
       failure |-> FALSE, rotating |-> FALSE, recovering |-> FALSE,
       queue |-> <<>>, nav |-> None, rot |-> None, strays |-> 0, rec |-> None]

Init ==
  /\ session = NewSession
  /\ workers = [w \in Workers |-> IF w = 1 THEN "running" ELSE "unborn"]
  /\ order = [w \in Workers |-> FilePages]
  /\ moved = FALSE

Count(s) == Len(s.doc.slots)
TurnAt(s, i) == s.doc.turns[s.doc.slots[i]]
Running(s) == workers[s.worker] = "running"
\* What a worker that runs when it is asked for index i can draw at once; an
\* order it learns before it comes to it shows in AnswersOf.
Drawn(s, i) == IF Running(s) /\ i <= Len(order[s.worker]) THEN order[s.worker][i] ELSE None
\* The answers a task can end with: an error, the page drawn in the order
\* the worker had when asked or in the one it has now.
AnswersOf(t) == {"error"} \cup (IF t.drawn = None THEN {} ELSE {t.drawn} \cup
  {order[session.worker][i] : i \in {t.page} \cap DOMAIN order[session.worker]})

\* session.generation = next_generation(): no answer on its way is current.
\* What such a navigation draws no longer matters; of a rotation only its
\* callback is left, a stray.
\* Bug: navigations answer for themselves.
NewGenerationOfRotations(s) ==
  [s EXCEPT !.rot = None, !.strays = IF s.rot = None THEN @ ELSE @ + 1,
            !.rec = IF s.rec = None THEN None ELSE [s.rec EXCEPT !.current = FALSE, !.turn = 0]]

NewGeneration(s) ==
  [s EXCEPT !.nav = IF s.nav = None THEN None
                       ELSE [s.nav EXCEPT !.current = FALSE, !.turn = 0, !.drawn = None],
            !.rot = None, !.strays = IF s.rot = None THEN @ ELSE @ + 1,
            !.rec = IF s.rec = None THEN None ELSE [s.rec EXCEPT !.current = FALSE, !.turn = 0]]

PictureAt(s, i) == [index |-> i, page |-> s.doc.slots[i], turn |-> TurnAt(s, i)]
-----------------------------------------------------------------------------
(* Going to a page: each operator gives the sessions it can lead to. *)

\* show_navigation_placeholder: an image kept beside the page, else its
\* thumbnail stands in.
Placeheld(s, i) ==
  IF s.current = i /\ s.placeholder = None THEN {s}
  ELSE LET v == [s EXCEPT !.current = i, !.placeholder = i]
       IN {[v EXCEPT !.image = shown] : shown \in {None, PictureAt(s, i)}}

\* apply_page_result, applied.
PageShown(s, i, picture) ==
  [s EXCEPT !.current = i, !.placeholder = None, !.image = picture, !.failure = FALSE]
PageFailed(s) == [s EXCEPT !.requested = s.current, !.failure = TRUE]

\* navigate_async: one render at a time; a page drawn ahead needs none.
NavigateTo(s, i) ==
  IF s.nav # None
  THEN IF i <= Count(s) THEN Placeheld([s EXCEPT !.requested = i], i) ELSE {s}
  ELSE IF s.rotating \/ i > Count(s) THEN {s}
  ELSE LET begun == NewGeneration([s EXCEPT !.requested = i])
           asked == [page |-> i, turn |-> TurnAt(s, i), current |-> TRUE,
                     drawn |-> Drawn(s, i)]
       IN {PageShown(v, i, PictureAt(s, i)) : v \in Placeheld(begun, i)}
          \cup Placeheld([begun EXCEPT !.nav = asked], i)

\* The render's callback: a page asked for since, and already standing in,
\* is not taken back; then the page asked for last is drawn.
NavigationEnds(s, d) ==
  LET n == s.nav
      superseded == s.requested # n.page /\ s.placeholder = s.requested
      free == [s EXCEPT !.nav = None]
      u == IF superseded THEN free
           ELSE IF d = "error" THEN PageFailed(free)
           ELSE PageShown(free, n.page,
                          [index |-> n.page, page |-> d, turn |-> n.turn])
  IN IF ~superseded /\ ~n.current THEN {free}
     ELSE IF u.requested # n.page /\ (u.requested # u.current \/ u.placeholder = u.requested)
     THEN NavigateTo(u, u.requested) ELSE {u}
-----------------------------------------------------------------------------
(* Edits under the recovery guard: commit_recovery_guarded_annotation_change. *)

\* refresh_rotation_presentations, with a worker that runs.
Redrawn(s) == [s EXCEPT !.image = [index |-> s.current, page |-> order[s.worker][s.current],
                                   turn |-> TurnAt(s, s.current)]]
CanRedraw(s) == Running(s) /\ s.current <= Count(s) /\ s.current <= Len(order[s.worker])

\* rollback_recovery_guarded_change: the timeline is back, the page is
\* drawn again if it can be.
RolledBack(s) == IF CanRedraw(s) THEN Redrawn(s) ELSE s

NewState(s, slots, turns) ==
  [s EXCEPT !.doc = [slots |-> slots, turns |-> turns, rev |-> s.revs + 1],
            !.revs = s.revs + 1, !.past = Append(s.past, s.doc), !.future = <<>>]
Undone(s) == [s EXCEPT !.doc = Last(s.past), !.past = Front(s.past),
                       !.future = Append(s.future, s.doc)]
Redone(s) == [s EXCEPT !.doc = Last(s.future), !.future = Front(s.future),
                       !.past = Append(s.past, s.doc)]

\* sync_page_arrangement: the current page stays the page it was, or the
\* nearest left; the image follows it or goes.
Rearranged(s, before) ==
  LET slots == s.doc.slots
      At(i) == {j \in DOMAIN slots : i <= Len(before) /\ slots[j] = before[i]}
      current == IF At(s.current) # {} THEN CHOOSE j \in At(s.current) : TRUE
                 ELSE IF s.current < Len(slots) THEN s.current ELSE Len(slots)
      kept == s.image # None /\ current \in At(s.image.index)
  IN [s EXCEPT !.current = current, !.requested = current, !.placeholder = None,
               !.image = IF kept THEN [s.image EXCEPT !.index = current] ELSE None]

\* The document is now "after" instead of "before": refresh it, publish its
\* recovery.  A refusal of either puts everything back.
Committed(before, after) ==
  LET turned == before.doc.turns # after.doc.turns
      shifted == before.doc.slots # after.doc.slots
      back == IF shifted THEN Rearranged([Rearranged(after, before.doc.slots)
                                            EXCEPT !.doc = before.doc], after.doc.slots)
              ELSE RolledBack(before)
      undoneBack == [back EXCEPT !.doc = before.doc, !.past = before.past,
                                 !.future = before.future]
  IN IF turned /\ ~shifted /\ ~CanRedraw(after)
     THEN [done |-> {}, refused |-> {before}]
     ELSE LET refreshed == IF shifted THEN Rearranged(after, before.doc.slots)
                           ELSE IF turned THEN Redrawn(after) ELSE after
          IN [done |-> {refreshed}, refused |-> {undoneBack}]
Either(c) == c.done \cup c.refused
-----------------------------------------------------------------------------
(* Turning a page *)

\* What begin_page_rotation leaves: the page already shown turns at once.
ShownTurned(s, i) == IF s.image # None /\ s.image.index = i
                     THEN [s.image EXCEPT !.turn = (@ + 1) % 4] ELSE s.image
RotationBegun(s, i) ==
  NewGeneration([s EXCEPT !.rotating = TRUE, !.requested = i, !.failure = FALSE,
                          !.image = ShownTurned(s, i)])

\* begin_page_rotation, and the render it starts.
StartRotation(s, i) ==
  IF i > Count(s) \/ s.revs = MaxEdits THEN {s}
  ELSE LET page == s.doc.slots[i]
           turned == NewState(s, s.doc.slots, [s.doc.turns EXCEPT ![page] = (@ + 1) % 4])
       IN {RolledBack(s),
           [RotationBegun(turned, i) EXCEPT !.rot = [page |-> i, turn |-> TurnAt(turned, i),
              rev |-> turned.doc.rev, worker |-> s.worker, drawn |-> Drawn(s, i)]]}

\* rotate_next_queued_page
RotateNext(s) ==
  IF s.queue = <<>> \/ s.rotating THEN {s}
  ELSE StartRotation([s EXCEPT !.queue = Tail(s.queue)], Head(s.queue))

\* rollback_failed_page_rotation
RotationFailed(s) ==
  LET failed == [s EXCEPT !.rotating = FALSE, !.failure = TRUE]
  IN IF s.past = <<>> THEN {failed}
     ELSE Either(Committed(failed, Undone(failed)))

\* apply_page_rotation_result, then the queue.
RotationEnds(s, d) ==
  LET r == s.rot
      t == [s EXCEPT !.rot = None]
      current == r.worker = s.worker /\ r.rev = s.doc.rev
      shown == PageShown([t EXCEPT !.rotating = FALSE], r.page,
                         [index |-> r.page, page |-> d, turn |-> r.turn])
      results == IF ~current THEN {t}
                 ELSE IF d = "error" THEN RotationFailed(t)
                 ELSE NavigateTo(shown, r.page)
  IN UNION {RotateNext(v) : v \in results}

\* The same for a rotation of an older generation: its answer is refused.
\* Bug: only a reopened worker makes an answer stale.
StrayEndsInEpoch(s) ==
  LET t == [s EXCEPT !.strays = @ - 1]
  IN UNION {RotateNext(v) : v \in {t} \cup (IF s.worker = 1 THEN RotationFailed(t) ELSE {})}

StrayEnds(s) == RotateNext([s EXCEPT !.strays = @ - 1])
-----------------------------------------------------------------------------
(* What the user asks for *)

Become(sessions) == session.open /\ session' \in sessions

Navigate(i) ==
  /\ Become(NavigateTo(session, i))
  /\ UNCHANGED <<workers, order, moved>>

\* rotate_active_page_from_action
RotatePage ==
  /\ ~session.rotating
  /\ Become(StartRotation(session, session.current))
  /\ UNCHANGED <<workers, order, moved>>

\* rotate_pages, for the pages selected in the sidebar.
RotatePages(is) ==
  /\ Len(session.queue) + Len(is) <= MaxQueue
  /\ Become(RotateNext([session EXCEPT !.queue = @ \o is]))
  /\ UNCHANGED <<workers, order, moved>>

\* An annotation, text or form edit: none of its pixels are modelled.
EditContents ==
  /\ ~session.rotating /\ session.revs < MaxEdits
  /\ Become(Either(Committed(session,
              NewState(session, session.doc.slots, session.doc.turns))))
  /\ UNCHANGED <<workers, order, moved>>

\* apply_history_with_rotation_refresh; without history nothing is undone,
\* but the generation is new all the same.
UndoOrRedo(states, Step(_)) ==
  /\ LET Ended(s) == [NewGeneration(s) EXCEPT !.rotating = FALSE]
     IN Become(IF states = <<>> THEN {Ended(session)}
               ELSE LET c == Committed(session, Step(session))
                    IN {Ended(s) : s \in c.done} \cup c.refused)
  /\ UNCHANGED <<workers, order>>
Undo == UndoOrRedo(session.past, Undone) /\ moved' = (moved \/ session'.doc.slots # session.doc.slots)
Redo == UndoOrRedo(session.future, Redone) /\ moved' = (moved \/ session'.doc.slots # session.doc.slots)

\* arrange_pages: delete and reorder pages, then go to one of them.
ArrangePages(slots, i) ==
  /\ ~session.rotating /\ session.revs < MaxEdits
  /\ slots # session.doc.slots /\ i <= Len(slots)
  /\ ToSet(slots) \subseteq ToSet(session.doc.slots)
  /\ LET c == Committed(session, NewState(session, slots, session.doc.turns))
     IN Become((UNION {NavigateTo(s, i) : s \in c.done}) \cup c.refused)
  /\ moved' = TRUE
  /\ UNCHANGED <<workers, order>>

\* begin_document_recovery
RetryRecovery ==
  /\ session.failure /\ ~session.recovering
  /\ LET s == NewGeneration(session)
     IN Become({[s EXCEPT !.recovering = TRUE,
                   !.rec = [index |-> s.current, current |-> TRUE, worker |-> None,
                            slots |-> s.doc.slots, step |-> "opening",
                            turn |-> IF s.current <= Count(s) THEN TurnAt(s, s.current) ELSE 0,
                            epoch |-> s.worker]]})
  /\ UNCHANGED <<workers, order, moved>>

\* close_document, released: answers on their way find no session.
CloseTab ==
  /\ session.open
  /\ workers' = [workers EXCEPT ![session.worker] = "closed"]
  /\ session' = [NewSession EXCEPT !.open = FALSE, !.rec = session.rec]
  /\ UNCHANGED <<order, moved>>
-----------------------------------------------------------------------------
(* The background tasks and the worker processes *)

\* prepare_document_recovery: a new worker opens the file, whose pages must
\* be those the document has, and draws the page; on any failure the task
\* closes what it opened.
PrepareRecovery ==
  /\ session.rec # None /\ session.rec.step = "opening"
  /\ LET c == session.rec
         same == /\ Len(c.slots) = Len(FilePages) /\ c.index \in Indexes
                 /\ \A i \in Indexes : Geometry[c.slots[i]] = Geometry[FilePages[i]]
     IN \/ /\ session' = [session EXCEPT !.rec.step = "error"]
           /\ UNCHANGED workers
        \/ \E w \in Workers :
             /\ workers[w] = "unborn" /\ same
             /\ session' = [session EXCEPT !.rec.worker = w, !.rec.step = "ready"]
             /\ workers' = [workers EXCEPT ![w] = "running"]
  /\ UNCHANGED <<order, moved>>

\* The last process that can be started does not stop: a bound.
WorkerStops(w) ==
  /\ workers[w] = "running" /\ \E v \in Workers : workers[v] = "unborn"
  /\ workers' = [workers EXCEPT ![w] = "stopped"]
  /\ UNCHANGED <<session, order, moved>>

\* set_document_edits (PageTiles): the worker learns the order.
WorkerReorders ==
  /\ session.open /\ Running(session) /\ order[session.worker] # session.doc.slots
  /\ order' = [order EXCEPT ![session.worker] = session.doc.slots]
  /\ UNCHANGED <<session, workers, moved>>
-----------------------------------------------------------------------------
(* The callbacks *)

NavigationResult ==
  /\ session.nav # None
  /\ Become(UNION {NavigationEnds(session, d) : d \in AnswersOf(session.nav)})
  /\ UNCHANGED <<workers, order, moved>>

RotationResult ==
  /\ \/ /\ session.rot # None
        /\ Become(UNION {RotationEnds(session, d) : d \in AnswersOf(session.rot)})
     \/ session.strays > 0 /\ Become(StrayEnds(session))
  /\ UNCHANGED <<workers, order, moved>>

\* finish_viewer_job: a tile fails because the worker has stopped.
TileFails ==
  /\ session.open /\ ~session.failure /\ workers[session.worker] = "stopped"
  /\ session' = [session EXCEPT !.failure = TRUE]
  /\ UNCHANGED <<workers, order, moved>>

\* apply_document_recovery_result: whoever does not take the new worker
\* closes it.
\* Bug: a stale answer's worker is left alone.
RecoveryResultLeaking ==
  /\ session.rec # None /\ session.rec.step \in {"ready", "error"}
  /\ LET c == session.rec
         s == [session EXCEPT !.rec = None]
         opened == c.step = "ready"
         Dropped == IF opened THEN [workers EXCEPT ![c.worker] = "closed"] ELSE workers
         Failed == [s EXCEPT !.recovering = FALSE, !.failure = TRUE]
     IN \/ /\ ~s.open /\ session' = s /\ workers' = Dropped
        \/ /\ s.open /\ ~(c.current /\ c.epoch = s.worker)
           /\ session' = s /\ workers' = workers
        \/ /\ s.open /\ c.current /\ c.epoch = s.worker
           /\ \/ session' = Failed /\ workers' = Dropped
              \/ /\ opened
                 /\ workers' = [workers EXCEPT ![s.worker] = "closed"]
                 /\ session' = [s EXCEPT !.worker = c.worker, !.recovering = FALSE,
                      !.failure = FALSE, !.requested = s.current,
                      !.image = [index |-> s.current, page |-> FilePages[c.index],
                                 turn |-> c.turn]]
  /\ UNCHANGED <<order, moved>>

RecoveryResult ==
  /\ session.rec # None /\ session.rec.step \in {"ready", "error"}
  /\ LET c == session.rec
         s == [session EXCEPT !.rec = None]
         opened == c.step = "ready"
         Dropped == IF opened THEN [workers EXCEPT ![c.worker] = "closed"] ELSE workers
         Failed == [s EXCEPT !.recovering = FALSE, !.failure = TRUE]
     IN \/ /\ ~(s.open /\ c.current /\ c.epoch = s.worker)
           /\ session' = s /\ workers' = Dropped
        \/ /\ s.open /\ c.current /\ c.epoch = s.worker
           /\ \/ session' = Failed /\ workers' = Dropped
              \/ /\ opened
                 /\ workers' = [workers EXCEPT ![s.worker] = "closed"]
                 /\ session' = [s EXCEPT !.worker = c.worker, !.recovering = FALSE,
                      !.failure = FALSE, !.requested = s.current,
                      !.image = [index |-> s.current, page |-> FilePages[c.index],
                                 turn |-> c.turn]]
  /\ UNCHANGED <<order, moved>>

UserActs ==
  \/ \E i \in Indexes : Navigate(i)
  \/ RotatePage
  \/ RotatePages([i \in Indexes |-> i])
  \/ EditContents
  \/ Undo
  \/ Redo
  \/ \E slots \in Orders, i \in Indexes : ArrangePages(slots, i)
  \/ RetryRecovery
  \/ CloseTab
WindowActs == NavigationResult \/ RotationResult \/ RecoveryResult

Next ==
  \/ UserActs
  \/ PrepareRecovery
  \/ WindowActs
  \/ TileFails
  \/ WorkerReorders
  \/ \E w \in Workers : WorkerStops(w)

Spec == Init /\ [][Next]_vars
-----------------------------------------------------------------------------
Timeline(s) == {s.doc.rev} \cup {s.past[i].rev : i \in DOMAIN s.past}

(***************************************************************************)
(* The shape of the state; a rotation or reopening whose answer will count *)
(* is marked as pending.                                                   *)
(***************************************************************************)
TypeOK ==
  /\ session \in Sessions /\ Len(session.queue) <= MaxQueue
  /\ session.rot # None => session.rotating
  /\ session.rec # None /\ session.open => session.recovering
  /\ workers \in [Workers -> {"unborn", "running", "stopped", "closed"}]
  /\ order \in [Workers -> Orders] /\ moved \in BOOLEAN

(***************************************************************************)
(* No worker process is left behind: one that was started and not closed   *)
(* is the document's, or a recovery still under way will use or close it.  *)
(***************************************************************************)
WorkersAreReleased ==
  \A w \in Workers : workers[w] \in {"running", "stopped"} =>
    \/ session.open /\ session.worker = w
    \/ session.rec # None /\ session.rec.worker = w /\ session.rec.step # "error"

\* The state has its shape, and no worker process is left behind.
RequestsInv == TypeOK /\ WorkersAreReleased

(***************************************************************************)
(* No callback takes back an edit, but that of a rotation the edit of that *)
(* rotation: an answer that comes after an undo, another edit or another   *)
(* rotation undoes nothing.                                                *)
(***************************************************************************)
OnlyTheFailedRotationIsUndone ==
  [][LET lost == Timeline(session) \ Timeline(session')
     IN \/ lost \subseteq {r.rev : r \in {session.rot} \ {session'.rot, None}}
        \/ UserActs]_vars

(***************************************************************************)
(* The page image at full sharpness, which Snapshot cuts from, shows the   *)
(* page at its index turned as the document turns it, at every moment of   *)
(* navigations, rotations, undo, redo and failed rotations: as long as the *)
(* worker was not replaced, no page was rearranged (the README says what   *)
(* happens then).                                                          *)
(***************************************************************************)
PictureFollowsDocument ==
  ( /\ session.open /\ session.worker = 1 /\ ~moved
    /\ session.image # None )
  => session.image = PictureAt(session, session.image.index)

=============================================================================
