---------------------------- MODULE WindowSession ----------------------------
(***************************************************************************)
(* Closing windows and quitting with several windows over one session      *)
(* store: WindowSessionCoordinator of document_windows.rs, the Quit and    *)
(* window handlers of bin/butter-paper.rs and the restart manifest and     *)
(* dirty-session marker of session_manifest.rs.                            *)
(*                                                                         *)
(* A window stands for its documents.  Its close transaction is reduced to *)
(* the phases other windows can notice (ApplicationCloseWorkspace has the  *)
(* rest).  A call and the window removals it causes are one uninterrupted  *)
(* sequence: "due" windows first, then the windows Quit has still to ask,  *)
(* then the removals.                                                      *)
(*                                                                         *)
(* Every window keeps the marker up to date on its own: it delays a write  *)
(* of what is unsaved in all windows, and a background thread carries the  *)
(* write out.  Background writes exclude one another and keep no order.    *)
(***************************************************************************)
EXTENDS Naturals, FiniteSets

CONSTANTS
    Windows,       \* every window the process ever opens
    EditedWindows, \* bound: the windows in which documents are edited
    OpeningWindows,\* bound: the windows that open more documents
    Writers,       \* bound: background threads with a marker write at hand
    Earlier,       \* what a marker left by an earlier process names
    FirstWindow,   \* the startup window
    KeepsRunning   \* macOS: the process outlives its last window

ASSUME WindowsAssumption ==
    /\ FirstWindow \in Windows
    /\ EditedWindows \subseteq Windows /\ OpeningWindows \subseteq Windows
    /\ KeepsRunning \in BOOLEAN
    /\ Windows \cap Writers = {}
    /\ {"none", "Landed", "Lost"} \cap (Windows \cup Writers \cup {Earlier}) = {}
    /\ Earlier \notin Windows

VARIABLES
    phase,         \* what each window is doing
    unsaved,       \* windows with committed edits no PDF holds yet
    open,          \* CoordinatorState::open
    quitting,      \* CoordinatorState::quitting
    closedInQuit,  \* CoordinatorState::closed_in_quit
    pending,       \* CoordinatorState::pending; {} also stands for None
    asked,         \* windows the Quit handler has still to ask
    manifest,      \* the windows of the published restart manifest
    marker,        \* the windows named by the dirty-session marker
    stopped,       \* RecoveryPublicationState::stopped
    observed,      \* last_observed_recovery_snapshot of each window
    waiting,       \* recovery_marker_task of each window, until its write starts
    writer,        \* the snapshot each background thread is writing
    newest,        \* history: who has the newest marker write, or its fate
    opening,       \* windows with active_document_open_batches
    warned,        \* windows with a session_recovery_warning
    running,       \* the process has not quit
    failed         \* windows whose publication or release has failed

coordinatorVars == <<open, quitting, closedInQuit, pending>>
storeVars == <<manifest, marker, stopped>>
lookVars == <<observed, waiting, newest>>
heldVars == <<opening, warned>>
markerVars == <<lookVars, writer, heldVars>>
vars == <<phase, unsaved, coordinatorVars, asked, storeVars, markerVars, running, failed>>

Phases == {"Unused", "Idle", "Deciding", "Saving", "Checkpoint", "Retry",
           "Release", "Leaving", "Gone"}
None == {"none"}     \* no snapshot is this set

In(ps) == {w \in Windows : phase[w] \in ps}
Entries == Windows \ In({"Unused", "Gone"})     \* document_window_entries

WindowsTypeOK ==
    /\ phase \in [Windows -> Phases]
    /\ unsaved \subseteq Windows
    /\ open \subseteq Windows
    /\ quitting \in BOOLEAN
    /\ closedInQuit \subseteq Windows /\ pending \subseteq Windows
    /\ asked \subseteq Windows
    /\ manifest \subseteq Windows /\ marker \subseteq Windows \cup {Earlier}
    /\ stopped \in BOOLEAN
    /\ observed \in [Windows -> (SUBSET Windows) \cup {None}]
    /\ waiting \in [Windows -> (SUBSET Windows) \cup {None}]
    /\ writer \in [Writers -> (SUBSET Windows) \cup {None}]
    /\ newest \in Windows \cup Writers \cup {"Landed", "Lost"}
    /\ opening \subseteq Windows /\ warned \subseteq Windows
    /\ running \in BOOLEAN
    /\ failed \subseteq Windows
    /\ open = Entries

\* A marker found at startup is shown as a warning unless its documents came back.
Init ==
    /\ phase = [w \in Windows |-> IF w = FirstWindow THEN "Idle" ELSE "Unused"]
    /\ unsaved = {}
    /\ open = {FirstWindow}
    /\ quitting = FALSE
    /\ closedInQuit = {} /\ pending = {}
    /\ asked = {}
    /\ manifest = {} /\ marker \in {{}, {Earlier}}
    /\ stopped = FALSE
    /\ observed = [w \in Windows |-> None]
    /\ waiting = [w \in Windows |-> None]
    /\ writer = [t \in Writers |-> None]
    /\ newest = "Landed"
    /\ opening = {} /\ warned \in {{}, {FirstWindow}}
    /\ running = TRUE
    /\ failed = {}

\* Nothing of the current call is left to run.
Quiet == running /\ In({"Checkpoint", "Release", "Leaving"}) = {} /\ asked = {}

-----------------------------------------------------------------------------
(* The dirty-session marker.                                               *)

\* The merged snapshot is not written while a window opens documents, nor an
\* empty one while a window still shows the warning of the earlier marker.
HeldBack(windows, snapshot) ==
    \/ windows \cap opening' # {}
    \/ snapshot = {} /\ windows \cap warned' # {}

\* schedule_recovery_marker_checkpoint of window w, which any change of w's
\* workspace calls: a new delayed write replaces the one w still has waiting.
Look(w) ==
    IF HeldBack(Entries, unsaved') \/ observed[w] = unsaved'
    THEN UNCHANGED lookVars
    ELSE /\ observed' = [observed EXCEPT ![w] = unsaved']
         /\ waiting' = [waiting EXCEPT ![w] = unsaved']
         /\ newest' = w

\* Bug: the windows that remain do not refresh the marker.
RefreshRemainingNot(w) ==
    /\ waiting' = [waiting EXCEPT ![w] = None]
    /\ observed' = [observed EXCEPT ![w] = None]
    /\ UNCHANGED newest

\* on_window_closed: w's own task is dropped with w, and every window left
\* forgets what it has seen and looks anew.
RefreshRemaining(w) ==
    LET left == Entries \ {w}
        looks == IF HeldBack(left, unsaved) THEN {} ELSE left
    IN  /\ observed' = [v \in Windows |-> IF v \in looks THEN unsaved ELSE None]
        /\ waiting' = [v \in Windows |-> IF v \in looks THEN unsaved
                                          ELSE IF v = w THEN None ELSE waiting[v]]
        /\ IF looks = {} THEN UNCHANGED newest ELSE newest' \in looks

\* A change of window w that alters no edit: a selection, a page turned.
Notify(w) ==
    /\ Quiet /\ w \in Entries
    /\ UNCHANGED <<phase, unsaved, coordinatorVars, asked, storeVars, writer, heldVars,
                   running, failed>>
    /\ Look(w)

\* An open batch; one whose tab is closed meanwhile never comes to its end.
StartOpening(w) ==
    /\ Quiet /\ w \in (Entries \cap OpeningWindows) \ opening
    /\ opening' = opening \cup {w}
    /\ UNCHANGED <<phase, unsaved, coordinatorVars, asked, storeVars, lookVars, writer,
                   warned, running, failed>>

FinishOpening(w) ==
    /\ Quiet /\ w \in Entries \cap opening
    /\ opening' = opening \ {w}
    /\ UNCHANGED <<phase, unsaved, coordinatorVars, asked, storeVars, writer, warned, running,
                   failed>>
    /\ Look(w)

\* Startup's inspection of the recoveries fails; only the first window warns.
Warn(w) ==
    /\ Quiet /\ w \in (Entries \cap {FirstWindow}) \ warned
    /\ warned' = warned \cup {w}
    /\ UNCHANGED <<phase, unsaved, coordinatorVars, asked, storeVars, writer, opening, running,
                   failed>>
    /\ Look(w)

\* The warning is dismissed, or all it names has been reopened.
EndWarning(w) ==
    /\ Quiet /\ w \in Entries \cap warned
    /\ warned' = warned \ {w}
    /\ UNCHANGED <<phase, unsaved, coordinatorVars, asked, storeVars, writer, opening, running,
                   failed>>
    /\ Look(w)

\* 250 ms later a background thread takes w's write; from here on w can no
\* longer cancel it.
StartWrite(w, t) ==
    /\ Quiet /\ waiting[w] # None /\ writer[t] = None
    /\ writer' = [writer EXCEPT ![t] = waiting[w]]
    /\ waiting' = [waiting EXCEPT ![w] = None]
    /\ newest' = IF newest = w THEN t ELSE newest
    /\ UNCHANGED <<phase, unsaved, coordinatorVars, asked, storeVars, observed, heldVars,
                   running, failed>>

\* Where the newest write is after thread t's: in the marker, unless an older
\* one has replaced it there or it went nowhere.
NewestAfter(t, lands) ==
    CASE newest = t -> IF lands THEN "Landed" ELSE "Lost"
      [] newest = "Landed" /\ lands /\ writer[t] # marker -> "Lost"
      [] OTHER -> newest

\* replace_recovery_marker in thread t, in any order with the other threads: a
\* clean close has the last word over it, and a failed write is only reported.
LandWrite(t, ok) ==
    LET lands == ok /\ ~ stopped
    IN  /\ running /\ writer[t] # None
        /\ marker' = IF lands THEN writer[t] ELSE marker
        /\ newest' = NewestAfter(t, lands)
        /\ writer' = [writer EXCEPT ![t] = None]
        /\ UNCHANGED <<phase, unsaved, coordinatorVars, asked, manifest, stopped, observed,
                       waiting, heldVars, running, failed>>

-----------------------------------------------------------------------------
(* Windows and edits.                                                      *)

OpenWindow(w) ==
    /\ Quiet /\ phase[w] = "Unused"
    /\ phase' = [phase EXCEPT ![w] = "Idle"]
    /\ open' = open \cup {w}
    /\ stopped' = (stopped /\ Entries # {})
    /\ UNCHANGED <<unsaved, quitting, closedInQuit, pending, asked, manifest, marker,
                   markerVars, running, failed>>

\* The failed-checkpoint sheet leaves the window editable.
Edit(w) ==
    /\ Quiet /\ phase[w] \in {"Idle", "Retry"}
    /\ w \in EditedWindows \ unsaved
    /\ unsaved' = unsaved \cup {w}
    /\ UNCHANGED <<phase, coordinatorVars, asked, storeVars, writer, heldVars, running, failed>>
    /\ Look(w)

Save(w) ==
    /\ Quiet /\ phase[w] \in {"Idle", "Retry"}
    /\ w \in unsaved
    /\ unsaved' = unsaved \ {w}
    /\ UNCHANGED <<phase, coordinatorVars, asked, storeVars, writer, heldVars, running, failed>>
    /\ Look(w)

-----------------------------------------------------------------------------
(* Closing one window.                                                     *)

\* request_close; it is stale while a transaction is under way.
Request(w) ==
    phase' = IF phase[w] \in {"Idle", "Retry"}
             THEN [phase EXCEPT ![w] = IF w \in unsaved THEN "Deciding" ELSE "Checkpoint"]
             ELSE phase

CloseWindow(w) ==
    /\ Quiet /\ phase[w] \in {"Idle", "Retry"}
    /\ Request(w)
    /\ UNCHANGED <<unsaved, coordinatorVars, asked, storeVars, markerVars, running, failed>>

\* Cancel in the dialog also cancels the Quit.
Cancel(w) ==
    /\ Quiet /\ phase[w] = "Deciding"
    /\ phase' = [phase EXCEPT ![w] = "Idle"]
    /\ quitting' = FALSE /\ closedInQuit' = {} /\ pending' = {}
    /\ UNCHANGED <<unsaved, open, asked, storeVars, markerVars, running, failed>>

SaveAll(w) ==
    /\ Quiet /\ phase[w] = "Deciding"
    /\ phase' = [phase EXCEPT ![w] = "Saving"]
    /\ UNCHANGED <<unsaved, coordinatorVars, asked, storeVars, markerVars, running, failed>>

DiscardAll(w) ==
    /\ Quiet /\ phase[w] = "Deciding"
    /\ phase' = [phase EXCEPT ![w] = "Checkpoint"]
    /\ UNCHANGED <<unsaved, coordinatorVars, asked, storeVars, markerVars, running, failed>>

\* A failed save or a cancelled picker stops this close, not the Quit.
SavesEnd(w, ok) ==
    /\ Quiet /\ phase[w] = "Saving"
    /\ IF ok
       THEN /\ phase' = [phase EXCEPT ![w] = "Checkpoint"]
            /\ unsaved' = unsaved \ {w}
       ELSE phase' = [phase EXCEPT ![w] = "Idle"] /\ UNCHANGED unsaved
    /\ UNCHANGED <<coordinatorVars, asked, storeVars, writer, heldVars, running, failed>>
    /\ Look(w)

\* "Try again" on the failed-checkpoint sheet.
Retry(w) ==
    /\ Quiet /\ phase[w] = "Retry"
    /\ phase' = [phase EXCEPT ![w] = "Checkpoint"]
    /\ UNCHANGED <<unsaved, coordinatorVars, asked, storeVars, markerVars, running, failed>>

\* Bug: a window that was closed earlier in the Quit is not counted as closed.
IsFinalCountingOpen(w) == open = {w}

\* Bug: the first window of a Quit publishes.
IsFinalInAnyQuit(w) == quitting \/ Cardinality(open) <= 1

\* checkpoint_for_close: whether the closing window w is the one to publish.
IsFinal(w) ==
    IF quitting THEN open \subseteq closedInQuit \cup {w} ELSE Cardinality(open) <= 1

Combined(w) == (IF quitting THEN pending ELSE {}) \cup {w}

\* The publisher of window w.  The pending snapshot is taken before the store
\* is asked and not put back when it fails.
PublishCheckpoint(w, ok) ==
    /\ phase[w] = "Checkpoint"
    /\ closedInQuit' = IF quitting THEN closedInQuit \cup {w} ELSE closedInQuit
    /\ IF IsFinal(w)
       THEN /\ pending' = IF quitting THEN {} ELSE pending
            /\ IF ok
               THEN /\ manifest' = Combined(w) /\ marker' = {} /\ stopped' = TRUE
                    /\ phase' = [phase EXCEPT ![w] = "Release"]
                    /\ UNCHANGED failed
               ELSE /\ phase' = [phase EXCEPT ![w] = "Retry"]
                    /\ failed' = failed \cup {w}
                    /\ UNCHANGED storeVars
       ELSE /\ ok
            /\ pending' = IF quitting THEN Combined(w) ELSE pending
            /\ phase' = [phase EXCEPT ![w] = "Release"]
            /\ UNCHANGED <<storeVars, failed>>
    /\ UNCHANGED <<unsaved, open, quitting, asked, markerVars, running>>

\* The documents are released and the window is told to go; or one refuses.
Release(w, ok) ==
    /\ phase[w] = "Release"
    /\ IF ok
       THEN /\ phase' = [phase EXCEPT ![w] = "Leaving"]
            /\ unsaved' = unsaved \ {w}
            /\ UNCHANGED failed
       ELSE /\ phase' = [phase EXCEPT ![w] = "Idle"]
            /\ failed' = failed \cup {w}
            /\ UNCHANGED unsaved
    /\ UNCHANGED <<coordinatorVars, asked, storeVars, markerVars, running>>

\* on_window_closed, once the call that removed the window is through.
WindowClosed(w) ==
    /\ running /\ phase[w] = "Leaving"
    /\ In({"Checkpoint", "Release"}) = {} /\ asked = {}
    /\ phase' = [phase EXCEPT ![w] = "Gone"]
    /\ open' = open \ {w}
    /\ opening' = opening \ {w} /\ warned' = warned \ {w}
    /\ RefreshRemaining(w)
    /\ running' = (open' # {} \/ (KeepsRunning /\ ~ quitting))
    /\ UNCHANGED <<unsaved, quitting, closedInQuit, pending, asked, storeVars, writer, failed>>

-----------------------------------------------------------------------------
(* Quit.                                                                   *)

\* begin_quit, which changes nothing while already quitting.
Quit ==
    /\ Quiet /\ Entries # {}
    /\ asked' = Entries
    /\ quitting' = TRUE
    /\ IF quitting THEN UNCHANGED <<closedInQuit, pending>>
                   ELSE closedInQuit' = {} /\ pending' = {}
    /\ UNCHANGED <<phase, unsaved, open, storeVars, markerVars, running, failed>>

QuitWithoutWindows ==
    /\ Quiet /\ Entries = {}
    /\ running' = FALSE
    /\ UNCHANGED <<phase, unsaved, coordinatorVars, asked, storeVars, markerVars, failed>>

AskWindow(w) ==
    /\ running /\ w \in asked /\ In({"Checkpoint", "Release"}) = {}
    /\ asked' = asked \ {w}
    /\ Request(w)
    /\ UNCHANGED <<unsaved, coordinatorVars, storeVars, markerVars, running, failed>>

Next ==
    \/ Quit \/ QuitWithoutWindows
    \/ \E t \in Writers, ok \in BOOLEAN : LandWrite(t, ok)
    \/ \E w \in Windows :
          \/ Notify(w) \/ StartOpening(w) \/ FinishOpening(w) \/ Warn(w) \/ EndWarning(w)
          \/ \E t \in Writers : StartWrite(w, t)
          \/ OpenWindow(w) \/ Edit(w) \/ Save(w) \/ CloseWindow(w)
          \/ Cancel(w) \/ SaveAll(w) \/ DiscardAll(w) \/ Retry(w)
          \/ \E ok \in BOOLEAN : SavesEnd(w, ok) \/ PublishCheckpoint(w, ok) \/ Release(w, ok)
          \/ WindowClosed(w) \/ AskWindow(w)

Spec == Init /\ [][Next]_vars

-----------------------------------------------------------------------------
(* What the windows promise together.                                      *)

Faultless == failed = {}

\* "During Quit every window closes; each adds its documents and the final one
\* publishes the combined manifest." (document_windows.rs:12-13)
QuitPublishesEveryWindow == ~ running /\ quitting => closedInQuit \subseteq manifest

\* The same as long as no publication and no release has failed.
FaultlessQuitPublishesEveryWindow == Faultless => QuitPublishesEveryWindow

\* "only the final window may reach the store" (document_windows.rs:3-6): when
\* a window publishes, every other window is already closed or has itself had
\* a failed publication or release, which leaves it among the closed ones.
OnlyTheFinalWindowPublishes ==
    [][\A w \in Windows :
          phase[w] = "Checkpoint" /\ phase'[w] = "Release" /\ IsFinal(w) =>
              Entries \ {w} \subseteq In({"Leaving"}) \cup failed]_vars

\* Once the marker writes are out, the marker names exactly the windows whose
\* edits a crash would lose, if every open window has looked since the last
\* change (their caches do not vouch for a marker that is not there), and the
\* newest write has neither failed nor been overtaken by an older one.
MarkerNamesUnsaved ==
    /\ running /\ Entries # {} /\ ~ stopped
    /\ \A w \in Windows : waiting[w] = None
    /\ \A t \in Writers : writer[t] = None
    /\ \A w \in Entries : observed[w] = unsaved
    /\ newest # "Lost"
    => marker = unsaved

\* No late write brings a marker back after the clean close that removed it.
MarkerStaysRemoved == stopped => marker = {}

\* The state has its shape, and the marker tells what is unsaved.
WindowsInv == WindowsTypeOK /\ MarkerNamesUnsaved /\ MarkerStaysRemoved

=============================================================================
