------------------------ MODULE WindowSession_proofs ------------------------
(***************************************************************************)
(* Only the final window reaches the store, and a Quit without a failure   *)
(* publishes every window it closed, however many windows there are.       *)
(*                                                                         *)
(* Both rest on what a window's phase says of the coordinator.  One window *)
(* at a time is between its checkpoint and its release; the windows Quit   *)
(* counts as closed are past their checkpoint, unless one of them failed;  *)
(* and what they have pending is all of them until the final window has    *)
(* published, when no window is left that could close.                     *)
(*                                                                         *)
(* The marker is true because some open window has always seen what the    *)
(* newest write says, wherever that write is: waiting, with a background   *)
(* thread or in the marker.  A closing takes the write with its window     *)
(* along, and then no window has seen anything.                            *)
(***************************************************************************)
EXTENDS WindowSession, FiniteSetTheorems, TLAPS

\* The part of the type invariant the coordinator needs.
CoordinatorTypeOK ==
  /\ phase \in [Windows -> Phases]
  /\ open = Entries /\ IsFiniteSet(open)
  /\ quitting \in BOOLEAN
  /\ closedInQuit \subseteq Windows
  /\ failed \subseteq Windows

\* One window at a time is between its checkpoint and its release.
OneAtATime ==
  \A v, w \in Windows : phase[v] \in {"Checkpoint", "Release"}
                        /\ phase[w] \in {"Checkpoint", "Release"} => v = w

ClosedArePast ==
  \A w \in closedInQuit : phase[w] \in {"Release", "Leaving", "Gone"} \/ w \in failed

CoordinatorInv == CoordinatorTypeOK /\ OneAtATime /\ ClosedArePast

\* What Quit has gathered when nothing failed.
NotPublished ==
  /\ pending = closedInQuit
  /\ \E w \in Entries : w \notin closedInQuit

Published ==
  /\ closedInQuit \subseteq manifest
  /\ \A w \in Entries : phase[w] \in {"Release", "Leaving"}
  /\ running => Entries # {}

PastAreClosed ==
  \A w \in Windows : phase[w] \in {"Release", "Leaving"} => w \in closedInQuit

Gathered == Faultless /\ quitting => PastAreClosed /\ (NotPublished \/ Published)

USE WindowsAssumption
-----------------------------------------------------------------------------
\* Entries are the windows that are neither unused nor gone.
LEMMA EntriesAre ==
  /\ \A w : w \in Entries <=> w \in Windows /\ phase[w] \notin {"Unused", "Gone"}
BY DEF Entries, In

LEMMA InitCoordinator == Init => CoordinatorInv
<1> SUFFICES ASSUME Init PROVE CoordinatorInv
  OBVIOUS
<1>1. Entries = {FirstWindow}
  BY DEF Init, Entries, In
<1>2. IsFiniteSet({FirstWindow})
  BY FS_Singleton
<1> QED
  BY <1>1, <1>2 DEF Init, CoordinatorInv, CoordinatorTypeOK, Phases, OneAtATime, ClosedArePast

\* A request moves a window that waits to its dialog or its checkpoint.
LEMMA RequestMoves ==
  ASSUME NEW w \in Windows, CoordinatorTypeOK, Request(w)
  PROVE  \/ phase' = phase
         \/ /\ phase[w] \in {"Idle", "Retry"}
            /\ \E p \in {"Deciding", "Checkpoint"} : phase' = [phase EXCEPT ![w] = p]
BY DEF Request

\* A window moves between two phases that both count as open, and nobody else
\* is at its checkpoint when it comes to it.
LEMMA MoveKeeps ==
  ASSUME CoordinatorInv, NEW w \in Windows,
         NEW p \in Phases \ {"Unused", "Gone", "Release", "Leaving"},
         phase[w] \in {"Idle", "Deciding", "Saving", "Retry"},
         p = "Checkpoint" => In({"Checkpoint", "Release"}) = {},
         phase' = [phase EXCEPT ![w] = p],
         UNCHANGED <<open, quitting, closedInQuit, failed>>
  PROVE  CoordinatorInv' /\ Entries' = Entries
<1>1. Entries' = Entries
  BY DEF CoordinatorInv, CoordinatorTypeOK, Entries, In
<1>2. CoordinatorTypeOK'
  BY <1>1 DEF CoordinatorInv, CoordinatorTypeOK
<1>3. OneAtATime'
  BY DEF CoordinatorInv, CoordinatorTypeOK, OneAtATime, In
<1>4. ClosedArePast'
  BY DEF CoordinatorInv, CoordinatorTypeOK, ClosedArePast
<1> QED
  BY <1>1, <1>2, <1>3, <1>4 DEF CoordinatorInv

\* Quiet, as the steps use it.
LEMMA QuietIs ==
  ASSUME Quiet
  PROVE  /\ In({"Checkpoint", "Release"}) = {}
         /\ \A w \in Windows : phase[w] \notin {"Checkpoint", "Release", "Leaving"}
         /\ running
BY DEF Quiet, In

\* Every step that closes nothing moves at most one open window.
Moves(w) ==
  \/ Edit(w) \/ Save(w) \/ CloseWindow(w) \/ SaveAll(w) \/ DiscardAll(w) \/ Retry(w)
  \/ (\E ok \in BOOLEAN : SavesEnd(w, ok)) \/ AskWindow(w)

LEMMA MovesAre ==
  ASSUME NEW w \in Windows, CoordinatorTypeOK, Moves(w)
  PROVE  /\ UNCHANGED <<open, quitting, closedInQuit, pending, manifest, running, failed>>
         /\ \/ phase' = phase
            \/ /\ phase[w] \in {"Idle", "Deciding", "Saving", "Retry"}
               /\ \E p \in Phases \ {"Unused", "Gone", "Release", "Leaving"} :
                     /\ phase' = [phase EXCEPT ![w] = p]
                     /\ p = "Checkpoint" => In({"Checkpoint", "Release"}) = {}
<1> USE DEF coordinatorVars, storeVars, Phases
<1>1. CASE Edit(w) \/ Save(w)
  BY <1>1 DEF Edit, Save
<1>2. CASE CloseWindow(w)
  BY <1>2, RequestMoves, QuietIs DEF CloseWindow
<1>3. CASE SaveAll(w)
  <2>1. "Saving" \in Phases \ {"Unused", "Gone", "Release", "Leaving"} /\ "Saving" # "Checkpoint"
    OBVIOUS
  <2> QED
    BY <1>3, <2>1 DEF SaveAll
<1>4. CASE DiscardAll(w) \/ Retry(w)
  BY <1>4, QuietIs DEF DiscardAll, Retry
<1>5. ASSUME NEW ok \in BOOLEAN, SavesEnd(w, ok)
      PROVE  /\ UNCHANGED <<open, quitting, closedInQuit, pending, manifest, running, failed>>
             /\ phase[w] = "Saving"
             /\ \/ phase' = [phase EXCEPT ![w] = "Idle"]
                \/ /\ phase' = [phase EXCEPT ![w] = "Checkpoint"]
                   /\ In({"Checkpoint", "Release"}) = {}
  BY <1>5, QuietIs DEF SavesEnd
<1>6. CASE AskWindow(w)
  BY <1>6, RequestMoves DEF AskWindow
<1> QED
  BY <1>1, <1>2, <1>3, <1>4, <1>5, <1>6 DEF Moves

LEMMA MovesKeep ==
  ASSUME NEW w \in Windows, CoordinatorInv, Moves(w)
  PROVE  CoordinatorInv' /\ Entries' = Entries
<1>1. CASE phase' = phase
  BY <1>1, MovesAre
     DEF CoordinatorInv, CoordinatorTypeOK, OneAtATime, ClosedArePast, Entries, In
<1>2. CASE phase' # phase
  <2>1. CoordinatorTypeOK
    BY DEF CoordinatorInv
  <2>2. PICK p \in Phases \ {"Unused", "Gone", "Release", "Leaving"} :
          /\ phase' = [phase EXCEPT ![w] = p]
          /\ p = "Checkpoint" => In({"Checkpoint", "Release"}) = {}
          /\ phase[w] \in {"Idle", "Deciding", "Saving", "Retry"}
    BY <1>2, <2>1, MovesAre
  <2> QED
    BY <2>1, <2>2, MovesAre, MoveKeeps
<1> QED
  BY <1>1, <1>2

-----------------------------------------------------------------------------
(* The steps that close.                                                   *)

LEMMA OpenKeeps ==
  ASSUME NEW w \in Windows, CoordinatorInv, OpenWindow(w)
  PROVE  CoordinatorInv' /\ Entries' = Entries \cup {w}
<1> USE DEF CoordinatorInv, CoordinatorTypeOK, OpenWindow, Phases
<1>1. Entries' = Entries \cup {w}
  BY DEF Entries, In
<1>2. IsFiniteSet(open')
  BY FS_AddElement
<1>3. CoordinatorTypeOK'
  BY <1>1, <1>2
<1>4. OneAtATime'
  BY DEF OneAtATime
<1>5. ClosedArePast'
  BY DEF ClosedArePast
<1> QED
  BY <1>1, <1>3, <1>4, <1>5

\* What a checkpoint does to the phase of its window.
LEMMA PublishMoves ==
  ASSUME NEW w \in Windows, NEW ok \in BOOLEAN, CoordinatorTypeOK, PublishCheckpoint(w, ok)
  PROVE  /\ phase[w] = "Checkpoint"
         /\ UNCHANGED <<open, quitting, running>>
         /\ closedInQuit' = IF quitting THEN closedInQuit \cup {w} ELSE closedInQuit
         /\ \/ phase' = [phase EXCEPT ![w] = "Release"] /\ failed' = failed
            \/ phase' = [phase EXCEPT ![w] = "Retry"] /\ failed' = failed \cup {w}
BY DEF PublishCheckpoint

LEMMA PublishKeeps ==
  ASSUME NEW w \in Windows, NEW ok \in BOOLEAN, CoordinatorInv, PublishCheckpoint(w, ok)
  PROVE  CoordinatorInv' /\ Entries' = Entries
<1>0. CoordinatorTypeOK /\ OneAtATime /\ ClosedArePast
  BY DEF CoordinatorInv
<1>1. Entries' = Entries
  BY <1>0, PublishMoves DEF CoordinatorTypeOK, Entries, In
<1>2. CoordinatorTypeOK'
  BY <1>0, <1>1, PublishMoves DEF CoordinatorTypeOK, Phases
<1>3. OneAtATime'
  BY <1>0, PublishMoves DEF CoordinatorTypeOK, OneAtATime
<1>4. ClosedArePast'
  BY <1>0, PublishMoves DEF CoordinatorTypeOK, ClosedArePast
<1> QED
  BY <1>1, <1>2, <1>3, <1>4 DEF CoordinatorInv

LEMMA ReleaseKeeps ==
  ASSUME NEW w \in Windows, NEW ok \in BOOLEAN, CoordinatorInv, Release(w, ok)
  PROVE  CoordinatorInv' /\ Entries' = Entries
<1> USE DEF CoordinatorInv, CoordinatorTypeOK, Release, Phases, coordinatorVars
<1>1. Entries' = Entries
  BY DEF Entries, In
<1>2. CoordinatorTypeOK'
  BY <1>1
<1>3. OneAtATime'
  BY DEF OneAtATime
<1>4. ClosedArePast'
  BY DEF ClosedArePast
<1> QED
  BY <1>1, <1>2, <1>3, <1>4

LEMMA ClosedKeeps ==
  ASSUME NEW w \in Windows, CoordinatorInv, WindowClosed(w)
  PROVE  CoordinatorInv' /\ Entries' = Entries \ {w}
<1> USE DEF CoordinatorInv, CoordinatorTypeOK, WindowClosed, Phases
<1>1. Entries' = Entries \ {w}
  BY DEF Entries, In
<1>2. IsFiniteSet(open')
  BY FS_RemoveElement
<1>3. CoordinatorTypeOK'
  BY <1>1, <1>2
<1>4. OneAtATime'
  BY DEF OneAtATime
<1>5. ClosedArePast'
  BY DEF ClosedArePast
<1> QED
  BY <1>1, <1>3, <1>4, <1>5

LEMMA CancelKeeps ==
  ASSUME NEW w \in Windows, CoordinatorInv, Cancel(w)
  PROVE  CoordinatorInv' /\ Entries' = Entries
<1> USE DEF CoordinatorInv, CoordinatorTypeOK, Cancel, Phases
<1>1. Entries' = Entries
  BY DEF Entries, In
<1>2. CoordinatorTypeOK'
  BY <1>1
<1>3. OneAtATime' /\ ClosedArePast'
  BY DEF OneAtATime, ClosedArePast
<1> QED
  BY <1>1, <1>2, <1>3

LEMMA QuitKeeps ==
  ASSUME CoordinatorInv, Quit
  PROVE  CoordinatorInv' /\ Entries' = Entries
BY DEF CoordinatorInv, CoordinatorTypeOK, Quit, Phases, OneAtATime, ClosedArePast,
       Entries, In, markerVars, storeVars

\* The steps of the marker and of what holds it back.
MarkerStep(w) ==
  \/ Notify(w) \/ StartOpening(w) \/ FinishOpening(w) \/ Warn(w) \/ EndWarning(w)
  \/ \E t \in Writers : StartWrite(w, t)

Lands == \E t \in Writers, ok \in BOOLEAN : LandWrite(t, ok)

\* The steps that leave the coordinator alone.
Still == QuitWithoutWindows \/ Lands \/ (\E w \in Windows : MarkerStep(w)) \/ UNCHANGED vars

LEMMA MarkerStepsLeave ==
  ASSUME NEW w \in Windows, MarkerStep(w)
  PROVE  UNCHANGED <<phase, unsaved, coordinatorVars, asked, storeVars, running, failed>>
<1>1. CASE Notify(w)
  BY <1>1 DEF Notify
<1>2. CASE StartOpening(w)
  BY <1>2 DEF StartOpening
<1>3. CASE FinishOpening(w)
  BY <1>3 DEF FinishOpening
<1>4. CASE Warn(w) \/ EndWarning(w)
  BY <1>4 DEF Warn, EndWarning
<1>5. CASE \E t \in Writers : StartWrite(w, t)
  BY <1>5 DEF StartWrite
<1> QED
  BY <1>1, <1>2, <1>3, <1>4, <1>5 DEF MarkerStep

LEMMA LandsLeaves ==
  ASSUME Lands
  PROVE  UNCHANGED <<phase, unsaved, coordinatorVars, asked, manifest, stopped, observed,
                     waiting, running, failed>>
BY DEF Lands, LandWrite

LEMMA StillKeeps ==
  ASSUME CoordinatorInv, Still
  PROVE  /\ CoordinatorInv' /\ Entries' = Entries
         /\ UNCHANGED <<phase, coordinatorVars, manifest, failed>>
<1>1. UNCHANGED <<phase, coordinatorVars, manifest, failed>>
  BY MarkerStepsLeave, LandsLeaves DEF Still, QuitWithoutWindows, vars, storeVars
<1> QED
  BY <1>1 DEF CoordinatorInv, CoordinatorTypeOK, OneAtATime, ClosedArePast,
              Entries, In, coordinatorVars

\* The steps of Next, grouped as the lemmas above take them.
LEMMA StepsAre ==
  ASSUME [Next]_vars
  PROVE  \/ Quit \/ Still
         \/ \E w \in Windows :
               \/ OpenWindow(w) \/ Cancel(w) \/ WindowClosed(w) \/ Moves(w)
               \/ \E ok \in BOOLEAN : PublishCheckpoint(w, ok) \/ Release(w, ok)
<1>1. CASE UNCHANGED vars
  BY <1>1 DEF Still
<1>2. CASE Quit \/ QuitWithoutWindows \/ Lands
  BY <1>2 DEF Still
<1>3. ASSUME NEW w \in Windows,
             \/ Notify(w) \/ StartOpening(w) \/ FinishOpening(w) \/ Warn(w) \/ EndWarning(w)
             \/ \E t \in Writers : StartWrite(w, t)
             \/ OpenWindow(w) \/ Edit(w) \/ Save(w) \/ CloseWindow(w)
             \/ Cancel(w) \/ SaveAll(w) \/ DiscardAll(w) \/ Retry(w)
             \/ \E ok \in BOOLEAN : SavesEnd(w, ok) \/ PublishCheckpoint(w, ok) \/ Release(w, ok)
             \/ WindowClosed(w) \/ AskWindow(w)
      PROVE  \/ MarkerStep(w)
             \/ OpenWindow(w) \/ Cancel(w) \/ WindowClosed(w) \/ Moves(w)
             \/ \E ok \in BOOLEAN : PublishCheckpoint(w, ok) \/ Release(w, ok)
  BY <1>3, Zenon DEF Moves, MarkerStep
<1>4. (\E w \in Windows : MarkerStep(w)) => Still
  BY DEF Still
<1> QED
  BY <1>1, <1>2, <1>3, <1>4 DEF Next, Lands

LEMMA StepCoordinator == CoordinatorInv /\ [Next]_vars => CoordinatorInv'
BY StepsAre, StillKeeps, QuitKeeps, OpenKeeps, CancelKeeps, ClosedKeeps, MovesKeep,
   PublishKeeps, ReleaseKeeps

THEOREM CoordinatorIsSound == Spec => []CoordinatorInv
BY InitCoordinator, StepCoordinator, PTL DEF Spec
-----------------------------------------------------------------------------
(* Only the final window publishes.                                        *)

\* A window that publishes finds every other one closed or failed.
LEMMA FinalIsLast ==
  ASSUME CoordinatorInv, NEW w \in Windows, phase[w] = "Checkpoint", IsFinal(w)
  PROVE  Entries \ {w} \subseteq In({"Leaving"}) \cup failed
<1>0. CoordinatorTypeOK /\ OneAtATime /\ ClosedArePast
  BY DEF CoordinatorInv
<1>1. CASE quitting
  <2>1. SUFFICES ASSUME NEW v \in Entries, v # w
                 PROVE  phase[v] = "Leaving" \/ v \in failed
    BY EntriesAre DEF In
  <2>2. v \in Windows /\ phase[v] \notin {"Unused", "Gone"}
    BY EntriesAre
  <2>3. v \in closedInQuit
    BY <1>0, <1>1, <2>1 DEF CoordinatorTypeOK, IsFinal
  <2>4. phase[v] # "Release"
    BY <1>0, <2>1, <2>2 DEF OneAtATime
  <2> QED
    BY <1>0, <2>2, <2>3, <2>4 DEF ClosedArePast
<1>2. CASE ~ quitting
  <2>1. w \in open /\ IsFiniteSet(open) /\ Cardinality(open) <= 1
    BY <1>0, <1>2, EntriesAre DEF CoordinatorTypeOK, IsFinal
  <2>2. IsFiniteSet(open \ {w}) /\ Cardinality(open \ {w}) = Cardinality(open) - 1
    BY <2>1, FS_RemoveElement
  <2>3. Cardinality(open) \in Nat /\ Cardinality(open \ {w}) \in Nat
    BY <2>1, <2>2, FS_CardinalityType
  <2>4. open \ {w} = {}
    BY <2>1, <2>2, <2>3, FS_EmptySet
  <2> QED
    BY <1>0, <2>4 DEF CoordinatorTypeOK
<1> QED
  BY <1>0, <1>1, <1>2 DEF CoordinatorTypeOK

\* "only the final window may reach the store" (document_windows.rs:3-6).
THEOREM OnlyTheLastPublishes == Spec => OnlyTheFinalWindowPublishes
<1> DEFINE Act ==
      \A w \in Windows :
          phase[w] = "Checkpoint" /\ phase'[w] = "Release" /\ IsFinal(w) =>
              Entries \ {w} \subseteq In({"Leaving"}) \cup failed
<1>1. CoordinatorInv => Act
  BY FinalIsLast
<1> QED
  BY <1>1, CoordinatorIsSound, PTL DEF OnlyTheFinalWindowPublishes

-----------------------------------------------------------------------------
(* A Quit without a failure publishes every window it closed.              *)

\* The steps that move a window before its checkpoint gather nothing, and
\* after the final window has published there is none left that could take one.
LEMMA MovesGather ==
  ASSUME NEW w \in Windows, CoordinatorInv, Gathered, Moves(w)
  PROVE  Gathered'
<1>0. CoordinatorTypeOK
  BY DEF CoordinatorInv
<1>1. UNCHANGED <<open, quitting, closedInQuit, pending, manifest, running, failed>>
  BY <1>0, MovesAre
<1>2. Entries' = Entries
  BY MovesKeep
<1>3. CASE phase' = phase
  BY <1>1, <1>2, <1>3 DEF Gathered, Faultless, PastAreClosed, NotPublished, Published
<1>4. CASE phase' # phase
  <2>1. PICK p \in Phases \ {"Unused", "Gone", "Release", "Leaving"} :
          /\ phase' = [phase EXCEPT ![w] = p]
          /\ phase[w] \in {"Idle", "Deciding", "Saving", "Retry"}
    BY <1>0, <1>4, MovesAre
  <2>2. w \in Entries
    BY <2>1, EntriesAre
  <2>3. ~ Published
    BY <2>1, <2>2 DEF Published
  <2>4. PastAreClosed => PastAreClosed'
    BY <1>0, <1>1, <2>1 DEF CoordinatorTypeOK, PastAreClosed
  <2> QED
    BY <1>1, <1>2, <2>3, <2>4 DEF Gathered, Faultless, NotPublished
<1> QED
  BY <1>3, <1>4

LEMMA OpenGathers ==
  ASSUME NEW w \in Windows, CoordinatorInv, Gathered, OpenWindow(w)
  PROVE  Gathered'
<1>1. Entries' = Entries \cup {w} /\ CoordinatorTypeOK
  BY OpenKeeps DEF CoordinatorInv
<1>2. UNCHANGED <<quitting, closedInQuit, pending, manifest, running, failed>>
  BY DEF OpenWindow
<1>3. ~ Published
  <2>1. running /\ \A v \in Entries : phase[v] \notin {"Release", "Leaving"}
    BY QuietIs, EntriesAre DEF OpenWindow
  <2> QED
    BY <2>1 DEF Published
<1>4. PastAreClosed => PastAreClosed'
  BY <1>1 DEF OpenWindow, CoordinatorTypeOK, PastAreClosed
<1> QED
  BY <1>1, <1>2, <1>3, <1>4 DEF Gathered, Faultless, NotPublished

LEMMA ClosedGathers ==
  ASSUME NEW w \in Windows, CoordinatorInv, Gathered, WindowClosed(w)
  PROVE  Gathered'
<1> SUFFICES ASSUME Faultless', quitting'
             PROVE  PastAreClosed' /\ (NotPublished' \/ Published')
  BY DEF Gathered
<1>1. Entries' = Entries \ {w} /\ CoordinatorTypeOK /\ open' = Entries'
  BY ClosedKeeps DEF CoordinatorInv, CoordinatorTypeOK
<1>2. /\ UNCHANGED <<quitting, closedInQuit, pending, manifest, failed>>
      /\ phase[w] = "Leaving" /\ phase' = [phase EXCEPT ![w] = "Gone"]
      /\ running' = (open' # {} \/ (KeepsRunning /\ ~ quitting))
  BY DEF WindowClosed, storeVars
<1>3. PastAreClosed /\ (NotPublished \/ Published)
  BY <1>2 DEF Gathered, Faultless
<1>4. w \in closedInQuit
  BY <1>2, <1>3 DEF PastAreClosed
<1>5. PastAreClosed'
  BY <1>1, <1>2, <1>3 DEF CoordinatorTypeOK, PastAreClosed
<1>6. NotPublished => NotPublished'
  BY <1>1, <1>2, <1>4 DEF NotPublished
<1>7. Published => Published'
  <2>1. \A v \in Entries' : v \in Windows /\ v # w /\ phase'[v] = phase[v]
    BY <1>1, <1>2, EntriesAre DEF CoordinatorTypeOK
  <2>2. running' => Entries' # {}
    BY <1>1, <1>2
  <2> QED
    BY <1>1, <1>2, <2>1, <2>2 DEF Published
<1> QED
  BY <1>3, <1>5, <1>6, <1>7

\* The window that publishes adds itself to what is pending, and publishes
\* the whole when nobody is left.
LEMMA PublishGathers ==
  ASSUME NEW w \in Windows, NEW ok \in BOOLEAN, CoordinatorInv, Gathered,
         PublishCheckpoint(w, ok)
  PROVE  Gathered'
<1> SUFFICES ASSUME Faultless', quitting'
             PROVE  PastAreClosed' /\ (NotPublished' \/ Published')
  BY DEF Gathered
<1>0. CoordinatorTypeOK /\ OneAtATime
  BY DEF CoordinatorInv
<1>1. /\ phase[w] = "Checkpoint" /\ UNCHANGED <<open, running>>
      /\ quitting /\ closedInQuit' = closedInQuit \cup {w}
      /\ phase' = [phase EXCEPT ![w] = "Release"] /\ failed' = failed
  BY <1>0, PublishMoves DEF Faultless
<1>2. Entries' = Entries /\ w \in Entries
  BY <1>1, PublishKeeps, EntriesAre
<1>3. PastAreClosed /\ NotPublished
  BY <1>1, <1>2 DEF Gathered, Faultless, Published
<1>4. PastAreClosed'
  BY <1>0, <1>1, <1>3 DEF CoordinatorTypeOK, PastAreClosed
<1>5. CASE IsFinal(w)
  <2>1. manifest' = pending \cup {w}
    BY <1>0, <1>1, <1>5 DEF PublishCheckpoint, Combined, Faultless, CoordinatorTypeOK
  <2>2. \A v \in Entries : phase'[v] \in {"Release", "Leaving"}
    BY <1>0, <1>1, <1>5, FinalIsLast, EntriesAre DEF CoordinatorTypeOK, In, Faultless
  <2> QED
    BY <1>1, <1>2, <1>3, <1>4, <2>1, <2>2 DEF NotPublished, Published
<1>6. CASE ~ IsFinal(w)
  <2>1. pending' = pending \cup {w}
    BY <1>1, <1>6 DEF PublishCheckpoint, Combined
  <2>2. PICK v \in Entries : v \notin closedInQuit \cup {w}
    BY <1>0, <1>1, <1>6 DEF IsFinal, CoordinatorTypeOK
  <2> QED
    BY <1>1, <1>2, <1>3, <1>4, <2>1, <2>2 DEF NotPublished
<1> QED
  BY <1>5, <1>6

LEMMA ReleaseGathers ==
  ASSUME NEW w \in Windows, NEW ok \in BOOLEAN, CoordinatorInv, Gathered, Release(w, ok)
  PROVE  Gathered'
<1>1. UNCHANGED <<quitting, closedInQuit, pending, manifest, running>>
  BY DEF Release, coordinatorVars, storeVars
<1>2. Entries' = Entries /\ CoordinatorTypeOK
  BY ReleaseKeeps DEF CoordinatorInv
<1>3. CASE ok
  <2>1. phase[w] = "Release" /\ phase' = [phase EXCEPT ![w] = "Leaving"] /\ failed' = failed
    BY <1>3 DEF Release
  <2>2. \A v \in Windows : phase'[v] \in {"Release", "Leaving"}
                              <=> phase[v] \in {"Release", "Leaving"}
    BY <1>2, <2>1 DEF CoordinatorTypeOK
  <2>3. \A v \in Entries : v \in Windows
    BY EntriesAre
  <2> QED
    BY <1>1, <1>2, <2>1, <2>2, <2>3
       DEF Gathered, Faultless, PastAreClosed, NotPublished, Published
<1>4. CASE ~ ok
  BY <1>4 DEF Release, Gathered, Faultless
<1> QED
  BY <1>3, <1>4

LEMMA QuitGathers ==
  ASSUME CoordinatorInv, Gathered, Quit
  PROVE  Gathered'
<1>1. Entries' = Entries /\ UNCHANGED <<phase, manifest, running, failed>>
  BY QuitKeeps DEF Quit, storeVars
<1>2. CASE quitting
  BY <1>1, <1>2 DEF Quit, Gathered, Faultless, PastAreClosed, NotPublished, Published
<1>3. CASE ~ quitting
  <2>1. closedInQuit' = {} /\ pending' = {} /\ Entries # {}
    BY <1>3 DEF Quit
  <2>2. \A v \in Windows : phase[v] \notin {"Release", "Leaving"}
    BY QuietIs DEF Quit
  <2> QED
    BY <1>1, <2>1, <2>2 DEF Gathered, PastAreClosed, NotPublished
<1> QED
  BY <1>2, <1>3

LEMMA StillGathers ==
  ASSUME CoordinatorInv, Gathered, Still
  PROVE  Gathered'
<1>1. Entries' = Entries /\ UNCHANGED <<phase, quitting, closedInQuit, pending, manifest, failed>>
  BY StillKeeps DEF coordinatorVars
<1>2. running' => running
  BY MarkerStepsLeave, LandsLeaves DEF Still, QuitWithoutWindows, vars
<1> QED
  BY <1>1, <1>2 DEF Gathered, Faultless, PastAreClosed, NotPublished, Published

LEMMA StepGathers == CoordinatorInv /\ Gathered /\ [Next]_vars => Gathered'
<1> SUFFICES ASSUME CoordinatorInv, Gathered, [Next]_vars PROVE Gathered'
  OBVIOUS
<1>1. ASSUME NEW w \in Windows, Cancel(w) PROVE Gathered'
  BY <1>1 DEF Cancel, Gathered
<1> QED
  BY <1>1, StepsAre, StillGathers, QuitGathers, OpenGathers, ClosedGathers, MovesGather,
     PublishGathers, ReleaseGathers

\* The process stops only when no window is left.
StoppedIsEmpty == ~ running => Entries = {}

LEMMA StepStops == CoordinatorInv /\ StoppedIsEmpty /\ [Next]_vars => StoppedIsEmpty'
<1> SUFFICES ASSUME CoordinatorInv, StoppedIsEmpty, [Next]_vars PROVE StoppedIsEmpty'
  OBVIOUS
<1>1. CASE Still
  <2>1. Entries' = Entries /\ (running' = running \/ Entries = {})
    BY <1>1, StillKeeps, MarkerStepsLeave, LandsLeaves DEF Still, QuitWithoutWindows, vars
  <2> QED
    BY <2>1 DEF StoppedIsEmpty
<1>2. CASE Quit
  BY <1>2, QuitKeeps DEF Quit, StoppedIsEmpty
<1>3. ASSUME NEW w \in Windows, OpenWindow(w) PROVE StoppedIsEmpty'
  BY <1>3, QuietIs DEF OpenWindow, StoppedIsEmpty
<1>4. ASSUME NEW w \in Windows, WindowClosed(w) PROVE StoppedIsEmpty'
  BY <1>4, ClosedKeeps DEF WindowClosed, StoppedIsEmpty, CoordinatorInv, CoordinatorTypeOK
<1>5. ASSUME NEW w \in Windows, Cancel(w) PROVE StoppedIsEmpty'
  BY <1>5, CancelKeeps DEF Cancel, StoppedIsEmpty
<1>6. ASSUME NEW w \in Windows, Moves(w) PROVE StoppedIsEmpty'
  BY <1>6, MovesAre, MovesKeep DEF StoppedIsEmpty, CoordinatorInv
<1>7. ASSUME NEW w \in Windows, NEW ok \in BOOLEAN, PublishCheckpoint(w, ok)
      PROVE  StoppedIsEmpty'
  BY <1>7, PublishKeeps DEF PublishCheckpoint, StoppedIsEmpty
<1>8. ASSUME NEW w \in Windows, NEW ok \in BOOLEAN, Release(w, ok)
      PROVE  StoppedIsEmpty'
  BY <1>8, ReleaseKeeps DEF Release, StoppedIsEmpty
<1> QED
  BY <1>1, <1>2, <1>3, <1>4, <1>5, <1>6, <1>7, <1>8, StepsAre

\* "each adds its documents and the final one publishes the combined manifest"
\* (document_windows.rs:12-13): a Quit in which nothing failed ends with every
\* window it closed in the published manifest.
THEOREM QuitPublishesAll == Spec => []FaultlessQuitPublishesEveryWindow
<1>1. Init => Gathered /\ StoppedIsEmpty
  BY DEF Init, Gathered, StoppedIsEmpty
<1>2. Gathered /\ StoppedIsEmpty => FaultlessQuitPublishesEveryWindow
  BY DEF Gathered, StoppedIsEmpty, NotPublished, Published,
         FaultlessQuitPublishesEveryWindow, QuitPublishesEveryWindow
<1> QED
  BY <1>1, <1>2, StepGathers, StepStops, CoordinatorIsSound, PTL DEF Spec

-----------------------------------------------------------------------------
(* The marker names what a crash would lose.                               *)

Snapshots == SUBSET Windows

\* What the newest marker write says, wherever it is.
NewestSays(snapshot) ==
  \/ newest \in Windows /\ waiting[newest] = snapshot
  \/ newest \in Writers /\ writer[newest] = snapshot
  \/ newest = "Landed" /\ marker = snapshot

SeenByOne == \E v \in Entries : observed[v] # None /\ NewestSays(observed[v])
SeenByNone == \A v \in Entries : observed[v] = None

MarkerInv ==
  /\ \A w \in Windows \ Entries : observed[w] = None
  /\ newest # "Lost" /\ ~ stopped => SeenByOne \/ SeenByNone
  /\ MarkerStaysRemoved

-----------------------------------------------------------------------------
(* The shape of the state.                                                 *)

\* The shape of what the marker's steps change.
MarkerTypeOK ==
  /\ observed \in [Windows -> Snapshots \cup {None}]
  /\ waiting \in [Windows -> Snapshots \cup {None}]
  /\ writer \in [Writers -> Snapshots \cup {None}]
  /\ newest \in Windows \cup Writers \cup {"Landed", "Lost"}
  /\ opening \subseteq Windows /\ warned \subseteq Windows

\* The shape of the rest, as far as the coordinator's invariant does not say it.
StoreTypeOK ==
  /\ unsaved \in Snapshots
  /\ pending \subseteq Windows /\ asked \subseteq Windows
  /\ manifest \subseteq Windows /\ marker \subseteq Windows \cup {Earlier}
  /\ stopped \in BOOLEAN /\ running \in BOOLEAN

LEMMA TypesAre ==
  ASSUME CoordinatorInv
  PROVE  WindowsTypeOK <=> MarkerTypeOK /\ StoreTypeOK
<1>1. CoordinatorTypeOK /\ open \subseteq Windows
  BY DEF CoordinatorInv, CoordinatorTypeOK, Entries
<1> QED
  BY <1>1 DEF WindowsTypeOK, MarkerTypeOK, StoreTypeOK, Snapshots, CoordinatorTypeOK

\* The same after a step.
LEMMA TypesAfter ==
  ASSUME CoordinatorInv', MarkerTypeOK', StoreTypeOK'
  PROVE  WindowsTypeOK'
<1>1. CoordinatorTypeOK' /\ open' \subseteq Windows
  BY DEF CoordinatorInv, CoordinatorTypeOK, Entries
<1> QED
  BY <1>1 DEF WindowsTypeOK, MarkerTypeOK, StoreTypeOK, Snapshots, CoordinatorTypeOK

\* A snapshot is a set of windows, so it is not the mark for no snapshot.
LEMMA SnapshotsAre == \A s \in Snapshots : s # None
BY DEF Snapshots, None

\* What a look of window w does.
LEMMA LookIs ==
  ASSUME MarkerTypeOK, NEW w \in Windows, unsaved' \in Snapshots, Look(w)
  PROVE  \/ UNCHANGED <<observed, waiting, newest>>
         \/ /\ observed' = [observed EXCEPT ![w] = unsaved']
            /\ waiting' = [waiting EXCEPT ![w] = unsaved']
            /\ newest' = w
BY DEF Look, lookVars

\* Every step that closes nothing leaves the store alone; it looks or leaves
\* the marker's part of the state as it is.
LEMMA MovesLook ==
  ASSUME NEW w \in Windows, StoreTypeOK, CoordinatorTypeOK, Moves(w)
  PROVE  /\ UNCHANGED <<marker, stopped, manifest, pending, running, writer, opening, warned>>
         /\ asked' \subseteq asked /\ unsaved' \in Snapshots
         /\ \/ UNCHANGED <<observed, waiting, newest>>
            \/ w \in Entries /\ Look(w)
<1> USE DEF coordinatorVars, storeVars, markerVars, lookVars, heldVars, StoreTypeOK, Snapshots
<1>1. CASE Edit(w) \/ Save(w)
  BY <1>1, EntriesAre DEF Edit, Save
<1>2. CASE CloseWindow(w)
  BY <1>2 DEF CloseWindow
<1>3. CASE SaveAll(w) \/ DiscardAll(w) \/ Retry(w)
  BY <1>3 DEF SaveAll, DiscardAll, Retry
<1>4. ASSUME NEW ok \in BOOLEAN, SavesEnd(w, ok)
      PROVE  /\ UNCHANGED <<marker, stopped, manifest, pending, running, writer, opening,
                            warned, asked>>
             /\ unsaved' \in Snapshots /\ w \in Entries /\ Look(w)
  BY <1>4, EntriesAre DEF SavesEnd
<1>5. CASE AskWindow(w)
  BY <1>5 DEF AskWindow
<1> QED
  BY <1>1, <1>2, <1>3, <1>4, <1>5 DEF Moves

\* The same of the steps of the marker.
LEMMA MarkerStepsLook ==
  ASSUME NEW w \in Windows, MarkerTypeOK, MarkerStep(w)
  PROVE  /\ opening' \subseteq Windows /\ warned' \subseteq Windows
         /\ \/ UNCHANGED <<observed, waiting, newest, writer>>
            \/ w \in Entries /\ Look(w) /\ UNCHANGED writer
            \/ \E t \in Writers : StartWrite(w, t)
<1> USE DEF lookVars, heldVars, MarkerTypeOK
<1>1. CASE Notify(w)
  BY <1>1 DEF Notify
<1>2. CASE StartOpening(w)
  BY <1>2 DEF StartOpening
<1>3. CASE FinishOpening(w)
  BY <1>3 DEF FinishOpening
<1>4. CASE Warn(w)
  BY <1>4 DEF Warn
<1>5. CASE EndWarning(w)
  BY <1>5 DEF EndWarning
<1>6. CASE \E t \in Writers : StartWrite(w, t)
  BY <1>6 DEF StartWrite
<1> QED
  BY <1>1, <1>2, <1>3, <1>4, <1>5, <1>6 DEF MarkerStep

LEMMA InitTypes == Init => WindowsTypeOK
<1> SUFFICES ASSUME Init PROVE WindowsTypeOK
  OBVIOUS
<1>1. MarkerTypeOK /\ StoreTypeOK
  BY DEF Init, MarkerTypeOK, StoreTypeOK, Snapshots
<1> QED
  BY <1>1, InitCoordinator, TypesAre

\* What a look leaves is of the marker's shape.
LEMMA LookType ==
  ASSUME MarkerTypeOK, NEW w \in Windows, unsaved' \in Snapshots,
         Look(w) \/ UNCHANGED <<observed, waiting, newest>>,
         UNCHANGED writer, opening' \subseteq Windows, warned' \subseteq Windows
  PROVE  MarkerTypeOK'
BY LookIs DEF MarkerTypeOK

LEMMA StartType ==
  ASSUME MarkerTypeOK, NEW w \in Windows, NEW t \in Writers, StartWrite(w, t)
  PROVE  MarkerTypeOK'
BY DEF MarkerTypeOK, StartWrite, heldVars

LEMMA LandType ==
  ASSUME MarkerTypeOK, StoreTypeOK, NEW t \in Writers, NEW ok \in BOOLEAN, LandWrite(t, ok)
  PROVE  MarkerTypeOK' /\ StoreTypeOK'
<1>1. writer[t] \in Snapshots
  BY DEF MarkerTypeOK, LandWrite
<1>2. marker' \subseteq Windows \cup {Earlier}
  BY <1>1 DEF StoreTypeOK, LandWrite, Snapshots
<1>3. newest' \in Windows \cup Writers \cup {"Landed", "Lost"}
  BY DEF MarkerTypeOK, LandWrite, NewestAfter
<1>4. writer' \in [Writers -> Snapshots \cup {None}]
  BY DEF MarkerTypeOK, LandWrite
<1> QED
  BY <1>2, <1>3, <1>4 DEF MarkerTypeOK, StoreTypeOK, LandWrite, heldVars, coordinatorVars

LEMMA ClosedType ==
  ASSUME MarkerTypeOK, StoreTypeOK, NEW w \in Windows, WindowClosed(w)
  PROVE  MarkerTypeOK' /\ StoreTypeOK'
<1>1. /\ UNCHANGED <<unsaved, pending, asked, manifest, marker, stopped, writer>>
      /\ opening' \subseteq Windows /\ warned' \subseteq Windows /\ running' \in BOOLEAN
      /\ RefreshRemaining(w)
  BY DEF WindowClosed, storeVars, MarkerTypeOK
<1>2. unsaved \in Snapshots
  BY DEF StoreTypeOK
<1>3. /\ observed' \in [Windows -> Snapshots \cup {None}]
      /\ waiting' \in [Windows -> Snapshots \cup {None}]
      /\ newest' \in Windows \cup Writers \cup {"Landed", "Lost"}
  BY <1>1, <1>2 DEF MarkerTypeOK, RefreshRemaining, Entries
<1> QED
  BY <1>1, <1>3 DEF MarkerTypeOK, StoreTypeOK

LEMMA StepTypes == WindowsTypeOK /\ CoordinatorInv /\ [Next]_vars => WindowsTypeOK'
<1> SUFFICES ASSUME WindowsTypeOK, CoordinatorInv, [Next]_vars
             PROVE  MarkerTypeOK' /\ StoreTypeOK'
  BY StepCoordinator, TypesAfter
<1>0. MarkerTypeOK /\ StoreTypeOK /\ CoordinatorTypeOK
  BY TypesAre DEF CoordinatorInv
<1>1. CASE Quit
  BY <1>0, <1>1 DEF Quit, Entries, MarkerTypeOK, StoreTypeOK, storeVars, markerVars, lookVars,
                    heldVars
<1>2. CASE Still
  <2>1. CASE UNCHANGED vars \/ QuitWithoutWindows
    BY <1>0, <2>1 DEF QuitWithoutWindows, vars, MarkerTypeOK, StoreTypeOK, coordinatorVars,
                      storeVars, markerVars, lookVars, heldVars
  <2>2. ASSUME NEW w \in Windows, MarkerStep(w) PROVE MarkerTypeOK' /\ StoreTypeOK'
    <3>1. StoreTypeOK'
      BY <1>0, <2>2, MarkerStepsLeave DEF StoreTypeOK, coordinatorVars, storeVars
    <3>2. unsaved' \in Snapshots
      BY <3>1 DEF StoreTypeOK
    <3> QED
      BY <1>0, <2>2, <3>1, <3>2, MarkerStepsLook, LookType, StartType
  <2> QED
    BY <1>0, <1>2, <2>1, <2>2, LandType DEF Still, Lands
<1>3. ASSUME NEW w \in Windows, OpenWindow(w) \/ Cancel(w)
      PROVE  MarkerTypeOK' /\ StoreTypeOK'
  BY <1>0, <1>3 DEF OpenWindow, Cancel, MarkerTypeOK, StoreTypeOK, storeVars, markerVars,
                    lookVars, heldVars
<1>4. ASSUME NEW w \in Windows, NEW ok \in BOOLEAN, PublishCheckpoint(w, ok) \/ Release(w, ok)
      PROVE  MarkerTypeOK' /\ StoreTypeOK'
  <2>1. MarkerTypeOK'
    BY <1>0, <1>4 DEF PublishCheckpoint, Release, MarkerTypeOK, markerVars, lookVars, heldVars
  <2>2. StoreTypeOK'
    BY <1>0, <1>4 DEF PublishCheckpoint, Release, Combined, StoreTypeOK, Snapshots,
                      coordinatorVars, storeVars
  <2> QED
    BY <2>1, <2>2
<1>5. ASSUME NEW w \in Windows, Moves(w) PROVE MarkerTypeOK' /\ StoreTypeOK'
  <2>1. /\ UNCHANGED <<marker, stopped, manifest, pending, running, writer, opening, warned>>
        /\ asked' \subseteq asked /\ unsaved' \in Snapshots
        /\ UNCHANGED <<observed, waiting, newest>> \/ Look(w)
    BY <1>0, <1>5, MovesLook
  <2>2. opening' \subseteq Windows /\ warned' \subseteq Windows
    BY <1>0, <2>1 DEF MarkerTypeOK
  <2> QED
    BY <1>0, <2>1, <2>2, LookType DEF StoreTypeOK
<1> QED
  BY <1>0, <1>1, <1>2, <1>3, <1>4, <1>5, ClosedType, StepsAre

-----------------------------------------------------------------------------
(* The marker follows the edits.                                           *)

\* Where the newest write is tells its three places apart.
LEMMA PlacesDiffer ==
  /\ Windows \cap Writers = {}
  /\ "Landed" \notin Windows \cup Writers /\ "Lost" \notin Windows \cup Writers
OBVIOUS

LEMMA InitMarker == Init => MarkerInv
BY DEF Init, MarkerInv, SeenByNone, Entries, MarkerStaysRemoved

\* A window that has looked has seen what it is about to write.
LEMMA LookMarks ==
  ASSUME MarkerTypeOK, MarkerInv, NEW w \in Entries, unsaved' \in Snapshots,
         Look(w), Entries' = Entries, UNCHANGED <<marker, stopped, writer>>
  PROVE  MarkerInv'
<1>1. w \in Windows
  BY EntriesAre
<1>2. CASE UNCHANGED <<observed, waiting, newest>>
  BY <1>2 DEF MarkerInv, SeenByOne, SeenByNone, NewestSays, MarkerStaysRemoved
<1>3. CASE /\ observed' = [observed EXCEPT ![w] = unsaved']
           /\ waiting' = [waiting EXCEPT ![w] = unsaved']
           /\ newest' = w
  <2>1. observed'[w] = unsaved' /\ waiting'[w] = unsaved' /\ unsaved' # None
    BY <1>1, <1>3, SnapshotsAre DEF MarkerTypeOK
  <2>2. SeenByOne'
    BY <1>1, <1>3, <2>1 DEF SeenByOne, NewestSays
  <2>3. \A v \in Windows \ Entries' : observed'[v] = None
    BY <1>1, <1>3 DEF MarkerInv, MarkerTypeOK
  <2> QED
    BY <2>2, <2>3 DEF MarkerInv, MarkerStaysRemoved
<1> QED
  BY <1>1, <1>2, <1>3, LookIs

\* What neither looks nor writes leaves the marker as it was, or closes it.
LEMMA KeepMarks ==
  ASSUME MarkerInv, Entries' = Entries, UNCHANGED <<observed, waiting, newest, writer>>,
         UNCHANGED <<marker, stopped>> \/ (stopped' /\ marker' = {})
  PROVE  MarkerInv'
BY DEF MarkerInv, SeenByOne, SeenByNone, NewestSays, MarkerStaysRemoved

\* A write on its way from a window to a thread says the same.
LEMMA StartMarks ==
  ASSUME MarkerTypeOK, MarkerInv, NEW w \in Windows, NEW t \in Writers, StartWrite(w, t)
  PROVE  MarkerInv'
<1>1. /\ UNCHANGED <<phase, marker, stopped, observed>>
      /\ waiting[w] # None /\ writer[t] = None
      /\ writer' = [writer EXCEPT ![t] = waiting[w]]
      /\ waiting' = [waiting EXCEPT ![w] = None]
      /\ newest' = IF newest = w THEN t ELSE newest
  BY DEF StartWrite, storeVars
<1>2. Entries' = Entries
  BY <1>1 DEF Entries, In
<1>3. ASSUME NEW s, s # None, NewestSays(s) PROVE NewestSays(s)'
  <2>1. CASE newest = w
    BY <1>1, <1>3, <2>1, PlacesDiffer DEF NewestSays, MarkerTypeOK
  <2>2. CASE newest # w
    BY <1>1, <1>3, <2>2, PlacesDiffer DEF NewestSays, MarkerTypeOK
  <2> QED
    BY <2>1, <2>2
<1>4. SeenByOne => SeenByOne'
  BY <1>1, <1>2, <1>3 DEF SeenByOne
<1>5. SeenByNone => SeenByNone'
  BY <1>1, <1>2 DEF SeenByNone
<1>6. newest' # "Lost" => newest # "Lost"
  BY <1>1, PlacesDiffer
<1> QED
  BY <1>1, <1>2, <1>4, <1>5, <1>6 DEF MarkerInv, MarkerStaysRemoved

\* A write that lands is the newest, says the same as the newest, or is the
\* older one that overtakes it.
LEMMA LandMarks ==
  ASSUME MarkerTypeOK, MarkerInv, NEW t \in Writers, NEW ok \in BOOLEAN, LandWrite(t, ok)
  PROVE  MarkerInv'
<1> DEFINE lands == ok /\ ~ stopped
<1>1. /\ UNCHANGED <<phase, stopped, observed, waiting>>
      /\ marker' = IF lands THEN writer[t] ELSE marker
      /\ newest' = NewestAfter(t, lands)
      /\ writer' = [writer EXCEPT ![t] = None]
  BY DEF LandWrite
<1>2. Entries' = Entries
  BY <1>1 DEF Entries, In
<1>3. /\ newest = t => newest' = IF lands THEN "Landed" ELSE "Lost"
      /\ newest # t /\ newest = "Landed" /\ lands /\ writer[t] # marker => newest' = "Lost"
      /\ newest # t /\ ~ (newest = "Landed" /\ lands /\ writer[t] # marker) => newest' = newest
  BY <1>1 DEF NewestAfter
<1>4. stopped => marker' = marker
  BY <1>1
<1>5. ASSUME newest' # "Lost", ~ stopped, NEW s, s # None, NewestSays(s)
      PROVE  NewestSays(s)'
  <2>1. CASE newest = t
    BY <1>1, <1>3, <1>5, <2>1, PlacesDiffer DEF NewestSays, MarkerTypeOK
  <2>2. CASE newest = "Landed"
    BY <1>1, <1>3, <1>5, <2>2, PlacesDiffer DEF NewestSays, MarkerTypeOK
  <2>3. CASE newest # t /\ newest # "Landed"
    <3>1. newest' = newest
      BY <1>3, <2>3
    <3> QED
      BY <1>1, <1>5, <2>3, <3>1, PlacesDiffer DEF NewestSays, MarkerTypeOK
  <2> QED
    BY <2>1, <2>2, <2>3
<1>6. newest' # "Lost" => newest # "Lost"
  BY <1>3, PlacesDiffer
<1>7. newest' # "Lost" /\ ~ stopped' => SeenByOne' \/ SeenByNone'
  <2> SUFFICES ASSUME newest' # "Lost", ~ stopped PROVE SeenByOne' \/ SeenByNone'
    BY <1>1
  <2>1. CASE SeenByOne
    BY <1>1, <1>2, <1>5, <2>1 DEF SeenByOne
  <2>2. CASE SeenByNone
    BY <1>1, <1>2, <2>2 DEF SeenByNone
  <2> QED
    BY <1>6, <2>1, <2>2 DEF MarkerInv
<1> QED
  BY <1>1, <1>2, <1>4, <1>7 DEF MarkerInv, MarkerStaysRemoved

\* A new window has seen nothing, and is the only one when it opens the marker
\* again.
LEMMA OpenMarks ==
  ASSUME NEW w \in Windows, CoordinatorInv, MarkerInv, OpenWindow(w)
  PROVE  MarkerInv'
<1>1. /\ UNCHANGED <<marker, observed, waiting, newest, writer>>
      /\ stopped' = (stopped /\ Entries # {}) /\ phase[w] = "Unused"
  BY DEF OpenWindow, markerVars, lookVars
<1>2. Entries' = Entries \cup {w} /\ w \notin Entries
  BY <1>1, OpenKeeps, EntriesAre
<1>3. observed[w] = None
  BY <1>2 DEF MarkerInv
<1>4. SeenByOne => SeenByOne'
  BY <1>1, <1>2 DEF SeenByOne, NewestSays
<1>5. SeenByNone => SeenByNone'
  BY <1>1, <1>2, <1>3 DEF SeenByNone
<1>6. CASE Entries = {}
  <2>1. SeenByNone'
    BY <1>1, <1>2, <1>3, <1>6 DEF SeenByNone
  <2> QED
    BY <1>1, <1>2, <2>1 DEF MarkerInv, MarkerStaysRemoved
<1>7. CASE Entries # {}
  BY <1>1, <1>2, <1>4, <1>5, <1>7 DEF MarkerInv, MarkerStaysRemoved
<1> QED
  BY <1>6, <1>7

\* The windows that remain write anew, or have seen nothing.
LEMMA ClosedMarks ==
  ASSUME NEW w \in Windows, MarkerTypeOK, StoreTypeOK, CoordinatorInv, MarkerInv,
         WindowClosed(w)
  PROVE  MarkerInv'
<1>1. UNCHANGED <<unsaved, marker, stopped>> /\ RefreshRemaining(w)
  BY DEF WindowClosed, storeVars
<1>2. Entries' = Entries \ {w}
  BY ClosedKeeps
<1>3. unsaved \in Snapshots /\ unsaved # None
  BY SnapshotsAre DEF StoreTypeOK
<1>4. PICK looks \in SUBSET Entries' :
        /\ observed' = [v \in Windows |-> IF v \in looks THEN unsaved ELSE None]
        /\ waiting' = [v \in Windows |-> IF v \in looks THEN unsaved
                                          ELSE IF v = w THEN None ELSE waiting[v]]
        /\ looks # {} => newest' \in looks
  BY <1>1, <1>2 DEF RefreshRemaining
<1>5. Entries' \subseteq Windows
  BY DEF Entries
<1>6. \A v \in Windows \ Entries' : observed'[v] = None
  BY <1>4
<1>7. CASE looks = {}
  <2>1. SeenByNone'
    BY <1>4, <1>5, <1>7 DEF SeenByNone
  <2> QED
    BY <1>1, <1>6, <2>1 DEF MarkerInv, MarkerStaysRemoved
<1>8. CASE looks # {}
  <2>1. newest' \in Entries' /\ newest' \in Windows
    BY <1>4, <1>5, <1>8
  <2>2. observed'[newest'] = unsaved /\ waiting'[newest'] = unsaved
    BY <1>4, <1>8, <2>1
  <2>3. SeenByOne'
    BY <1>3, <2>1, <2>2 DEF SeenByOne, NewestSays
  <2> QED
    BY <1>1, <1>6, <2>3 DEF MarkerInv, MarkerStaysRemoved
<1> QED
  BY <1>7, <1>8

LEMMA StepMarks ==
  WindowsTypeOK /\ CoordinatorInv /\ MarkerInv /\ [Next]_vars => MarkerInv'
<1> SUFFICES ASSUME WindowsTypeOK, CoordinatorInv, MarkerInv, [Next]_vars
             PROVE  MarkerInv'
  OBVIOUS
<1>0. MarkerTypeOK /\ StoreTypeOK /\ CoordinatorTypeOK
  BY TypesAre DEF CoordinatorInv
<1> USE DEF coordinatorVars, storeVars, markerVars, lookVars
<1>1. CASE Quit
  BY <1>1, QuitKeeps, KeepMarks DEF Quit
<1>2. CASE QuitWithoutWindows \/ UNCHANGED vars
  <2>1. UNCHANGED <<marker, stopped, observed, waiting, newest, writer>>
    BY <1>2 DEF QuitWithoutWindows, vars
  <2>2. Entries' = Entries
    BY <1>2, StillKeeps DEF Still
  <2> QED
    BY <2>1, <2>2, KeepMarks
<1>3. ASSUME NEW w \in Windows, MarkerStep(w) PROVE MarkerInv'
  <2>1. UNCHANGED <<phase, marker, stopped>> /\ unsaved' \in Snapshots
    BY <1>0, <1>3, MarkerStepsLeave DEF StoreTypeOK
  <2>2. Entries' = Entries
    BY <2>1 DEF Entries, In
  <2> QED
    BY <1>0, <1>3, <2>1, <2>2, MarkerStepsLook, LookMarks, KeepMarks, StartMarks
<1>4. ASSUME NEW w \in Windows, Cancel(w) PROVE MarkerInv'
  BY <1>4, CancelKeeps, KeepMarks DEF Cancel
<1>5. ASSUME NEW w \in Windows, Moves(w) PROVE MarkerInv'
  <2>1. Entries' = Entries
    BY <1>5, MovesKeep
  <2> QED
    BY <1>0, <1>5, <2>1, MovesLook, LookMarks, KeepMarks
<1>6. ASSUME NEW w \in Windows, NEW ok \in BOOLEAN, PublishCheckpoint(w, ok) PROVE MarkerInv'
  <2>1. /\ UNCHANGED <<observed, waiting, newest, writer>>
        /\ UNCHANGED <<marker, stopped>> \/ (stopped' /\ marker' = {})
    BY <1>6 DEF PublishCheckpoint
  <2> QED
    BY <1>6, <2>1, PublishKeeps, KeepMarks
<1>7. ASSUME NEW w \in Windows, NEW ok \in BOOLEAN, Release(w, ok) PROVE MarkerInv'
  BY <1>7, ReleaseKeeps, KeepMarks DEF Release
<1> QED
  BY <1>0, <1>1, <1>2, <1>3, <1>4, <1>5, <1>6, <1>7, LandMarks, OpenMarks, ClosedMarks, StepsAre
     DEF Still, Lands

\* When every open window has seen what is unsaved now and no write is on its
\* way, the marker says so, unless its newest write failed or was overtaken;
\* and a clean close has the last word (bin/butter-paper.rs and
\* session_manifest.rs, schedule_recovery_marker_checkpoint).
THEOREM MarkerIsTrue == Spec => []WindowsInv
<1>1. WindowsTypeOK /\ MarkerInv => MarkerNamesUnsaved /\ MarkerStaysRemoved
  <2> SUFFICES ASSUME WindowsTypeOK, MarkerInv, Entries # {}, ~ stopped, newest # "Lost",
                      \A w \in Windows : waiting[w] = None,
                      \A t \in Writers : writer[t] = None,
                      \A w \in Entries : observed[w] = unsaved
               PROVE  marker = unsaved
    BY DEF MarkerNamesUnsaved, MarkerInv
  <2>1. unsaved # None
    BY SnapshotsAre DEF WindowsTypeOK, Snapshots
  <2>2. SeenByOne
    BY <2>1 DEF MarkerInv, SeenByNone
  <2> QED
    BY <2>1, <2>2 DEF SeenByOne, NewestSays
<1> QED
  BY <1>1, InitTypes, StepTypes, InitMarker, StepMarks, CoordinatorIsSound, PTL
     DEF Spec, WindowsInv

=============================================================================
