-------------------------- MODULE PageTiles_proofs --------------------------
(***************************************************************************)
(* What the screen shows, whatever the pages, the edits, the slots and the *)
(* number of replaced workers, by three invariants.                        *)
(*                                                                         *)
(* EditsInv: WorkerDrawsShown speaks of the moments between updates; the   *)
(* inductive invariant also says what the worker draws while one is under  *)
(* way.  DrawnNow are the edits being sent once the worker has accepted    *)
(* them, and the acknowledged ones before and after.                       *)
(*                                                                         *)
(* DrawnInv: until the worker accepts an update, the caches and the tasks  *)
(* hold only what is of the acknowledged edits.  From then on they may     *)
(* hold a mixture, and the reply that ends it drops them all.              *)
(*                                                                         *)
(* ViewInv: claim_jobs fills the free slots and loses no job, a plan is    *)
(* the plan of what is visible, and a tile kept from before a change has   *)
(* its replacement queued, promised, being drawn, or reported as failed.   *)
(***************************************************************************)
EXTENDS PageTiles, FiniteSetTheorems, TLAPS

editVars == <<desired, epoch, worker, text, updates>>

\* The part of the type invariant the edits need.
EditsTypeOK ==
  /\ desired \in Edits /\ epoch \in Epochs
  /\ worker \in [running: BOOLEAN, edits: Edits, pages: Edits]
  /\ text \in [epoch: Epochs, shown: Edits, sending: Edits \cup {None},
               rejected: Edits \cup {None}]
  /\ updates \in [Epochs -> Update \cup {None}]

\* The text state is of this worker or of an earlier one, and no update was
\* sent to a worker that is still to come.
EpochsInOrder ==
  /\ text.epoch <= epoch
  /\ \A w \in Epochs : w > epoch => updates[w] = None

\* "sending" is what the update under way has sent.
OneUpdate ==
  IF text.epoch = epoch
  THEN \/ updates[epoch] = None /\ text.sending = None
       \/ updates[epoch] # None /\ text.sending = updates[epoch].edits
  ELSE updates[epoch] = None

DrawnNow ==
  IF updates[epoch] # None /\ updates[epoch].reply = "ok"
  THEN updates[epoch].edits ELSE TextNow.shown

EditsInv ==
  /\ EditsTypeOK
  /\ EpochsInOrder
  /\ OneUpdate
  /\ worker.edits = DrawnNow /\ worker.pages = DrawnNow

USE EditsAssumption, BoundsAssumption
-----------------------------------------------------------------------------
LEMMA NewTextType ==
  ASSUME NEW e \in Epochs
  PROVE  NewText(e) \in [epoch: Epochs, shown: Edits, sending: Edits \cup {None},
                         rejected: Edits \cup {None}]
BY DEF NewText

LEMMA InitEdits == Init => EditsInv
<1> SUFFICES ASSUME Init PROVE EditsInv
  OBVIOUS
<1>1. 0 \in Epochs
  BY DEF Epochs
<1>2. EditsTypeOK
  BY <1>1, NewTextType DEF Init, EditsTypeOK, NewWorker
<1>3. EpochsInOrder /\ OneUpdate
  BY <1>1 DEF Init, EpochsInOrder, OneUpdate, NewText, Epochs
<1>4. worker.edits = DrawnNow /\ worker.pages = DrawnNow
  BY <1>1 DEF Init, DrawnNow, TextNow, NewText, NewWorker
<1> QED
  BY <1>2, <1>3, <1>4 DEF EditsInv

\* A step that leaves the edits alone keeps the invariant.
LEMMA EditsUntouched == EditsInv /\ UNCHANGED editVars => EditsInv'
BY DEF EditsInv, editVars, EditsTypeOK, EpochsInOrder, OneUpdate, DrawnNow, TextNow, NewText

\* Sending the present edits on a text state of this epoch, when no update
\* is under way in it.
LEMMA SyncKeeps ==
  ASSUME EditsTypeOK, EpochsInOrder,
         NEW s \in [epoch: Epochs, shown: Edits, sending: Edits \cup {None},
                    rejected: Edits \cup {None}],
         NEW tasks \in [Epochs -> Update \cup {None}],
         s.epoch = epoch,
         \/ tasks[epoch] = None /\ s.sending = None
         \/ tasks[epoch] # None /\ s.sending = tasks[epoch].edits,
         \A w \in Epochs : w > epoch => tasks[w] = None,
         LET drawn == IF tasks[epoch] # None /\ tasks[epoch].reply = "ok"
                      THEN tasks[epoch].edits ELSE s.shown
         IN worker.edits = drawn /\ worker.pages = drawn,
         SyncFrom(s, tasks), UNCHANGED <<desired, epoch, worker>>
  PROVE  EditsInv'
<1>1. CASE Sends(s)
  <2>0. [edits |-> desired, reply |-> None] \in Update
    BY DEF EditsTypeOK, Update
  <2>1. s.sending = None /\ tasks[epoch] = None
    BY <1>1, <2>0 DEF Sends, EditsTypeOK, Update
  <2>2. /\ text' = [s EXCEPT !.sending = desired]
        /\ updates' = [tasks EXCEPT ![epoch] = [edits |-> desired, reply |-> None]]
    BY <1>1 DEF SyncFrom
  <2>3. EditsTypeOK'
    BY <2>0, <2>2 DEF EditsTypeOK
  <2>4. text'.epoch = epoch /\ text'.sending = desired /\ text'.shown = s.shown
    BY <2>2
  <2>5. updates'[epoch] = [edits |-> desired, reply |-> None] /\ updates'[epoch] # None
    BY <2>0, <2>2 DEF EditsTypeOK
  <2>6. EpochsInOrder'
    BY <2>2, <2>4 DEF EpochsInOrder, EditsTypeOK, Epochs
  <2>7. OneUpdate'
    BY <2>4, <2>5 DEF OneUpdate
  <2>8. DrawnNow' = s.shown
    BY <2>4, <2>5 DEF DrawnNow, TextNow
  <2> QED
    BY <2>1, <2>3, <2>6, <2>7, <2>8 DEF EditsInv
<1>2. CASE ~Sends(s)
  <2>1. text' = s /\ updates' = tasks
    BY <1>2 DEF SyncFrom
  <2>2. EditsTypeOK'
    BY <2>1 DEF EditsTypeOK
  <2>3. EpochsInOrder'
    BY <2>1 DEF EpochsInOrder, EditsTypeOK, Epochs
  <2>4. OneUpdate'
    BY <2>1 DEF OneUpdate
  <2>5. DrawnNow' = IF tasks[epoch] # None /\ tasks[epoch].reply = "ok"
                    THEN tasks[epoch].edits ELSE s.shown
    BY <2>1 DEF DrawnNow, TextNow
  <2> QED
    BY <2>1, <2>2, <2>3, <2>4, <2>5 DEF EditsInv
<1> QED
  BY <1>1, <1>2
-----------------------------------------------------------------------------
LEMMA SyncStep == EditsInv /\ SyncDocumentEdits => EditsInv'
<1> SUFFICES ASSUME EditsInv, SyncDocumentEdits PROVE EditsInv'
  OBVIOUS
<1>1. TextNow \in [epoch: Epochs, shown: Edits, sending: Edits \cup {None},
                   rejected: Edits \cup {None}]
  BY NewTextType DEF EditsInv, EditsTypeOK, TextNow
<1>2. TextNow.epoch = epoch
  BY DEF TextNow, NewText
<1>3. \/ updates[epoch] = None /\ TextNow.sending = None
      \/ updates[epoch] # None /\ TextNow.sending = updates[epoch].edits
  BY DEF EditsInv, OneUpdate, TextNow, NewText
<1> QED
  BY <1>1, <1>2, <1>3, SyncKeeps
     DEF EditsInv, EditsTypeOK, EpochsInOrder, DrawnNow, SyncDocumentEdits

LEMMA ExchangeStep ==
  ASSUME EditsInv, NEW w \in Epochs, ExchangeEdits(w)
  PROVE  EditsInv'
<1> PICK accepted \in BOOLEAN :
      /\ accepted => w = epoch /\ worker.running
      /\ updates' = [updates EXCEPT ![w].reply = IF accepted THEN "ok" ELSE "error"]
      /\ worker' = IF accepted
                   THEN [worker EXCEPT !.edits = updates[w].edits, !.pages = updates[w].edits]
                   ELSE worker
  BY DEF ExchangeEdits
<1>1. updates[w] \in Update /\ updates[w] # None /\ updates[w].reply = None
  BY DEF ExchangeEdits, EditsInv, EditsTypeOK
<1>2. updates'[w] = [edits |-> updates[w].edits, reply |-> IF accepted THEN "ok" ELSE "error"]
  BY <1>1 DEF EditsInv, EditsTypeOK, Update
<1>3. updates'[w] \in Update /\ updates'[w] # None
  BY <1>1, <1>2 DEF Update
<1>4. \A v \in Epochs \ {w} : updates'[v] = updates[v]
  BY DEF EditsInv, EditsTypeOK
<1>5. UNCHANGED <<desired, epoch, text>>
  BY DEF ExchangeEdits
<1>6. EditsTypeOK'
  <2>1. updates' \in [Epochs -> Update \cup {None}]
    BY <1>3, <1>4 DEF EditsInv, EditsTypeOK
  <2>2. worker' \in [running: BOOLEAN, edits: Edits, pages: Edits]
    BY <1>1 DEF EditsInv, EditsTypeOK, Update
  <2> QED
    BY <1>5, <2>1, <2>2 DEF EditsInv, EditsTypeOK
<1>7. EpochsInOrder'
  BY <1>1, <1>4, <1>5 DEF EditsInv, EpochsInOrder
<1>8. OneUpdate'
  <2>1. CASE w = epoch
    <3>1. updates'[epoch].edits = updates[epoch].edits /\ updates'[epoch] # None
      BY <1>2, <1>3, <2>1
    <3> QED
      BY <1>1, <1>5, <2>1, <3>1 DEF EditsInv, OneUpdate
  <2>2. CASE w # epoch
    BY <1>4, <1>5, <2>2 DEF EditsInv, EditsTypeOK, OneUpdate
  <2> QED
    BY <2>1, <2>2
<1>9. worker'.edits = DrawnNow' /\ worker'.pages = DrawnNow'
  <2>1. CASE accepted
    <3>1. worker'.edits = updates[w].edits /\ worker'.pages = updates[w].edits
      BY <2>1 DEF EditsInv, EditsTypeOK
    <3>2. DrawnNow' = updates[w].edits
      BY <1>2, <1>3, <1>5, <2>1 DEF DrawnNow
    <3> QED
      BY <3>1, <3>2
  <2>2. CASE ~accepted
    <3>1. TextNow' = TextNow /\ worker' = worker
      BY <1>5, <2>2 DEF TextNow, NewText
    <3>2. CASE w = epoch
      <4>1. updates'[epoch].reply = "error"
        BY <1>2, <2>2, <3>2
      <4> QED
        BY <1>1, <1>5, <3>1, <3>2, <4>1 DEF EditsInv, DrawnNow
    <3>3. CASE w # epoch
      <4>1. updates'[epoch] = updates[epoch]
        BY <1>4, <3>3 DEF EditsInv, EditsTypeOK
      <4> QED
        BY <1>5, <3>1, <4>1 DEF EditsInv, DrawnNow
    <3> QED
      BY <3>2, <3>3
  <2> QED
    BY <2>1, <2>2
<1> QED
  BY <1>6, <1>7, <1>8, <1>9 DEF EditsInv

LEMMA ReplyStep ==
  ASSUME EditsInv, NEW w \in Epochs, EditsReply(w)
  PROVE  EditsInv'
<1> DEFINE done == [updates EXCEPT ![w] = None]
           s == IF updates[w].reply = "ok"
                THEN [text EXCEPT !.sending = None, !.shown = updates[w].edits, !.rejected = None]
                ELSE [text EXCEPT !.sending = None, !.rejected = updates[w].edits]
<1>1. /\ updates[w] \in Update /\ updates[w] # None /\ updates[w].reply # None
      /\ UNCHANGED <<desired, epoch, worker>>
  BY DEF EditsReply, EditsInv, EditsTypeOK
<1>2. /\ done \in [Epochs -> Update \cup {None}] /\ done[w] = None
      /\ \A v \in Epochs \ {w} : done[v] = updates[v]
      /\ \A v \in Epochs : v > epoch => done[v] = None
  BY DEF EditsInv, EditsTypeOK, EpochsInOrder
<1>3. epoch \in Epochs /\ EditsTypeOK /\ EpochsInOrder
  BY DEF EditsInv, EditsTypeOK
<1>4. CASE text.epoch # w
  <2>1. updates' = done /\ text' = text
    BY <1>4 DEF EditsReply
  <2>2. EditsTypeOK' /\ EpochsInOrder'
    BY <1>1, <1>2, <1>3, <2>1 DEF EditsTypeOK, EpochsInOrder
  <2>3. done[epoch] = updates[epoch]
    BY <1>1, <1>2, <1>3, <1>4 DEF EditsInv, OneUpdate
  <2> QED
    BY <1>1, <2>1, <2>2, <2>3 DEF EditsInv, OneUpdate, DrawnNow, TextNow, NewText
<1>5. CASE text.epoch = w /\ w # epoch
  <2>1. SyncFrom(NewText(epoch), done)
    BY <1>5 DEF EditsReply
  <2>2. done[epoch] = None /\ updates[epoch] = None
    BY <1>2, <1>3, <1>5 DEF EditsInv, OneUpdate
  <2>3. NewText(epoch).epoch = epoch /\ NewText(epoch).sending = None
        /\ NewText(epoch).shown = TextNow.shown
    BY <1>5 DEF NewText, TextNow
  <2>4. worker.edits = NewText(epoch).shown /\ worker.pages = NewText(epoch).shown
    BY <2>2, <2>3 DEF EditsInv, DrawnNow
  <2>5. NewText(epoch) \in [epoch: Epochs, shown: Edits, sending: Edits \cup {None},
                            rejected: Edits \cup {None}]
    BY <1>3, NewTextType
  <2> HIDE DEF done
  <2> QED
    BY <1>1, <1>2, <1>3, <2>1, <2>2, <2>3, <2>4, <2>5, SyncKeeps
<1>6. CASE text.epoch = w /\ w = epoch
  <2>1. SyncFrom(s, done)
    BY <1>6 DEF EditsReply
  <2>2. s \in [epoch: Epochs, shown: Edits, sending: Edits \cup {None}, rejected: Edits \cup {None}]
    BY <1>1 DEF EditsInv, EditsTypeOK, Update
  <2>3. s.epoch = epoch /\ s.sending = None
    BY <1>6 DEF EditsInv, EditsTypeOK
  <2>4. worker.edits = s.shown /\ worker.pages = s.shown
    BY <1>1, <1>6 DEF EditsInv, EditsTypeOK, DrawnNow, TextNow
  <2> HIDE DEF done, s
  <2> QED
    BY <1>1, <1>2, <1>3, <1>6, <2>1, <2>2, <2>3, <2>4, SyncKeeps
<1> QED
  BY <1>4, <1>5, <1>6
-----------------------------------------------------------------------------
\* Only these steps touch what the worker draws or is believed to draw.
LEMMA NextEdits ==
  ASSUME Next
  PROVE  \/ UNCHANGED editVars
         \/ SyncDocumentEdits \/ WorkerStops \/ Reopen
         \/ \E e \in Edits : Edit(e)
         \/ \E w \in Epochs : ExchangeEdits(w) \/ EditsReply(w)
BY DEF Next, UserActs, TaskActs, WindowActs, editVars, Scroll, Relayout, RetryPage, ReadPageLists,
       DrawTile, PlanView, PromotionsDue, FinishStray, FinishTile

LEMMA StepEdits == EditsInv /\ [Next]_vars => EditsInv'
<1> SUFFICES ASSUME EditsInv, [Next]_vars PROVE EditsInv'
  OBVIOUS
<1>1. CASE UNCHANGED editVars
  BY <1>1, EditsUntouched
<1>2. CASE SyncDocumentEdits
  BY <1>2, SyncStep
<1>3. CASE WorkerStops
  BY <1>3 DEF WorkerStops, EditsInv, EditsTypeOK, EpochsInOrder, OneUpdate, DrawnNow, TextNow, NewText
<1>4. CASE Reopen
  <2>1. /\ epoch' = epoch + 1 /\ epoch' \in Epochs
        /\ worker' = NewWorker /\ UNCHANGED <<desired, text, updates>>
    BY <1>4 DEF Reopen, EditsInv, EditsTypeOK, Epochs
  <2>2. updates[epoch'] = None /\ text.epoch # epoch' /\ text.epoch <= epoch'
    BY <2>1 DEF EditsInv, EditsTypeOK, EpochsInOrder, Epochs
  <2>3. EditsTypeOK'
    BY <2>1 DEF EditsInv, EditsTypeOK, NewWorker
  <2>4. EpochsInOrder' /\ OneUpdate'
    BY <2>1, <2>2 DEF EditsInv, EditsTypeOK, EpochsInOrder, OneUpdate, Epochs
  <2>5. DrawnNow' = Unedited
    BY <2>1, <2>2 DEF DrawnNow, TextNow, NewText
  <2> QED
    BY <2>1, <2>3, <2>4, <2>5 DEF EditsInv, NewWorker
<1>5. CASE \E e \in Edits : Edit(e)
  BY <1>5 DEF Edit, EditsInv, EditsTypeOK, EpochsInOrder, OneUpdate, DrawnNow, TextNow, NewText
<1>6. CASE \E w \in Epochs : ExchangeEdits(w) \/ EditsReply(w)
  BY <1>6, ExchangeStep, ReplyStep
<1>7. CASE UNCHANGED vars
  BY <1>7, EditsUntouched DEF vars, editVars
<1> QED
  BY <1>1, <1>2, <1>3, <1>4, <1>5, <1>6, <1>7, NextEdits
-----------------------------------------------------------------------------
(* The view: tasks, queue and caches *)

Jobs == [tile: Tiles, quality: Qualities]

\* The part of the type invariant the view needs.
ViewTypeOK ==
  /\ visible \subseteq Tiles /\ planned \in BOOLEAN
  /\ plan \in (SUBSET Tiles) \cup {None}
  /\ jobs \subseteq ActiveJob /\ queue \subseteq Jobs /\ promotions \subseteq Jobs
  /\ cache \in [Tiles -> [Qualities -> Image \cup {None}]]
  /\ kept \in [Tiles -> Image \cup {None}]
  /\ pageErrors \subseteq Tiles /\ failure \in BOOLEAN

\* As many tasks run as there are slots, whatever plan they are of.
SlotsInv ==
  IsFiniteSet(jobs) /\ strays \in Nat /\ Cardinality(jobs) + strays <= MaxActive

\* The plan a view has made is the plan of what is visible now.
PlanInv == planned => plan = visible

ViewInv == ViewTypeOK /\ SlotsInv /\ PlanInv /\ KeptTilesAreReplaced

USE TilesAssumption

LEMMA JobsOfQualityAreFinite ==
  ASSUME NEW q
  PROVE  IsFiniteSet({Job(t, q) : t \in Tiles})
<1> DEFINE f == [t \in Tiles |-> Job(t, q)]
<1>1. f \in Surjection(Tiles, {Job(t, q) : t \in Tiles})
  BY DEF Surjection
<1> QED
  BY <1>1, FS_Surjection

LEMMA JobsAreFinite == IsFiniteSet(Jobs)
<1>1. IsFiniteSet({Job(t, "preview") : t \in Tiles} \cup {Job(t, "full") : t \in Tiles})
  BY JobsOfQualityAreFinite, FS_Union
<1>2. Jobs \subseteq {Job(t, "preview") : t \in Tiles} \cup {Job(t, "full") : t \in Tiles}
  BY DEF Jobs, Job, Qualities
<1> QED
  BY <1>1, <1>2, FS_Subset

\* What claim_jobs does: it fills the slots that are free and no more, keeps
\* the tasks there are, and loses no job that was queued.
LEMMA DispatchClaims ==
  ASSUME NEW q \in SUBSET Jobs,
         NEW active \in SUBSET ActiveJob, IsFiniteSet(active),
         NEW others \in Nat, Cardinality(active) + others <= MaxActive,
         Dispatch(q, active, others)
  PROVE  /\ jobs' \subseteq ActiveJob /\ queue' \subseteq Jobs
         /\ SlotsInv'
         /\ active \subseteq jobs'
         /\ \A a \in jobs' \ active : a.step = "claimed"
         /\ \A j \in q : j \in queue' \/ \E a \in jobs' : a.job = j
<1> DEFINE idle == MaxActive - Cardinality(active) - others
           n == IF idle < Cardinality(q) THEN idle ELSE Cardinality(q)
<1>1. IsFiniteSet(q) /\ Cardinality(q) \in Nat /\ Cardinality(active) \in Nat
  BY JobsAreFinite, FS_Subset, FS_CardinalityType
<1>2. idle \in Nat /\ n \in Nat /\ n <= idle
  BY <1>1
<1>3. PICK claimed \in SUBSET q :
        /\ Cardinality(claimed) = n
        /\ jobs' = active \cup {[job |-> j, step |-> "claimed"] : j \in claimed}
        /\ queue' = q \ claimed
        /\ strays' = others
  BY DEF Dispatch
<1> DEFINE begun == {[job |-> j, step |-> "claimed"] : j \in claimed}
<1>4. IsFiniteSet(begun) /\ Cardinality(begun) <= n
  <2> DEFINE f == [j \in claimed |-> [job |-> j, step |-> "claimed"]]
  <2>1. f \in Surjection(claimed, begun)
    BY DEF Surjection
  <2>2. IsFiniteSet(claimed)
    BY <1>1, FS_Subset
  <2> QED
    BY <1>3, <2>1, <2>2, FS_Surjection
<1>5. begun \subseteq ActiveJob
  BY DEF ActiveJob, Jobs
<1>6. IsFiniteSet(jobs') /\ Cardinality(jobs') <= Cardinality(active) + n
  <2>1. /\ IsFiniteSet(active \cup begun)
        /\ Cardinality(active \cup begun)
             = Cardinality(active) + Cardinality(begun) - Cardinality(active \cap begun)
    BY <1>4, FS_Union
  <2>2. IsFiniteSet(active \cap begun)
    BY <1>4, FS_Subset
  <2>3. Cardinality(active \cap begun) \in Nat /\ Cardinality(begun) \in Nat
    BY <1>4, <2>2, FS_CardinalityType
  <2> HIDE DEF n, begun
  <2> QED
    BY <1>1, <1>2, <1>3, <1>4, <2>1, <2>3 DEF begun
<1>7. Cardinality(jobs') \in Nat
  BY <1>6, FS_CardinalityType
<1>8. SlotsInv'
  <2>1. Cardinality(jobs') + others <= MaxActive
    <3> HIDE DEF n
    <3> QED
      BY <1>1, <1>2, <1>6, <1>7
  <2> QED
    BY <1>3, <1>6, <2>1 DEF SlotsInv
<1>9. \A j \in q : j \in queue' \/ \E a \in jobs' : a.job = j
  <2> TAKE j \in q
  <2>1. CASE j \in claimed
    <3>1. [job |-> j, step |-> "claimed"] \in jobs'
      BY <1>3, <2>1
    <3> QED
      BY <3>1
  <2> QED
    BY <1>3, <2>1
<1> HIDE DEF n, begun
<1> QED
  BY <1>3, <1>5, <1>8, <1>9 DEF begun

\* Everything that is being drawn becomes a stray: the slots stay taken.
LEMMA StraysTakeTheSlots ==
  ASSUME SlotsInv
  PROVE  AllStray \in Nat /\ AllStray <= MaxActive
         /\ IsFiniteSet({}) /\ Cardinality({}) + AllStray <= MaxActive
<1>1. Cardinality(jobs) \in Nat
  BY FS_CardinalityType DEF SlotsInv
<1> QED
  BY <1>1, FS_EmptySet DEF SlotsInv, AllStray
-----------------------------------------------------------------------------
LEMMA InitView == Init => ViewInv
<1> SUFFICES ASSUME Init PROVE ViewInv
  OBVIOUS
<1>1. /\ visible \in SUBSET Tiles /\ planned = FALSE /\ plan = None
      /\ queue = {} /\ promotions = {} /\ jobs = {} /\ strays = 0
      /\ cache = [t \in Tiles |-> [q \in Qualities |-> None]]
      /\ kept = [t \in Tiles |-> None]
      /\ pageErrors = {} /\ failure = FALSE
  BY DEF Init
<1>2. ViewTypeOK
  BY <1>1 DEF ViewTypeOK
<1>3. SlotsInv
  BY <1>1, FS_EmptySet DEF SlotsInv
<1> QED
  BY <1>1, <1>2, <1>3 DEF ViewInv, PlanInv, KeptTilesAreReplaced

LEMMA ViewUntouched == ViewInv /\ UNCHANGED <<visible, viewVars, failure>> => ViewInv'
BY DEF ViewInv, viewVars, ViewTypeOK, SlotsInv, PlanInv, KeptTilesAreReplaced

LEMMA PlanViewStep == ViewInv /\ PlanView => ViewInv'
<1> SUFFICES ASSUME ViewInv, PlanView PROVE ViewInv'
  OBVIOUS
<1> USE DEF ViewInv
<1> DEFINE active == IF plan = visible THEN jobs ELSE {}
           others == IF plan = visible THEN strays ELSE AllStray
           bare == {t \in visible : cache[t]["full"] = None}
           previewed == {t \in bare : cache[t]["preview"] # None}
           asked(direct) == {Job(t, IF t \in direct THEN "full" ELSE "preview") :
                               t \in bare \ previewed}
<1>1. PICK direct \in SUBSET (bare \ previewed) :
        /\ promotions' = {Job(t, "full") : t \in previewed}
        /\ Dispatch(Enqueued({}, asked(direct), active), active, others)
  BY DEF PlanView
<1>2. /\ planned' = TRUE /\ plan' = visible
      /\ UNCHANGED <<visible, cache, kept, pageErrors, failure>>
  BY DEF PlanView
<1>3. /\ active \in SUBSET ActiveJob /\ IsFiniteSet(active)
      /\ others \in Nat /\ Cardinality(active) + others <= MaxActive
  <2>1. CASE plan = visible
    BY <2>1 DEF ViewTypeOK, SlotsInv
  <2>2. CASE plan # visible
    BY <2>2, StraysTakeTheSlots
  <2> QED
    BY <2>1, <2>2
<1>4. asked(direct) \in SUBSET Jobs
  BY DEF ViewTypeOK, Jobs, Job, Qualities
<1>5. Enqueued({}, asked(direct), active) \in SUBSET Jobs
  BY <1>4 DEF Enqueued
<1> HIDE DEF active, others, asked
<1>6. /\ jobs' \subseteq ActiveJob /\ queue' \subseteq Jobs /\ SlotsInv'
      /\ active \subseteq jobs'
      /\ \A j \in Enqueued({}, asked(direct), active) : j \in queue' \/ \E a \in jobs' : a.job = j
  BY <1>1, <1>3, <1>5, DispatchClaims
<1>7. \A j \in asked(direct) : j \in queue' \/ \E a \in jobs' : a.job = j
  BY <1>6 DEF Enqueued
<1>8. ViewTypeOK'
  <2>1. promotions' \subseteq Jobs
    BY <1>1 DEF ViewTypeOK, Jobs, Job, Qualities
  <2> QED
    BY <1>2, <1>6, <2>1 DEF ViewTypeOK
<1>9. KeptTilesAreReplaced'
  <2> SUFFICES ASSUME NEW t \in Tiles, kept[t] # None
               PROVE  /\ cache[t]["full"] = None
                      /\ t \in visible =>
                           \/ \E j \in queue' \cup promotions' : j.tile = t
                           \/ \E a \in jobs' : a.job.tile = t
    BY <1>2 DEF KeptTilesAreReplaced
  <2>1. cache[t]["full"] = None
    BY DEF KeptTilesAreReplaced
  <2>2. ASSUME t \in visible
        PROVE  \/ \E j \in queue' \cup promotions' : j.tile = t
               \/ \E a \in jobs' : a.job.tile = t
    <3>1. t \in bare
      BY <2>1, <2>2
    <3>2. CASE t \in previewed
      <4>1. Job(t, "full") \in promotions' /\ Job(t, "full").tile = t
        BY <1>1, <3>2 DEF Job
      <4> QED
        BY <4>1
    <3>3. CASE t \notin previewed
      <4> DEFINE j == Job(t, IF t \in direct THEN "full" ELSE "preview")
      <4>1. j \in asked(direct)
        BY <3>1, <3>3 DEF asked
      <4>2. j.tile = t
        BY DEF Job
      <4> HIDE DEF j
      <4> QED
        BY <1>7, <4>1, <4>2
    <3> QED
      BY <3>2, <3>3
  <2> QED
    BY <2>1, <2>2
<1> QED
  BY <1>2, <1>6, <1>8, <1>9 DEF PlanInv

LEMMA PromotionsDueStep == ViewInv /\ PromotionsDue => ViewInv'
<1> SUFFICES ASSUME ViewInv, PromotionsDue PROVE ViewInv'
  OBVIOUS
<1> USE DEF ViewInv
<1>1. PICK due \in SUBSET promotions :
        /\ promotions' = promotions \ due
        /\ Dispatch(Enqueued(queue, due, jobs), jobs, strays)
  BY DEF PromotionsDue
<1>2. UNCHANGED <<visible, planned, plan, cache, kept, pageErrors, failure>>
  BY DEF PromotionsDue
<1>3. Enqueued(queue, due, jobs) \in SUBSET Jobs
  BY DEF Enqueued, ViewTypeOK
<1>4. /\ jobs' \subseteq ActiveJob /\ queue' \subseteq Jobs /\ SlotsInv'
      /\ jobs \subseteq jobs'
      /\ \A j \in Enqueued(queue, due, jobs) : j \in queue' \/ \E a \in jobs' : a.job = j
  BY <1>1, <1>3, DispatchClaims DEF ViewTypeOK, SlotsInv
<1>5. \A j \in queue \cup due : j \in queue' \/ \E a \in jobs' : a.job = j
  BY <1>4 DEF Enqueued
<1>6. ViewTypeOK'
  BY <1>1, <1>2, <1>4 DEF ViewTypeOK
<1>7. \A j \in queue \cup promotions : j \in queue' \cup promotions' \/ \E a \in jobs' : a.job = j
  BY <1>1, <1>5
<1>8. KeptTilesAreReplaced'
  <2> SUFFICES ASSUME NEW t \in Tiles, kept[t] # None, planned, t \in visible, t \notin pageErrors
               PROVE  \/ \E j \in queue' \cup promotions' : j.tile = t
                      \/ \E a \in jobs' : a.job.tile = t
    BY <1>2 DEF KeptTilesAreReplaced
  <2> QED
    BY <1>4, <1>7 DEF KeptTilesAreReplaced
<1> QED
  BY <1>2, <1>4, <1>6, <1>8 DEF PlanInv

\* A task that goes on to its next step keeps its slot and its tile.
LEMMA TaskGoesOn ==
  ASSUME ViewInv, NEW a \in jobs, NEW b \in ActiveJob, b.job = a.job,
         jobs' = (jobs \ {a}) \cup {b},
         UNCHANGED <<visible, planned, plan, queue, promotions, strays, cache, kept, pageErrors,
                     failure>>
  PROVE  ViewInv'
<1> USE DEF ViewInv
<1>1. ViewTypeOK'
  BY DEF ViewTypeOK
<1>2. SlotsInv'
  <2>1. IsFiniteSet(jobs \ {a}) /\ Cardinality(jobs \ {a}) = Cardinality(jobs) - 1
    BY FS_RemoveElement DEF SlotsInv
  <2>2. Cardinality(jobs) \in Nat
    BY FS_CardinalityType DEF SlotsInv
  <2>3. /\ IsFiniteSet(jobs') /\ Cardinality(jobs') <= Cardinality(jobs \ {a}) + 1
        /\ Cardinality(jobs') \in Nat
    <3>1. /\ IsFiniteSet(jobs')
          /\ Cardinality(jobs') = IF b \in jobs \ {a} THEN Cardinality(jobs \ {a})
                                  ELSE Cardinality(jobs \ {a}) + 1
      BY <2>1, FS_AddElement
    <3>2. Cardinality(jobs') \in Nat
      BY <3>1, FS_CardinalityType
    <3> QED
      BY <2>1, <2>2, <3>1, <3>2
  <2> QED
    BY <2>1, <2>2, <2>3 DEF SlotsInv
<1>3. \A c \in jobs : \E d \in jobs' : d.job = c.job
  OBVIOUS
<1>4. KeptTilesAreReplaced'
  <2> SUFFICES ASSUME NEW t \in Tiles, kept[t] # None, planned, t \in visible, t \notin pageErrors,
                      \A j \in queue \cup promotions : j.tile # t
               PROVE  \E d \in jobs' : d.job.tile = t
    BY DEF KeptTilesAreReplaced
  <2> QED
    BY <1>3 DEF KeptTilesAreReplaced
<1> QED
  BY <1>1, <1>2, <1>4 DEF PlanInv

LEMMA ReadPageListsStep ==
  ASSUME EditsTypeOK, ViewInv, NEW a \in jobs, ReadPageLists(a)
  PROVE  ViewInv'
<1> DEFINE b == [job |-> a.job, step |-> "listed", layout |-> worker.pages]
<1>1. a.job \in Jobs
  BY DEF ViewInv, ViewTypeOK, ActiveJob, Jobs
<1>2. b \in ActiveJob /\ b.job = a.job
  BY <1>1 DEF EditsTypeOK, ActiveJob, Jobs
<1>3. jobs' = (jobs \ {a}) \cup {b}
  BY DEF ReadPageLists
<1> HIDE DEF b
<1> QED
  BY <1>2, <1>3, TaskGoesOn DEF ReadPageLists

LEMMA DrawTileStep ==
  ASSUME EditsTypeOK, ViewInv, NEW a \in jobs, DrawTile(a)
  PROVE  ViewInv'
<1>1. a.job \in Jobs /\ a.layout \in Edits
  BY DEF ViewInv, ViewTypeOK, ActiveJob, Jobs, DrawTile
<1>2. PICK image \in {None, [edits |-> worker.edits, layout |-> a.layout]} :
        jobs' = (jobs \ {a}) \cup {[job |-> a.job, step |-> "done", image |-> image]}
  BY DEF DrawTile
<1> DEFINE b == [job |-> a.job, step |-> "done", image |-> image]
<1>3. b \in ActiveJob /\ b.job = a.job
  BY <1>1 DEF EditsTypeOK, ActiveJob, Jobs, Image
<1> HIDE DEF b
<1> QED
  BY <1>2, <1>3, TaskGoesOn DEF DrawTile, b

LEMMA FinishTileStep ==
  ASSUME ViewInv, NEW a \in jobs, FinishTile(a)
  PROVE  ViewInv'
<1> USE DEF ViewInv
<1> DEFINE drawn == a.image # None
           t == a.job.tile
           full == a.job.quality = "full"
<1>1. /\ a.step = "done"
      /\ cache' = IF drawn THEN [cache EXCEPT ![t][a.job.quality] = a.image] ELSE cache
      /\ kept' = IF drawn /\ full THEN [kept EXCEPT ![t] = None] ELSE kept
      /\ pageErrors' = IF drawn THEN pageErrors \ {t} ELSE pageErrors \cup {t}
      /\ promotions' = IF drawn /\ ~full THEN promotions \cup {Job(t, "full")} ELSE promotions
      /\ failure' \in BOOLEAN
      /\ Dispatch(queue, jobs \ {a}, strays)
      /\ UNCHANGED <<visible, planned, plan>>
  BY DEF FinishTile, Raise
<1>2. t \in Tiles /\ a.job.quality \in Qualities /\ a.image \in Image \cup {None}
  BY <1>1 DEF ViewTypeOK, ActiveJob
<1>3. /\ jobs \ {a} \in SUBSET ActiveJob /\ IsFiniteSet(jobs \ {a})
      /\ Cardinality(jobs \ {a}) + strays <= MaxActive
  <2>1. IsFiniteSet(jobs \ {a}) /\ Cardinality(jobs \ {a}) = Cardinality(jobs) - 1
    BY FS_RemoveElement DEF SlotsInv
  <2>2. Cardinality(jobs) \in Nat
    BY FS_CardinalityType DEF SlotsInv
  <2> QED
    BY <2>1, <2>2 DEF SlotsInv, ViewTypeOK
<1>4. /\ jobs' \subseteq ActiveJob /\ queue' \subseteq Jobs /\ SlotsInv'
      /\ jobs \ {a} \subseteq jobs'
      /\ \A j \in queue : j \in queue' \/ \E b \in jobs' : b.job = j
  BY <1>1, <1>3, DispatchClaims DEF ViewTypeOK, SlotsInv
<1>5. cache' \in [Tiles -> [Qualities -> Image \cup {None}]]
  BY <1>1, <1>2 DEF ViewTypeOK
<1>6. kept' \in [Tiles -> Image \cup {None}]
  BY <1>1, <1>2 DEF ViewTypeOK
<1>7. promotions' \subseteq Jobs
  BY <1>1, <1>2 DEF ViewTypeOK, Jobs, Job, Qualities
<1>8. ViewTypeOK'
  BY <1>1, <1>2, <1>4, <1>5, <1>6, <1>7 DEF ViewTypeOK
<1>9. KeptTilesAreReplaced'
  <2> SUFFICES ASSUME NEW u \in Tiles, kept'[u] # None
               PROVE  /\ cache'[u]["full"] = None
                      /\ (planned /\ u \in visible) =>
                           \/ u \in pageErrors'
                           \/ \E j \in queue' \cup promotions' : j.tile = u
                           \/ \E b \in jobs' : b.job.tile = u
    BY <1>1 DEF KeptTilesAreReplaced
  <2>1. kept[u] # None
    BY <1>1, <1>2 DEF ViewTypeOK
  <2>2. ~(drawn /\ full /\ u = t)
    BY <1>1, <1>2 DEF ViewTypeOK
  <2>3. cache'[u]["full"] = cache[u]["full"]
    BY <1>1, <1>2, <2>2 DEF ViewTypeOK, Qualities
  <2>4. ASSUME planned, u \in visible
        PROVE  \/ u \in pageErrors'
               \/ \E j \in queue' \cup promotions' : j.tile = u
               \/ \E b \in jobs' : b.job.tile = u
    <3>1. CASE u = t
      <4>1. CASE ~drawn
        BY <1>1, <3>1, <4>1
      <4>2. CASE drawn
        <5>1. Job(u, "full") \in promotions' /\ Job(u, "full").tile = u
          BY <1>1, <2>2, <3>1, <4>2 DEF Job
        <5> QED
          BY <5>1
      <4> QED
        BY <4>1, <4>2
    <3>2. CASE u # t
      <4>1. \/ u \in pageErrors
            \/ \E j \in queue \cup promotions : j.tile = u
            \/ \E b \in jobs : b.job.tile = u
        BY <2>1, <2>4 DEF KeptTilesAreReplaced
      <4>2. CASE u \in pageErrors
        BY <1>1, <3>2, <4>2
      <4>3. CASE \E j \in queue \cup promotions : j.tile = u
        <5>1. promotions \subseteq promotions'
          BY <1>1
        <5> QED
          BY <1>4, <4>3, <5>1
      <4>4. CASE \E b \in jobs : b.job.tile = u
        BY <1>4, <3>2, <4>4
      <4> QED
        BY <4>1, <4>2, <4>3, <4>4
    <3> QED
      BY <3>1, <3>2
  <2> QED
    BY <2>1, <2>3, <2>4 DEF KeptTilesAreReplaced
<1> QED
  BY <1>1, <1>4, <1>8, <1>9 DEF PlanInv

LEMMA FinishStrayStep == ViewInv /\ FinishStray => ViewInv'
<1> SUFFICES ASSUME ViewInv, FinishStray PROVE ViewInv'
  OBVIOUS
<1> USE DEF ViewInv
<1>1. /\ strays > 0 /\ failure' \in BOOLEAN
      /\ Dispatch(queue, jobs, strays - 1)
      /\ UNCHANGED <<visible, planned, plan, promotions, cache, kept, pageErrors>>
  BY DEF FinishStray, Raise, ViewTypeOK
<1>2. strays - 1 \in Nat /\ Cardinality(jobs) + (strays - 1) <= MaxActive
  BY <1>1, FS_CardinalityType DEF SlotsInv
<1>3. /\ jobs' \subseteq ActiveJob /\ queue' \subseteq Jobs /\ SlotsInv'
      /\ jobs \subseteq jobs'
      /\ \A j \in queue : j \in queue' \/ \E a \in jobs' : a.job = j
  BY <1>1, <1>2, DispatchClaims DEF ViewTypeOK, SlotsInv
<1>4. ViewTypeOK'
  BY <1>1, <1>3 DEF ViewTypeOK
<1>5. KeptTilesAreReplaced'
  <2> SUFFICES ASSUME NEW t \in Tiles, kept[t] # None, planned, t \in visible, t \notin pageErrors
               PROVE  \/ \E j \in queue' \cup promotions : j.tile = t
                      \/ \E a \in jobs' : a.job.tile = t
    BY <1>1 DEF KeptTilesAreReplaced
  <2> QED
    BY <1>3 DEF KeptTilesAreReplaced
<1> QED
  BY <1>1, <1>3, <1>4, <1>5 DEF PlanInv

LEMMA RetryPageStep ==
  ASSUME ViewInv, NEW t \in Tiles, RetryPage(t)
  PROVE  ViewInv'
<1> USE DEF ViewInv
<1> DEFINE q == IF cache[t]["full"] # None THEN {}
                ELSE IF cache[t]["preview"] # None THEN {Job(t, "full")} ELSE {Job(t, "preview")}
<1>1. /\ pageErrors' = pageErrors \ {t}
      /\ Dispatch(Enqueued(queue, q, jobs), jobs, strays)
      /\ UNCHANGED <<visible, planned, plan, promotions, cache, kept, failure>>
  BY DEF RetryPage
<1>2. q \subseteq Jobs
  BY DEF Jobs, Job, Qualities
<1>3. (plan # None /\ t \in plan /\ cache[t]["full"] = None) => \E j \in q : j.tile = t
  BY DEF Job
<1> HIDE DEF q
<1>4. Enqueued(queue, q, jobs) \in SUBSET Jobs
  BY <1>2 DEF Enqueued, ViewTypeOK
<1>5. /\ jobs' \subseteq ActiveJob /\ queue' \subseteq Jobs /\ SlotsInv'
      /\ jobs \subseteq jobs'
      /\ \A j \in Enqueued(queue, q, jobs) : j \in queue' \/ \E a \in jobs' : a.job = j
  BY <1>1, <1>4, DispatchClaims DEF ViewTypeOK, SlotsInv
<1>6. \A j \in queue \cup q : j \in queue' \/ \E a \in jobs' : a.job = j
  BY <1>5 DEF Enqueued
<1>7. ViewTypeOK'
  BY <1>1, <1>5 DEF ViewTypeOK
<1>8. KeptTilesAreReplaced'
  <2> SUFFICES ASSUME NEW u \in Tiles, kept[u] # None, planned, u \in visible,
                      u \notin pageErrors'
               PROVE  \/ \E j \in queue' \cup promotions : j.tile = u
                      \/ \E a \in jobs' : a.job.tile = u
    BY <1>1 DEF KeptTilesAreReplaced
  <2>1. CASE u = t
    <3>1. plan = visible /\ plan # None /\ cache[t]["full"] = None
      BY <2>1 DEF PlanInv, KeptTilesAreReplaced, ViewTypeOK
    <3> QED
      BY <1>3, <1>6, <2>1, <3>1
  <2>2. CASE u # t
    BY <1>1, <1>5, <1>6, <2>2 DEF KeptTilesAreReplaced
  <2> QED
    BY <2>1, <2>2
<1> QED
  BY <1>1, <1>5, <1>7, <1>8 DEF PlanInv

\* The plan is cancelled: what is kept waits for the next one.
LEMMA NothingPlanned ==
  ASSUME ViewInv, planned' = FALSE, UNCHANGED visible,
         plan' \in (SUBSET Tiles) \cup {None}, failure' \in BOOLEAN,
         jobs' = {}, strays' = AllStray, queue' = {}, promotions' = {},
         pageErrors' \subseteq Tiles,
         cache' \in [Tiles -> [Qualities -> Image \cup {None}]],
         kept' \in [Tiles -> Image \cup {None}],
         \A t \in Tiles : kept'[t] # None => cache'[t]["full"] = None
  PROVE  ViewInv'
<1>1. SlotsInv'
  BY StraysTakeTheSlots DEF ViewInv, SlotsInv
<1>2. ViewTypeOK'
  BY DEF ViewInv, ViewTypeOK
<1> QED
  BY <1>1, <1>2 DEF ViewInv, PlanInv, KeptTilesAreReplaced

LEMMA RefreshContentStep ==
  ASSUME ViewInv, RefreshContent, UNCHANGED <<visible, failure>>
  PROVE  ViewInv'
<1>1. \A t \in Tiles : kept[t] \in Image \cup {None} /\ Shown(t) \in Image \cup {None}
  BY DEF ViewInv, ViewTypeOK, Shown, Qualities
<1>2. kept' \in [Tiles -> Image \cup {None}]
  <2>1. kept' = [t \in Tiles |-> IF plan # None /\ t \in plan THEN Shown(t) ELSE kept[t]]
    BY DEF RefreshContent
  <2> QED
    BY <1>1, <2>1
<1>3. /\ cache' = [t \in Tiles |-> [q \in Qualities |-> None]]
      /\ planned' = FALSE /\ plan' = None
      /\ queue' = {} /\ promotions' = {} /\ jobs' = {} /\ strays' = AllStray
      /\ UNCHANGED pageErrors
  BY DEF RefreshContent
<1>4. /\ cache' \in [Tiles -> [Qualities -> Image \cup {None}]]
      /\ \A t \in Tiles : cache'[t]["full"] = None
  BY <1>3 DEF Qualities
<1> QED
  BY <1>2, <1>3, <1>4, NothingPlanned DEF ViewInv, ViewTypeOK

LEMMA RelayoutStep == ViewInv /\ Relayout => ViewInv'
<1> SUFFICES ASSUME ViewInv, Relayout PROVE ViewInv'
  OBVIOUS
<1> QED
  BY NothingPlanned DEF Relayout, CancelPlan, ViewInv, ViewTypeOK, KeptTilesAreReplaced

LEMMA ReopenStep == ViewInv /\ Reopen => ViewInv'
<1> SUFFICES ASSUME ViewInv, Reopen PROVE ViewInv'
  OBVIOUS
<1>1. /\ cache' = [t \in Tiles |-> [q \in Qualities |-> None]]
      /\ kept' = [t \in Tiles |-> None]
      /\ failure' = FALSE /\ UNCHANGED visible /\ CancelPlan
  BY DEF Reopen, InvalidateRaster
<1>2. /\ cache' \in [Tiles -> [Qualities -> Image \cup {None}]]
      /\ kept' \in [Tiles -> Image \cup {None}]
      /\ \A t \in Tiles : kept'[t] = None
  BY <1>1
<1> QED
  BY <1>1, <1>2, NothingPlanned DEF CancelPlan

LEMMA ScrollStep ==
  ASSUME ViewInv, NEW s \in SUBSET Tiles, Scroll(s)
  PROVE  ViewInv'
BY DEF Scroll, ViewInv, ViewTypeOK, SlotsInv, PlanInv, KeptTilesAreReplaced

LEMMA StepView == EditsInv /\ ViewInv /\ [Next]_vars => ViewInv'
<1> SUFFICES ASSUME EditsInv, ViewInv, [Next]_vars PROVE ViewInv'
  OBVIOUS
<1>1. CASE UNCHANGED <<visible, viewVars, failure>>
  BY <1>1, ViewUntouched
<1>2. CASE PlanView \/ PromotionsDue \/ FinishStray \/ Relayout \/ Reopen
  BY <1>2, PlanViewStep, PromotionsDueStep, FinishStrayStep, RelayoutStep, ReopenStep
<1>3. CASE \E a \in jobs : ReadPageLists(a) \/ DrawTile(a) \/ FinishTile(a)
  BY <1>3, ReadPageListsStep, DrawTileStep, FinishTileStep DEF EditsInv
<1>4. CASE \E t \in Tiles : RetryPage(t)
  BY <1>4, RetryPageStep
<1>5. CASE \E s \in SUBSET Tiles : Scroll(s)
  BY <1>5, ScrollStep
<1>6. CASE \E w \in Epochs : EditsReply(w)
  <2> PICK w \in Epochs : EditsReply(w)
    BY <1>6
  <2>1. UNCHANGED <<visible, failure>> /\ (RefreshContent \/ UNCHANGED viewVars)
    BY DEF EditsReply
  <2> QED
    BY <2>1, RefreshContentStep, ViewUntouched
<1>7. CASE \/ SyncDocumentEdits \/ WorkerStops
           \/ \E e \in Edits : Edit(e)
           \/ \E w \in Epochs : ExchangeEdits(w)
  <2>1. UNCHANGED <<visible, viewVars, failure>>
    BY <1>7 DEF SyncDocumentEdits, WorkerStops, Edit, ExchangeEdits
  <2> QED
    BY <2>1, ViewUntouched
<1>8. CASE UNCHANGED vars
  BY <1>8, ViewUntouched DEF vars
<1> QED
  BY <1>2, <1>3, <1>4, <1>5, <1>6, <1>7, <1>8 DEF Next, UserActs, TaskActs, WindowActs
-----------------------------------------------------------------------------
(* What is drawn and being drawn, between updates *)

\* No update was accepted whose reply is still to be handled.
Acknowledged == updates[epoch] = None \/ updates[epoch].reply # "ok"

ShownImage == [edits |-> TextNow.shown, layout |-> TextNow.shown]

\* Until the worker accepts an update, all there is in the caches is of the
\* acknowledged edits, and so is what the running tasks have read or drawn.
DrawnInv ==
  Acknowledged =>
    /\ \A t \in Tiles, q \in Qualities : cache[t][q] \in {None, ShownImage}
    /\ \A a \in jobs : /\ a.step = "listed" => a.layout = TextNow.shown
                       /\ a.step = "done" => a.image \in {None, ShownImage}

LEMMA InitDrawn == Init => DrawnInv
<1> SUFFICES ASSUME Init PROVE DrawnInv
  OBVIOUS
<1>1. jobs = {} /\ cache = [t \in Tiles |-> [q \in Qualities |-> None]]
  BY DEF Init
<1> QED
  BY <1>1 DEF DrawnInv

\* Tasks may start; nothing else changes what is drawn.
LEMMA OnlyClaims ==
  ASSUME DrawnInv, UNCHANGED <<epoch, text, updates, cache>>,
         NEW active \in SUBSET jobs, \A a \in jobs' \ active : a.step = "claimed"
  PROVE  DrawnInv'
BY DEF DrawnInv, Acknowledged, ShownImage, TextNow, NewText

LEMMA TextMovesOn ==
  ASSUME DrawnInv, UNCHANGED <<cache, jobs>>,
         Acknowledged' => Acknowledged /\ TextNow'.shown = TextNow.shown
  PROVE  DrawnInv'
BY DEF DrawnInv, ShownImage

LEMMA AllIsDropped ==
  ASSUME jobs' = {}, cache' = [t \in Tiles |-> [q \in Qualities |-> None]]
  PROVE  DrawnInv'
BY DEF DrawnInv

\* The steps that may start tasks, but for those that end one.
LEMMA DispatchesDrawn ==
  ASSUME ViewInv, DrawnInv,
         PlanView \/ PromotionsDue \/ FinishStray \/ \E t \in Tiles : RetryPage(t)
  PROVE  DrawnInv'
<1> SUFFICES /\ UNCHANGED <<epoch, text, updates, cache>>
             /\ \E active \in SUBSET jobs : \A a \in jobs' \ active : a.step = "claimed"
  BY OnlyClaims
<1>1. UNCHANGED <<epoch, text, updates, cache>>
  BY DEF PlanView, PromotionsDue, FinishStray, RetryPage
<1>2. \E q, others : \E active \in SUBSET jobs : Dispatch(q, active, others)
  <2>1. CASE PlanView
    BY <2>1 DEF PlanView
  <2>2. CASE ~PlanView
    BY <2>2 DEF PromotionsDue, FinishStray, RetryPage
  <2> QED
    BY <2>1, <2>2
<1>3. \E active \in SUBSET jobs : \A a \in jobs' \ active : a.step = "claimed"
  <2> PICK q, others : \E active \in SUBSET jobs : Dispatch(q, active, others)
    BY <1>2
  <2> PICK active \in SUBSET jobs : Dispatch(q, active, others)
    OBVIOUS
  <2>1. \A a \in jobs' \ active : a.step = "claimed"
    BY DEF Dispatch
  <2> QED
    BY <2>1
<1> QED
  BY <1>1, <1>3

\* The page lists are those of the edits the worker draws.
LEMMA ReadPageListsDrawn ==
  ASSUME EditsInv, DrawnInv, NEW a \in jobs, ReadPageLists(a)
  PROVE  DrawnInv'
<1> DEFINE b == [job |-> a.job, step |-> "listed", layout |-> worker.pages]
<1>1. jobs' = (jobs \ {a}) \cup {b} /\ UNCHANGED <<epoch, text, updates, cache>>
  BY DEF ReadPageLists
<1>2. Acknowledged' <=> Acknowledged
  BY <1>1 DEF Acknowledged
<1>3. ShownImage' = ShownImage /\ TextNow' = TextNow
  BY <1>1 DEF ShownImage, TextNow, NewText
<1>4. Acknowledged => b.step = "listed" /\ b.layout = TextNow.shown
  BY DEF EditsInv, DrawnNow, Acknowledged
<1> HIDE DEF b
<1> QED
  BY <1>1, <1>2, <1>3, <1>4 DEF DrawnInv

\* A task that read its page lists before an update draws nothing that is
\* kept after it; one that did not draws by the edits it read them with.
LEMMA DrawTileDrawn ==
  ASSUME EditsInv, DrawnInv, NEW a \in jobs, DrawTile(a)
  PROVE  DrawnInv'
<1>1. /\ a.step = "listed"
      /\ UNCHANGED <<epoch, text, updates, cache>>
  BY DEF DrawTile
<1>2. PICK image \in {None, [edits |-> worker.edits, layout |-> a.layout]} :
        jobs' = (jobs \ {a}) \cup {[job |-> a.job, step |-> "done", image |-> image]}
  BY DEF DrawTile
<1> DEFINE b == [job |-> a.job, step |-> "done", image |-> image]
<1>3. Acknowledged' <=> Acknowledged
  BY <1>1 DEF Acknowledged
<1>4. ShownImage' = ShownImage /\ TextNow' = TextNow
  BY <1>1 DEF ShownImage, TextNow, NewText
<1>5. Acknowledged => b.step = "done" /\ b.image \in {None, ShownImage}
  BY <1>1 DEF EditsInv, DrawnNow, Acknowledged, ShownImage, DrawnInv
<1>6. jobs' = (jobs \ {a}) \cup {b}
  BY <1>2
<1> HIDE DEF b
<1> QED
  BY <1>1, <1>3, <1>4, <1>5, <1>6 DEF DrawnInv

LEMMA FinishTileDrawn ==
  ASSUME ViewInv, DrawnInv, NEW a \in jobs, FinishTile(a)
  PROVE  DrawnInv'
<1> DEFINE t == a.job.tile
           r == a.job.quality
<1>1. /\ a.step = "done"
      /\ cache' = IF a.image # None THEN [cache EXCEPT ![t][r] = a.image] ELSE cache
      /\ Dispatch(queue, jobs \ {a}, strays)
      /\ UNCHANGED <<epoch, text, updates>>
  BY DEF FinishTile
<1>2. t \in Tiles /\ r \in Qualities
  BY DEF ViewInv, ViewTypeOK, ActiveJob
<1>3. Acknowledged' <=> Acknowledged
  BY <1>1 DEF Acknowledged
<1>4. ShownImage' = ShownImage /\ TextNow' = TextNow
  BY <1>1 DEF ShownImage, TextNow, NewText
<1>5. \A b \in jobs' : b \in jobs \/ b.step = "claimed"
  BY <1>1 DEF Dispatch
<1>6. \A u \in Tiles, q \in Qualities : cache'[u][q] \in {cache[u][q], a.image}
  BY <1>1, <1>2 DEF ViewInv, ViewTypeOK
<1>7. Acknowledged => a.image \in {None, ShownImage}
  BY <1>1 DEF DrawnInv
<1>8. \A u \in Tiles, q \in Qualities :
        Acknowledged => cache'[u][q] \in {None, ShownImage}
  BY <1>6, <1>7 DEF DrawnInv
<1> QED
  BY <1>3, <1>4, <1>5, <1>8 DEF DrawnInv

\* An update is sent only when none is under way, and sending it changes
\* neither what is shown nor what is drawn.
LEMMA SyncDrawn == EditsInv /\ DrawnInv /\ SyncDocumentEdits => DrawnInv'
<1> SUFFICES ASSUME EditsInv, DrawnInv, SyncDocumentEdits PROVE DrawnInv'
  OBVIOUS
<1>1. SyncFrom(TextNow, updates) /\ UNCHANGED <<epoch, cache, jobs>>
  BY DEF SyncDocumentEdits, viewVars
<1>2. TextNow.epoch = epoch
  BY DEF TextNow, NewText
<1>3. text'.epoch = epoch /\ text'.shown = TextNow.shown
  <2>1. TextNow \in [epoch: Epochs, shown: Edits, sending: Edits \cup {None},
                     rejected: Edits \cup {None}]
    BY NewTextType DEF EditsInv, EditsTypeOK, TextNow
  <2> QED
    BY <1>1, <1>2, <2>1 DEF SyncFrom
<1>4. TextNow'.shown = TextNow.shown
  BY <1>1, <1>3 DEF TextNow
<1>5. Acknowledged' => Acknowledged
  <2>1. CASE Sends(TextNow)
    <3>1. updates[epoch] = None
      BY <2>1 DEF Sends, EditsInv, EditsTypeOK, Update, OneUpdate, TextNow
    <3> QED
      BY <3>1 DEF Acknowledged
  <2>2. CASE ~Sends(TextNow)
    BY <1>1, <2>2 DEF SyncFrom, Acknowledged
  <2> QED
    BY <2>1, <2>2
<1> QED
  BY <1>1, <1>4, <1>5, TextMovesOn

LEMMA ExchangeDrawn ==
  ASSUME EditsInv, DrawnInv, NEW w \in Epochs, ExchangeEdits(w)
  PROVE  DrawnInv'
<1>1. updates[w] # None /\ updates[w].reply = None /\ UNCHANGED <<epoch, text, cache, jobs>>
  BY DEF ExchangeEdits, viewVars
<1>2. TextNow' = TextNow
  BY <1>1 DEF TextNow, NewText
<1>3. Acknowledged' => Acknowledged
  <2>1. CASE w = epoch
    BY <1>1, <2>1 DEF Acknowledged
  <2>2. CASE w # epoch
    <3>1. updates'[epoch] = updates[epoch]
      BY <2>2 DEF ExchangeEdits, EditsInv, EditsTypeOK
    <3> QED
      BY <1>1, <3>1 DEF Acknowledged
  <2> QED
    BY <2>1, <2>2
<1> QED
  BY <1>1, <1>2, <1>3, TextMovesOn

\* A reply either drops all that was drawn, or leaves the acknowledged edits
\* what they were.
LEMMA ReplyDrawn ==
  ASSUME EditsInv, DrawnInv, NEW w \in Epochs, EditsReply(w)
  PROVE  DrawnInv'
<1>1. /\ updates[w] \in Update /\ updates[w] # None /\ updates[w].reply # None
      /\ UNCHANGED <<desired, epoch>>
  BY DEF EditsReply, EditsInv, EditsTypeOK
<1>2. epoch \in Epochs
  BY DEF EditsInv, EditsTypeOK
<1>3. CASE RefreshContent
  BY <1>3, AllIsDropped DEF RefreshContent
<1>4. CASE text.epoch # w
  <2>1. updates' = [updates EXCEPT ![w] = None] /\ UNCHANGED <<text, cache, jobs>>
    BY <1>4 DEF EditsReply, viewVars
  <2>2. w # epoch
    BY <1>1, <1>4 DEF EditsInv, OneUpdate
  <2>3. updates'[epoch] = updates[epoch]
    BY <1>2, <2>1, <2>2 DEF EditsInv, EditsTypeOK
  <2>4. TextNow' = TextNow /\ (Acknowledged' <=> Acknowledged)
    BY <1>1, <2>1, <2>3 DEF TextNow, NewText, Acknowledged
  <2> QED
    BY <2>1, <2>4, TextMovesOn
<1>5. CASE text.epoch = w /\ ~RefreshContent
  <2> DEFINE done == [updates EXCEPT ![w] = None]
             s == IF w = epoch THEN [text EXCEPT !.sending = None, !.rejected = updates[w].edits]
                  ELSE NewText(epoch)
  <2>1. /\ updates[w].reply # "ok" /\ UNCHANGED <<cache, jobs>>
        /\ SyncFrom(s, done)
    BY <1>5 DEF EditsReply, viewVars
  <2>2. /\ s \in [epoch: Epochs, shown: Edits, sending: Edits \cup {None},
                  rejected: Edits \cup {None}]
        /\ s.epoch = epoch /\ s.shown = TextNow.shown
    <3>1. CASE w = epoch
      BY <1>1, <1>5, <3>1 DEF TextNow, EditsInv, EditsTypeOK, Update
    <3>2. CASE w # epoch
      BY <1>2, <1>5, <3>2, NewTextType DEF TextNow, NewText
    <3> QED
      BY <3>1, <3>2
  <2>3. text'.epoch = epoch /\ text'.shown = TextNow.shown
    <3> HIDE DEF s, done
    <3> QED
      BY <2>1, <2>2 DEF SyncFrom
  <2>4. TextNow'.shown = TextNow.shown
    BY <1>1, <2>3 DEF TextNow
  <2>5. Acknowledged
    BY <1>5, <2>1 DEF Acknowledged, EditsInv, OneUpdate
  <2> QED
    BY <2>1, <2>4, <2>5, TextMovesOn
<1> QED
  BY <1>3, <1>4, <1>5

LEMMA StepDrawn == EditsInv /\ ViewInv /\ DrawnInv /\ [Next]_vars => DrawnInv'
<1> SUFFICES ASSUME EditsInv, ViewInv, DrawnInv, [Next]_vars PROVE DrawnInv'
  OBVIOUS
<1>1. CASE PlanView \/ PromotionsDue \/ FinishStray \/ \E t \in Tiles : RetryPage(t)
  BY <1>1, DispatchesDrawn
<1>2. CASE \E a \in jobs : ReadPageLists(a) \/ DrawTile(a) \/ FinishTile(a)
  BY <1>2, ReadPageListsDrawn, DrawTileDrawn, FinishTileDrawn
<1>3. CASE SyncDocumentEdits \/ \E w \in Epochs : ExchangeEdits(w) \/ EditsReply(w)
  BY <1>3, SyncDrawn, ExchangeDrawn, ReplyDrawn
<1>4. CASE UNCHANGED <<epoch, text, updates, cache, jobs>>
  BY <1>4, TextMovesOn DEF TextNow, NewText, Acknowledged
<1>5. CASE WorkerStops \/ \E e \in Edits : Edit(e)
  BY <1>4, <1>5 DEF WorkerStops, Edit, viewVars
<1>6. CASE \E s \in SUBSET Tiles : Scroll(s)
  BY <1>4, <1>6 DEF Scroll
<1>7. CASE Relayout
  <2>1. jobs' = {} /\ UNCHANGED <<epoch, text, updates, cache>>
    BY <1>7 DEF Relayout, CancelPlan
  <2> QED
    BY <2>1, OnlyClaims
<1>8. CASE Reopen
  BY <1>8, AllIsDropped DEF Reopen, InvalidateRaster, CancelPlan
<1>9. CASE UNCHANGED vars
  BY <1>4, <1>9 DEF vars, viewVars
<1> QED
  BY <1>1, <1>2, <1>3, <1>5, <1>6, <1>7, <1>8, <1>9 DEF Next, UserActs, TaskActs, WindowActs
-----------------------------------------------------------------------------
IInv == EditsInv /\ ViewInv /\ DrawnInv

LEMMA SpecInv == Spec => []IInv
<1>1. Init => IInv
  BY InitEdits, InitView, InitDrawn DEF IInv
<1>2. IInv /\ [Next]_vars => IInv'
  BY StepEdits, StepView, StepDrawn DEF IInv
<1> QED
  BY <1>1, <1>2, PTL DEF Spec

\* Between updates none is under way, so none has been accepted.
LEMMA BetweenUpdates ==
  ASSUME EditsInv, TextNow.sending = None
  PROVE  updates[epoch] = None
BY DEF EditsInv, EditsTypeOK, Update, OneUpdate, TextNow

(***************************************************************************)
(* For any pages, edits and number of replaced workers: between updates    *)
(* the running worker draws, and has page lists of, the edits the          *)
(* workspace believes it shows (sync_document_edits, set_document_edits).  *)
(***************************************************************************)
THEOREM WorkerDraws == Spec => []WorkerDrawsShown
<1>1. IInv => WorkerDrawsShown
  <2> SUFFICES ASSUME EditsInv, TextNow.sending = None, worker.running
               PROVE  worker.edits = TextNow.shown /\ worker.pages = TextNow.shown
    BY DEF IInv, WorkerDrawsShown
  <2> QED
    BY BetweenUpdates DEF EditsInv, DrawnNow
<1> QED
  BY <1>1, SpecInv, PTL

(***************************************************************************)
(* For any pages, edits, number of slots and of replaced workers: between  *)
(* updates every tile in the caches shows the acknowledged edits, laid out *)
(* by the same edits (refresh_content, finish_at, shown_pages).            *)
(***************************************************************************)
THEOREM TilesShowEdits == Spec => []TilesShowAcknowledgedEdits
<1>1. IInv => TilesShowAcknowledgedEdits
  <2> SUFFICES ASSUME IInv, TextNow.sending = None
               PROVE  \A t \in Tiles, q \in Qualities : cache[t][q] \in {None, ShownImage}
    BY DEF TilesShowAcknowledgedEdits, ShownImage
  <2> QED
    BY BetweenUpdates DEF IInv, DrawnInv, Acknowledged
<1> QED
  BY <1>1, SpecInv, PTL

(***************************************************************************)
(* For any pages, edits, number of slots and of replaced workers: the      *)
(* state keeps its shape, never more tasks draw than there are slots, and  *)
(* what is kept from before a change is on its way to be replaced or has   *)
(* an error shown (plan_at, finish_at, retry_page, claim_jobs).            *)
(***************************************************************************)
THEOREM TilesAreSound == Spec => []TilesInv
<1>1. IInv => TilesInv
  <2> SUFFICES ASSUME IInv PROVE TypeOK
    BY DEF IInv, ViewInv, TilesInv
  <2>1. queue \cup promotions \subseteq [tile: Tiles, quality: Qualities]
    BY DEF IInv, ViewInv, ViewTypeOK, Jobs
  <2> QED
    BY <2>1 DEF IInv, EditsInv, EditsTypeOK, ViewInv, ViewTypeOK, SlotsInv, TypeOK
<1> QED
  BY <1>1, SpecInv, PTL
=============================================================================
