------------------------- MODULE PageRequests_proofs -------------------------
(***************************************************************************)
(* What the page requests of a document keep, for any file, any orders of  *)
(* its pages and any numbers of edits, turns, queued rotations and worker  *)
(* processes.                                                              *)
(*                                                                         *)
(* An answer is applied to the document as it then is, so the argument is  *)
(* about what may come between asking and applying.  Each operator that    *)
(* the callbacks are built from is shown to lead from a session to another *)
(* that is as sound (Leads): whatever changes the turn of the page that is *)
(* awaited starts a new generation, so an answer that will still be shown  *)
(* has the page's present turn, and the image is redrawn with the page     *)
(* (Answers, Depicts).  This is what PictureFollowsDocument lacks to be    *)
(* inductive.  It holds as long as no page is rearranged (Straight).       *)
(*                                                                         *)
(* A failed rotation undoes once, and only while no edit or undo began     *)
(* after its own; that undo takes back one revision, which is the          *)
(* rotation's (RotationFailedLeads, Adds).                                 *)
(*                                                                         *)
(* The lemmas of the first part are about the operators, those of the      *)
(* second about the actions.                                               *)
(***************************************************************************)
EXTENDS PageRequests, SequenceTheorems, TLAPS

\* The rotations begun are at most the edits made, and one that is pending
\* keeps navigations from starting.
Sane(s) ==
  /\ s \in Sessions
  /\ Len(s.queue) <= MaxQueue
  /\ s.strays + (IF s.rot = None THEN 0 ELSE 1) <= s.revs
  /\ s.rot # None => /\ s.rotating /\ s.rot.rev <= s.revs
                     /\ s.nav # None => ~s.nav.current
  /\ s.rec # None /\ s.open => s.recovering

\* What drawing another page, or the same one again, leaves alone.
Beside(s, t) ==
  /\ t.worker = s.worker /\ t.open = s.open /\ t.recovering = s.recovering /\ t.rec = s.rec
  /\ t.doc = s.doc /\ t.past = s.past /\ t.future = s.future /\ t.revs = s.revs
  /\ t.rotating = s.rotating /\ t.queue = s.queue
  /\ t.nav = s.nav /\ t.rot = s.rot /\ t.strays = s.strays

\* What no request changes: the worker, and a reopening but for its answer.
Kept(s, t) ==
  /\ t.worker = s.worker /\ t.open = s.open /\ t.recovering = s.recovering
  /\ t.rec = None <=> s.rec = None
  /\ s.rec # None => t.rec.worker = s.rec.worker /\ t.rec.step = s.rec.step

SameEdits(s, t) ==
  t.doc = s.doc /\ t.past = s.past /\ t.future = s.future /\ t.revs = s.revs

\* As long as no page is rearranged the document and its history have the
\* pages of the file, and so have the workers.
Straight(s) ==
  /\ s.doc.slots = FilePages
  /\ \A i \in DOMAIN s.past : s.past[i].slots = FilePages
  /\ \A i \in DOMAIN s.future : s.future[i].slots = FilePages
Plain == \A w \in Workers : order[w] = FilePages

\* The image, and an answer that will be shown, have the page and its turn.
Depicts(s) == s.image # None => s.image = PictureAt(s, s.image.index)
Answers(s) ==
  /\ s.nav # None /\ s.nav.current =>
       s.nav.turn = TurnAt(s, s.nav.page) /\ s.nav.drawn \in {None, FilePages[s.nav.page]}
  /\ s.rot # None =>
       s.rot.turn = TurnAt(s, s.rot.page) /\ s.rot.drawn \in {None, FilePages[s.rot.page]}
Faithful(s) == Straight(s) /\ Depicts(s) /\ Answers(s)

\* A step of the session that keeps all of this.
Leads(s, t) ==
  Sane(t) /\ Kept(s, t) /\ (Plain /\ Faithful(s) => Faithful(t))

USE FileAssumption, OrdersAssumption, BoundsAssumption, NoneAssumption
-----------------------------------------------------------------------------
LEMMA PagesAreListed ==
  /\ FilePages \in Seq(Pages) /\ Len(FilePages) \in Nat \ {0} /\ Indexes = DOMAIN FilePages
  /\ \A i \in Indexes : FilePages[i] \in Pages
  /\ 1 \in Indexes
<1>1. FilePages \in Seq(Pages) /\ Len(FilePages) > 0
  BY DEF Pages
<1>2. Len(FilePages) \in Nat \ {0} /\ DOMAIN FilePages = 1..Len(FilePages)
  BY <1>1
<1> QED  BY <1>1, <1>2 DEF Indexes

LEMMA OrderIsListed ==
  ASSUME NEW o \in Orders
  PROVE  /\ o \in Seq(Pages) /\ Len(o) \in Indexes
         /\ \A i \in Nat \ {0} : i <= Len(o) => o[i] \in Pages /\ i \in Indexes
         /\ \A i \in DOMAIN o : o[i] \in Pages /\ i \in Indexes
BY PagesAreListed DEF Pages, Indexes

LEMMA NewGenerationIsSane ==
  ASSUME NEW s, Sane(s)
  PROVE  /\ Leads(s, NewGeneration(s)) /\ SameEdits(s, NewGeneration(s))
         /\ NewGeneration(s).rot = None
         /\ s.nav = None => NewGeneration(s).nav = None
         /\ NewGeneration(s).nav # None => ~NewGeneration(s).nav.current
         /\ NewGeneration(s).queue = s.queue /\ NewGeneration(s).rotating = s.rotating
         /\ Straight(s) => Straight(NewGeneration(s))
         /\ Depicts(s) => Depicts(NewGeneration(s))
         /\ Answers(NewGeneration(s))
         /\ s.rot = None => NewGeneration(s).strays = s.strays
<1> DEFINE nav == IF s.nav = None THEN None
                  ELSE [s.nav EXCEPT !.current = FALSE, !.turn = 0, !.drawn = None]
           rec == IF s.rec = None THEN None ELSE [s.rec EXCEPT !.current = FALSE, !.turn = 0]
           strays == IF s.rot = None THEN s.strays ELSE s.strays + 1
           t == NewGeneration(s)
<1>0. s \in Sessions
  BY DEF Sane
<1>z. 0 \in Turns
  BY DEF Turns
<1>1. nav \in Navs \cup {None} /\ (nav # None => ~nav.current) /\ (s.nav = None => nav = None)
  <2>1. CASE s.nav = None
    BY <2>1
  <2>2. CASE s.nav # None
    <3>1. s.nav \in Navs /\ nav = [s.nav EXCEPT !.current = FALSE, !.turn = 0, !.drawn = None]
      BY <2>2, <1>0 DEF Sessions
    <3> QED  BY <3>1, <1>z DEF Navs
  <2> QED  BY <2>1, <2>2
<1>2. rec \in Recs \cup {None} /\ (rec = None <=> s.rec = None)
      /\ (s.rec # None => rec.worker = s.rec.worker /\ rec.step = s.rec.step)
  <2>1. CASE s.rec = None
    BY <2>1
  <2>2. CASE s.rec # None
    <3>1. s.rec \in Recs /\ rec = [s.rec EXCEPT !.current = FALSE, !.turn = 0]
      BY <2>2, <1>0 DEF Sessions
    <3> QED  BY <3>1, <2>2, <1>z DEF Recs
  <2> QED  BY <2>1, <2>2
<1>3. t = [s EXCEPT !.nav = nav, !.rot = None, !.strays = strays, !.rec = rec]
  BY <1>0 DEF NewGeneration, Sessions
<1>4. strays \in 0..MaxEdits /\ strays <= s.revs
  BY <1>0 DEF Sane, Sessions
<1> HIDE DEF nav, rec, strays, t
<1>5. t \in Sessions
  BY <1>0, <1>1, <1>2, <1>3, <1>4 DEF Sessions
<1>6. /\ t.nav = nav /\ t.rot = None /\ t.strays = strays /\ t.rec = rec
      /\ t.worker = s.worker /\ t.open = s.open /\ t.recovering = s.recovering
      /\ t.doc = s.doc /\ t.past = s.past /\ t.future = s.future /\ t.revs = s.revs
      /\ t.queue = s.queue /\ t.rotating = s.rotating /\ t.current = s.current
      /\ t.image = s.image
  BY <1>0, <1>3 DEF Sessions
<1>7. Sane(t)
  BY <1>1, <1>2, <1>4, <1>5, <1>6 DEF Sane
<1>8. Kept(s, t) /\ SameEdits(s, t)
  BY <1>6, <1>2 DEF Kept, SameEdits
<1>9. (Straight(s) => Straight(t)) /\ (Depicts(s) => Depicts(t)) /\ Answers(t)
  BY <1>6, <1>1 DEF Straight, Depicts, Answers, PictureAt, TurnAt
<1>10. s.rot = None => t.strays = s.strays
  BY <1>6 DEF strays
<1> QED  BY <1>7, <1>8, <1>9, <1>10, <1>6, <1>1 DEF t, Leads, Faithful

LEMMA PictureIsTyped ==
  ASSUME NEW s, s \in Sessions
  PROVE  /\ Count(s) \in Indexes /\ s.doc \in Doc
         /\ \A i \in DOMAIN s.doc.slots :
               i \in Indexes /\ s.doc.slots[i] \in Pages
               /\ TurnAt(s, i) \in Turns /\ PictureAt(s, i) \in Picture
         /\ \A i \in Indexes : i <= Count(s) => i \in DOMAIN s.doc.slots
<1>1. s.doc \in Doc /\ s.doc.slots \in Orders /\ s.doc.turns \in [Pages -> Turns]
  BY DEF Sessions, Doc
<1>2. \A i \in DOMAIN s.doc.slots : i \in Indexes /\ s.doc.slots[i] \in Pages
  BY <1>1, OrderIsListed
<1>3. Count(s) \in Indexes /\ DOMAIN s.doc.slots = 1..Count(s)
  BY <1>1, OrderIsListed DEF Count
<1>4. \A i \in DOMAIN s.doc.slots : TurnAt(s, i) \in Turns
  BY <1>1, <1>2 DEF TurnAt
<1> QED  BY <1>1, <1>2, <1>3, <1>4 DEF PictureAt, Picture, Indexes

LEMMA BesideIsSane ==
  ASSUME NEW s, Sane(s), NEW t \in Sessions, Beside(s, t)
  PROVE  /\ Sane(t) /\ Kept(s, t) /\ SameEdits(s, t)
         /\ Straight(s) => Straight(t)
         /\ Answers(s) => Answers(t)
         /\ Depicts(t) /\ Faithful(s) => Faithful(t)
<1>1. Sane(t)
  BY DEF Sane, Beside
<1>2. Kept(s, t) /\ SameEdits(s, t)
  BY DEF Beside, Kept, SameEdits
<1>3. (Straight(s) => Straight(t)) /\ (Answers(s) => Answers(t))
  BY DEF Straight, Answers, Beside, TurnAt
<1> QED  BY <1>1, <1>2, <1>3 DEF Faithful

LEMMA PlaceheldIsBeside ==
  ASSUME NEW s \in Sessions, NEW i \in DOMAIN s.doc.slots, NEW t \in Placeheld(s, i)
  PROVE  t \in Sessions /\ Beside(s, t) /\ (Depicts(s) => Depicts(t))
<1>1. CASE t = s
  BY <1>1 DEF Beside
<1>2. CASE t # s
  <2> PICK shown \in {None, PictureAt(s, i)} :
        t = [[s EXCEPT !.current = i, !.placeholder = i] EXCEPT !.image = shown]
    <3>1. PictureAt([s EXCEPT !.current = i, !.placeholder = i], i) = PictureAt(s, i)
      BY DEF PictureAt, TurnAt, Sessions
    <3> QED  BY <1>2, <3>1 DEF Placeheld
  <2>1. i \in Indexes /\ shown \in Picture \cup {None}
    BY PictureIsTyped
  <2>2. t \in Sessions
    BY <2>1 DEF Sessions
  <2>3. Beside(s, t) /\ t.image = shown
    BY DEF Sessions, Beside
  <2>4. Depicts(t)
    BY <2>3 DEF Depicts, PictureAt, TurnAt, Beside
  <2> QED  BY <2>2, <2>3, <2>4
<1> QED  BY <1>1, <1>2

LEMMA PageShownIsBeside ==
  ASSUME NEW s \in Sessions, NEW i \in Indexes, NEW p \in Picture
  PROVE  /\ PageShown(s, i, p) \in Sessions /\ Beside(s, PageShown(s, i, p))
         /\ p = PictureAt(s, p.index) => Depicts(PageShown(s, i, p))
<1> DEFINE t == PageShown(s, i, p)
<1>1. t \in Sessions
  BY DEF PageShown, Sessions
<1>2. Beside(s, t) /\ t.image = p
  BY DEF PageShown, Sessions, Beside
<1>3. p = PictureAt(s, p.index) => Depicts(t)
  BY <1>2 DEF Depicts, PictureAt, TurnAt, Beside
<1> QED  BY <1>1, <1>2, <1>3

LEMMA RequestedIsBeside ==
  ASSUME NEW s \in Sessions, NEW i \in Indexes
  PROVE  LET t == [s EXCEPT !.requested = i]
         IN t \in Sessions /\ Beside(s, t) /\ (Depicts(s) => Depicts(t))
<1> DEFINE t == [s EXCEPT !.requested = i]
<1>1. t \in Sessions
  BY DEF Sessions
<1>2. Beside(s, t) /\ t.image = s.image
  BY DEF Sessions, Beside
<1>3. Depicts(s) => Depicts(t)
  BY <1>2 DEF Depicts, PictureAt, TurnAt, Beside
<1> QED  BY <1>1, <1>2, <1>3

LEMMA PageFailedIsBeside ==
  ASSUME NEW s \in Sessions
  PROVE  PageFailed(s) \in Sessions /\ Beside(s, PageFailed(s)) /\ (Depicts(s) => Depicts(PageFailed(s)))
<1> DEFINE t == PageFailed(s)
<1>1. t \in Sessions
  BY DEF PageFailed, Sessions
<1>2. Beside(s, t) /\ t.image = s.image
  BY DEF PageFailed, Sessions, Beside
<1>3. Depicts(s) => Depicts(t)
  BY <1>2 DEF Depicts, PictureAt, TurnAt, Beside
<1> QED  BY <1>1, <1>2, <1>3

LEMMA RolledBackIsBeside ==
  ASSUME NEW s \in Sessions, order \in [Workers -> Orders]
  PROVE  /\ RolledBack(s) \in Sessions /\ Beside(s, RolledBack(s))
         /\ CanRedraw(s) => Redrawn(s) \in Sessions /\ Beside(s, Redrawn(s))
         /\ Plain /\ Straight(s) /\ CanRedraw(s) => Depicts(Redrawn(s))
         /\ Plain /\ Straight(s) /\ Depicts(s) => Depicts(RolledBack(s))
<1> DEFINE t == Redrawn(s)
           p == [index |-> s.current, page |-> order[s.worker][s.current], turn |-> TurnAt(s, s.current)]
<1>0. t = [s EXCEPT !.image = p]
  BY DEF Redrawn
<1>a. s.worker \in Workers /\ s.current \in Indexes /\ order[s.worker] \in Orders
  BY DEF Sessions
<1>1. ASSUME CanRedraw(s)
      PROVE  t \in Sessions /\ Beside(s, t) /\ (Plain /\ Straight(s) => Depicts(t))
  <2>1. s.current \in DOMAIN s.doc.slots /\ order[s.worker][s.current] \in Pages
    BY <1>1, <1>a, OrderIsListed, PictureIsTyped DEF CanRedraw, Indexes
  <2>2. p \in Picture
    BY <2>1, <1>a, PictureIsTyped DEF Picture
  <2> HIDE DEF t, p
  <2>3. t \in Sessions
    BY <1>0, <2>2 DEF Sessions
  <2>4. Beside(s, t) /\ t.image = p
    BY <1>0 DEF Sessions, Beside
  <2>5. ASSUME Plain, Straight(s) PROVE p = PictureAt(s, s.current)
    BY <2>5, <1>a DEF p, PictureAt, Plain, Straight
  <2>6. p.index = s.current
    BY DEF p
  <2>7. Plain /\ Straight(s) => Depicts(t)
    BY <2>4, <2>5, <2>6 DEF Depicts, PictureAt, TurnAt, Beside
  <2> QED  BY <2>3, <2>4, <2>7
<1>2. Beside(s, s)
  BY DEF Beside
<1> QED  BY <1>1, <1>2 DEF RolledBack

LEMMA LeadsOn ==
  ASSUME NEW s, NEW t, NEW u, Leads(s, t), Leads(t, u)
  PROVE  Leads(s, u)
BY DEF Leads, Kept

LEMMA BesideOn ==
  ASSUME NEW s, NEW t, NEW u, Beside(s, t), Beside(t, u)
  PROVE  Beside(s, u)
BY DEF Beside

LEMMA BesideLeads ==
  ASSUME NEW s, Sane(s), NEW t \in Sessions, Beside(s, t),
         Plain /\ Faithful(s) => Depicts(t)
  PROVE  /\ Leads(s, t) /\ SameEdits(s, t) /\ t.nav = s.nav /\ t.rot = s.rot
         /\ t.queue = s.queue /\ t.rotating = s.rotating
BY BesideIsSane DEF Leads, Beside
-----------------------------------------------------------------------------
LEMMA NavigateToLeads ==
  ASSUME NEW s, Sane(s), NEW i \in Indexes, NEW t \in NavigateTo(s, i),
         order \in [Workers -> Orders]
  PROVE  /\ Leads(s, t) /\ SameEdits(s, t) /\ t.rot \in {s.rot, None}
         /\ t.queue = s.queue /\ t.rotating = s.rotating
<1> DEFINE u == [s EXCEPT !.requested = i]
           begun == NewGeneration(u)
           asked == [page |-> i, turn |-> TurnAt(s, i), current |-> TRUE, drawn |-> Drawn(s, i)]
           asking == [begun EXCEPT !.nav = asked]
<1>0. s \in Sessions
  BY DEF Sane
<1>1. Leads(s, u) /\ SameEdits(s, u) /\ u.rot = s.rot /\ u.queue = s.queue
      /\ u.rotating = s.rotating /\ u \in Sessions /\ u.nav = s.nav
      /\ (Depicts(s) => Depicts(u)) /\ u.doc = s.doc /\ Beside(s, u)
  <2>1. u \in Sessions /\ Beside(s, u) /\ (Depicts(s) => Depicts(u))
    BY <1>0, RequestedIsBeside
  <2> QED  BY <2>1, BesideLeads DEF Faithful, SameEdits
<1>2. CASE t = s
  BY <1>2 DEF Leads, Kept, SameEdits
<1>3. CASE s.nav # None /\ i <= Count(s) /\ t \in Placeheld(u, i)
  <2>1. i \in DOMAIN u.doc.slots
    BY <1>0, <1>1, <1>3, PictureIsTyped
  <2> HIDE DEF u
  <2>2. t \in Sessions /\ Beside(u, t) /\ (Depicts(u) => Depicts(t))
    BY <1>1, <1>3, <2>1, PlaceheldIsBeside
  <2>3. Leads(u, t) /\ SameEdits(u, t) /\ t.rot = u.rot /\ t.queue = u.queue /\ t.rotating = u.rotating
    BY <1>1, <2>2, BesideLeads DEF Leads, Faithful
  <2> QED  BY <1>1, <2>3, LeadsOn DEF SameEdits
<1>4. ASSUME s.nav = None, i <= Count(s)
      PROVE  /\ i \in DOMAIN begun.doc.slots /\ begun \in Sessions /\ Sane(begun)
             /\ Leads(s, begun) /\ SameEdits(s, begun) /\ begun.rot = None /\ begun.nav = None
             /\ begun.queue = s.queue /\ begun.rotating = s.rotating
             /\ PictureAt(s, i) = PictureAt(begun, i) /\ PictureAt(s, i) \in Picture
  <2>1. Sane(u)
    BY <1>1 DEF Leads
  <2> HIDE DEF u
  <2>2. Leads(u, begun) /\ SameEdits(u, begun) /\ begun.rot = None /\ begun.queue = u.queue
        /\ begun.rotating = u.rotating /\ (u.nav = None => begun.nav = None)
    BY <2>1, NewGenerationIsSane
  <2> HIDE DEF begun
  <2>3. Leads(s, begun) /\ SameEdits(s, begun) /\ begun.doc = s.doc
    BY <1>1, <2>2, LeadsOn DEF SameEdits
  <2>4. Sane(begun) /\ begun \in Sessions
    BY <2>2 DEF Leads, Sane
  <2>5. i \in DOMAIN s.doc.slots
    BY <1>0, <1>4, PictureIsTyped
  <2>6. PictureAt(s, i) = PictureAt(begun, i) /\ PictureAt(s, i) \in Picture
    BY <2>3, <2>5, <1>0, PictureIsTyped DEF PictureAt, TurnAt
  <2> QED  BY <1>1, <1>4, <2>2, <2>3, <2>4, <2>5, <2>6
<1>5. CASE /\ s.nav = None /\ i <= Count(s)
           /\ \E v \in Placeheld(begun, i) : t = PageShown(v, i, PictureAt(s, i))
  <2> PICK v \in Placeheld(begun, i) : t = PageShown(v, i, PictureAt(s, i))
    BY <1>5
  <2> HIDE DEF begun
  <2>1. v \in Sessions /\ Beside(begun, v)
    BY <1>4, <1>5, PlaceheldIsBeside
  <2>2. PictureAt(s, i) = PictureAt(v, i) /\ PictureAt(s, i).index = i
    BY <1>4, <1>5, <2>1 DEF Beside, PictureAt, TurnAt
  <2>3. t \in Sessions /\ Beside(v, t) /\ Depicts(t)
    BY <1>4, <1>5, <2>1, <2>2, PageShownIsBeside
  <2>4. Leads(begun, t) /\ SameEdits(begun, t) /\ t.rot = begun.rot /\ t.queue = begun.queue
        /\ t.rotating = begun.rotating
    BY <1>4, <1>5, <2>1, <2>3, BesideOn, BesideLeads
  <2> QED  BY <1>4, <1>5, <2>4, LeadsOn DEF SameEdits
<1>6. CASE s.nav = None /\ i <= Count(s) /\ t \in Placeheld(asking, i) /\ ~s.rotating
  <2>1. Drawn(s, i) \in Pages \cup {None} /\ (Plain => Drawn(s, i) \in {FilePages[i], None})
    <3>1. order[s.worker] \in Orders /\ s.worker \in Workers
      BY <1>0 DEF Sessions
    <3> QED  BY <3>1, OrderIsListed DEF Drawn, Indexes, Plain
  <2>2. i \in DOMAIN s.doc.slots /\ TurnAt(s, i) \in Turns
    BY <1>0, <1>6, PictureIsTyped
  <2>3. asked \in Navs
    BY <2>1, <2>2 DEF Navs
  <2>4. asked.current /\ asked.turn = TurnAt(s, i) /\ asked.page = i /\ asked.drawn = Drawn(s, i)
    OBVIOUS
  <2> HIDE DEF begun, asked
  <2>5. asking \in Sessions
    BY <1>4, <1>6, <2>3, ZenonT(60) DEF Sessions
  <2>6. /\ asking.nav = asked /\ asking.rot = None /\ asking.strays = begun.strays
        /\ asking.rec = begun.rec /\ asking.worker = begun.worker /\ asking.open = begun.open
        /\ asking.recovering = begun.recovering /\ asking.doc = begun.doc
        /\ asking.past = begun.past /\ asking.future = begun.future /\ asking.revs = begun.revs
        /\ asking.queue = begun.queue /\ asking.rotating = begun.rotating
        /\ asking.image = begun.image
    BY <1>4, <1>6 DEF Sessions
  <2> HIDE DEF asking
  <2>7. Sane(asking)
    BY <1>4, <1>6, <2>5, <2>6 DEF Sane
  <2>8. Kept(begun, asking) /\ SameEdits(begun, asking)
    BY <2>6 DEF Kept, SameEdits
  <2>9. begun.doc = s.doc
    BY <1>4, <1>6 DEF SameEdits
  <2>10. Plain /\ Faithful(begun) => Faithful(asking)
    BY <2>1, <2>4, <2>6, <2>9 DEF Faithful, Straight, Depicts, Answers, PictureAt, TurnAt
  <2>11. Leads(begun, asking)
    BY <2>7, <2>8, <2>10 DEF Leads
  <2>12. i \in DOMAIN asking.doc.slots
    BY <1>4, <1>6, <2>6
  <2>13. t \in Sessions /\ Beside(asking, t) /\ (Depicts(asking) => Depicts(t))
    BY <1>6, <2>5, <2>12, PlaceheldIsBeside
  <2>14. Leads(asking, t) /\ SameEdits(asking, t) /\ t.rot = asking.rot /\ t.queue = asking.queue
         /\ t.rotating = asking.rotating
    BY <2>7, <2>13, BesideLeads DEF Faithful
  <2> QED  BY <1>4, <1>6, <2>6, <2>8, <2>11, <2>14, LeadsOn DEF SameEdits
<1>7. Count(s) \in Nat /\ i \in Nat
  BY <1>0, PictureIsTyped DEF Indexes
<1>8. \/ t = s
      \/ s.nav # None /\ i <= Count(s) /\ t \in Placeheld(u, i)
      \/ /\ s.nav = None /\ i <= Count(s) /\ ~s.rotating
         /\ t \in {PageShown(v, i, PictureAt(s, i)) : v \in Placeheld(begun, i)}
                 \cup Placeheld(asking, i)
  <2>1. CASE s.nav # None
    BY <2>1, <1>7 DEF NavigateTo
  <2>2. CASE s.nav = None /\ (s.rotating \/ i > Count(s))
    BY <2>2 DEF NavigateTo
  <2>3. CASE s.nav = None /\ ~s.rotating /\ ~(i > Count(s))
    <3>1. NavigateTo(s, i) = {PageShown(v, i, PictureAt(s, i)) : v \in Placeheld(begun, i)}
                             \cup Placeheld(asking, i)
      BY <2>3, Zenon DEF NavigateTo
    <3>2. i <= Count(s)
      BY <2>3, <1>7
    <3> HIDE DEF u, begun, asked, asking
    <3>3. t \in {PageShown(v, i, PictureAt(s, i)) : v \in Placeheld(begun, i)}
                \cup Placeheld(asking, i)
      BY <3>1
    <3> QED  BY <2>3, <3>2, <3>3
  <2> QED  BY <2>1, <2>2, <2>3
<1> QED  BY <1>2, <1>3, <1>5, <1>6, <1>8

\* What an answer to request n of session s may be.
Answer(s, n, d) ==
  d # "error" => /\ d \in Pages
                 /\ Plain /\ n.drawn \in {None, FilePages[n.page]} => d = FilePages[n.page]

LEMMA AnswersOfIsAnswer ==
  ASSUME NEW n, n.page \in Indexes, n.drawn \in Pages \cup {None}, NEW d \in AnswersOf(n),
         order \in [Workers -> Orders], session \in Sessions
  PROVE  Answer(session, n, d)
<1>1. session.worker \in Workers /\ order[session.worker] \in Orders
  BY DEF Sessions
<1>2. CASE n.drawn # None /\ d = n.drawn
  BY <1>2 DEF Answer
<1>3. CASE n.page \in DOMAIN order[session.worker] /\ d = order[session.worker][n.page]
  BY <1>1, <1>3, OrderIsListed DEF Answer, Plain
<1> QED  BY <1>2, <1>3 DEF AnswersOf, Answer

LEMMA NavigationEndsLeads ==
  ASSUME NEW s, Sane(s), s.nav # None, NEW d, Answer(s, s.nav, d), NEW t \in NavigationEnds(s, d),
         order \in [Workers -> Orders]
  PROVE  Leads(s, t) /\ SameEdits(s, t)
<1> DEFINE n == s.nav
           superseded == s.requested # n.page /\ s.placeholder = s.requested
           free == [s EXCEPT !.nav = None]
           picture == [index |-> n.page, page |-> d, turn |-> n.turn]
           u == IF superseded THEN free
                ELSE IF d = "error" THEN PageFailed(free)
                ELSE PageShown(free, n.page, picture)
<1>0. s \in Sessions /\ n \in Navs /\ n.page \in Indexes /\ n.turn \in Turns
  BY DEF Sane, Sessions, Navs
<1>1. free \in Sessions /\ Leads(s, free) /\ SameEdits(s, free)
  <2>1. free \in Sessions
    BY <1>0 DEF Sessions
  <2>2. /\ free.nav = None /\ free.rot = s.rot /\ free.strays = s.strays /\ free.rec = s.rec
        /\ free.worker = s.worker /\ free.open = s.open /\ free.recovering = s.recovering
        /\ free.doc = s.doc /\ free.past = s.past /\ free.future = s.future /\ free.revs = s.revs
        /\ free.queue = s.queue /\ free.rotating = s.rotating /\ free.image = s.image
    BY <1>0 DEF Sessions
  <2> HIDE DEF free
  <2>3. Sane(free)
    BY <2>1, <2>2 DEF Sane
  <2>4. Faithful(s) => Faithful(free)
    BY <2>2 DEF Faithful, Straight, Depicts, Answers, PictureAt, TurnAt
  <2> QED  BY <2>1, <2>2, <2>3, <2>4 DEF Leads, Kept, SameEdits
<1>2. CASE t = free
  BY <1>1, <1>2
<1>3. ASSUME superseded \/ n.current
      PROVE  Leads(s, u) /\ SameEdits(s, u) /\ u.requested \in Indexes
  <2>1. CASE superseded
    BY <2>1, <1>1 DEF Sessions
  <2>2. CASE ~superseded /\ d = "error"
    <3>1. u = PageFailed(free)
      BY <2>2
    <3> HIDE DEF free, u
    <3>2. u \in Sessions /\ Beside(free, u) /\ (Depicts(free) => Depicts(u))
      BY <3>1, <1>1, PageFailedIsBeside
    <3>3. Leads(free, u) /\ SameEdits(free, u)
      BY <3>2, <1>1, BesideLeads DEF Leads, Faithful
    <3> QED  BY <3>2, <3>3, <1>1, LeadsOn DEF SameEdits, Sessions
  <2>3. CASE ~superseded /\ d # "error"
    <3>1. u = PageShown(free, n.page, picture)
      BY <2>3
    <3>2. d \in Pages /\ picture \in Picture /\ n.current
      BY <2>3, <1>3, <1>0 DEF Answer, Picture
    <3>3. ASSUME Plain, Faithful(s)
          PROVE  picture = PictureAt(free, n.page) /\ picture.index = n.page
      <4>1. n.turn = TurnAt(s, n.page) /\ d = FilePages[n.page] /\ s.doc.slots = FilePages
        BY <2>3, <3>2, <3>3 DEF Faithful, Answers, Answer, Straight
      <4>2. free.doc = s.doc
        BY <1>1 DEF SameEdits
      <4> QED  BY <4>1, <4>2 DEF PictureAt, TurnAt
    <3> HIDE DEF free, u, picture
    <3>4. u \in Sessions /\ Beside(free, u) /\ (picture = PictureAt(free, picture.index) => Depicts(u))
      BY <3>1, <3>2, <1>0, <1>1, PageShownIsBeside
    <3>5. Kept(s, u) /\ Sane(u) /\ SameEdits(s, u)
      BY <3>4, <1>1, BesideIsSane DEF Leads, Kept, SameEdits
    <3>6. ASSUME Plain, Faithful(s) PROVE Faithful(u)
      BY <3>3, <3>4, <3>6, <1>1, BesideIsSane DEF Leads, Faithful
    <3> QED  BY <3>4, <3>5, <3>6 DEF Leads, Sessions
  <2> QED  BY <2>1, <2>2, <2>3
<1>4. CASE (superseded \/ n.current) /\ t = u
  BY <1>3, <1>4
<1>5. CASE (superseded \/ n.current) /\ t \in NavigateTo(u, u.requested)
  <2>1. Leads(s, u) /\ SameEdits(s, u) /\ u.requested \in Indexes
    BY <1>3, <1>5
  <2> HIDE DEF u
  <2>2. Leads(u, t) /\ SameEdits(u, t)
    BY <2>1, <1>5, NavigateToLeads DEF Leads
  <2> QED  BY <2>1, <2>2, LeadsOn DEF SameEdits
<1> QED  BY <1>2, <1>4, <1>5 DEF NavigationEnds
-----------------------------------------------------------------------------
\* "a" is "b" with another document.
EditsOnly(b, a) ==
  /\ a.worker = b.worker /\ a.open = b.open /\ a.recovering = b.recovering /\ a.rec = b.rec
  /\ a.rotating = b.rotating /\ a.queue = b.queue
  /\ a.nav = b.nav /\ a.rot = b.rot /\ a.strays = b.strays
  /\ a.current = b.current /\ a.requested = b.requested /\ a.placeholder = b.placeholder
  /\ a.image = b.image /\ a.failure = b.failure

LEMMA RearrangedIsBeside ==
  ASSUME NEW s \in Sessions, NEW before
  PROVE  Rearranged(s, before) \in Sessions /\ Beside(s, Rearranged(s, before))
<1> DEFINE slots == s.doc.slots
           At(i) == {j \in DOMAIN slots : i <= Len(before) /\ slots[j] = before[i]}
           current == IF At(s.current) # {} THEN CHOOSE j \in At(s.current) : TRUE
                      ELSE IF s.current < Len(slots) THEN s.current ELSE Len(slots)
           kept == s.image # None /\ current \in At(s.image.index)
           image == IF kept THEN [s.image EXCEPT !.index = current] ELSE None
           t == Rearranged(s, before)
<1>1. current \in Indexes
  <2>1. CASE At(s.current) # {}
    <3>1. current \in At(s.current)
      BY <2>1
    <3> QED  BY <3>1, PictureIsTyped
  <2>2. CASE At(s.current) = {}
    <3>1. s.current \in Indexes /\ Len(slots) \in Indexes
      BY PictureIsTyped DEF Sessions, Count
    <3> QED  BY <2>2, <3>1
  <2> QED  BY <2>1, <2>2
<1>2. t = [s EXCEPT !.current = current, !.requested = current, !.placeholder = None,
                    !.image = image]
  BY DEF Rearranged
<1>3. image \in Picture \cup {None}
  <2> HIDE DEF current
  <2>1. CASE kept
    <3>1. s.image \in Picture /\ image = [s.image EXCEPT !.index = current]
      BY <2>1 DEF Sessions
    <3> HIDE DEF kept, image
    <3> QED  BY <3>1, <1>1 DEF Picture
  <2> QED  BY <2>1
<1> HIDE DEF current, image, t
<1>4. t \in Sessions
  BY <1>1, <1>2, <1>3 DEF Sessions
<1>5. Beside(s, t)
  BY <1>2 DEF Sessions, Beside
<1> QED  BY <1>4, <1>5 DEF t

LEMMA NewStateIsTyped ==
  ASSUME NEW s, Sane(s), s.revs < MaxEdits, NEW slots \in Orders, NEW turns \in [Pages -> Turns]
  PROVE  LET t == NewState(s, slots, turns)
         IN /\ Sane(t) /\ EditsOnly(s, t) /\ t.revs = s.revs + 1
            /\ t.doc.slots = slots /\ t.doc.turns = turns /\ t.doc.rev = s.revs + 1
            /\ Timeline(s) \subseteq Timeline(t)
            /\ Straight(s) /\ slots = FilePages => Straight(t)
<1> DEFINE doc == [slots |-> slots, turns |-> turns, rev |-> s.revs + 1]
           t == NewState(s, slots, turns)
<1>1. s \in Sessions /\ s.past \in Seq(Doc) /\ s.doc \in Doc /\ s.revs \in 0..MaxEdits
  BY DEF Sane, Sessions
<1>2. doc \in Doc /\ s.revs + 1 \in 0..MaxEdits
  BY <1>1 DEF Doc
<1>3. Append(s.past, s.doc) \in Seq(Doc) /\ <<>> \in Seq(Doc)
  BY <1>1
<1>4. t = [s EXCEPT !.doc = doc, !.revs = s.revs + 1, !.past = Append(s.past, s.doc), !.future = <<>>]
  BY DEF NewState
<1>5. doc.slots = slots /\ doc.turns = turns /\ doc.rev = s.revs + 1
  OBVIOUS
<1> HIDE DEF doc, t
<1>6. t \in Sessions
  BY <1>1, <1>2, <1>3, <1>4 DEF Sessions
<1>7. t.doc = doc /\ t.past = Append(s.past, s.doc) /\ t.future = <<>> /\ t.revs = s.revs + 1
  BY <1>1, <1>4 DEF Sessions
<1>8. EditsOnly(s, t)
  BY <1>1, <1>4 DEF Sessions, EditsOnly
<1>9. s.strays \in 0..MaxEdits /\ (s.rot # None => s.rot.rev \in 0..MaxEdits)
  BY <1>1 DEF Sessions, Rots
<1>10. Sane(t)
  BY <1>1, <1>6, <1>7, <1>8, <1>9 DEF Sane, EditsOnly
<1>11. /\ \A i \in DOMAIN s.past : i \in DOMAIN t.past /\ t.past[i] = s.past[i]
       /\ Len(t.past) \in DOMAIN t.past /\ t.past[Len(t.past)] = s.doc
       /\ \A i \in DOMAIN t.past : i \in DOMAIN s.past \/ t.past[i] = s.doc
       /\ \A i \in DOMAIN t.past : i \in DOMAIN s.past => t.past[i] = s.past[i]
  BY <1>1, <1>7
<1>12. Timeline(s) \subseteq Timeline(t)
  BY <1>11 DEF Timeline
<1>13. Straight(s) /\ slots = FilePages => Straight(t)
  BY <1>5, <1>7, <1>11 DEF Straight
<1> QED  BY <1>5, <1>7, <1>8, <1>10, <1>12, <1>13 DEF t

LEMMA UndoneIsTyped ==
  ASSUME NEW s, Sane(s), s.past # <<>>
  PROVE  LET t == Undone(s)
         IN /\ Sane(t) /\ EditsOnly(s, t) /\ t.revs = s.revs
            /\ Timeline(s) \ {s.doc.rev} \subseteq Timeline(t)
            /\ Straight(s) => Straight(t)
<1> DEFINE t == Undone(s)
<1>1. s \in Sessions /\ s.past \in Seq(Doc) /\ s.future \in Seq(Doc) /\ s.doc \in Doc
  BY DEF Sane, Sessions
<1>2. /\ Last(s.past) = s.past[Len(s.past)] /\ Len(s.past) \in DOMAIN s.past
      /\ Front(s.past) = SubSeq(s.past, 1, Len(s.past) - 1)
  BY <1>1 DEF Last, Front
<1>3. /\ Last(s.past) \in Doc /\ Front(s.past) \in Seq(Doc) /\ Append(s.future, s.doc) \in Seq(Doc)
      /\ DOMAIN Front(s.past) = 1 .. Len(s.past) - 1
      /\ \A i \in DOMAIN Front(s.past) : i \in DOMAIN s.past /\ Front(s.past)[i] = s.past[i]
      /\ \A i \in DOMAIN s.past : i = Len(s.past) \/ i \in DOMAIN Front(s.past)
  BY <1>1, <1>2
<1>4. t = [s EXCEPT !.doc = Last(s.past), !.past = Front(s.past), !.future = Append(s.future, s.doc)]
  BY DEF Undone
<1> HIDE DEF t
<1>5. t \in Sessions
  BY <1>1, <1>3, <1>4 DEF Sessions
<1>6. /\ t.doc = Last(s.past) /\ t.past = Front(s.past) /\ t.future = Append(s.future, s.doc)
      /\ t.revs = s.revs
  BY <1>1, <1>4 DEF Sessions
<1>7. EditsOnly(s, t)
  BY <1>1, <1>4 DEF Sessions, EditsOnly
<1>8. Sane(t)
  BY <1>5, <1>6, <1>7 DEF Sane, EditsOnly
<1>9. Timeline(s) \ {s.doc.rev} \subseteq Timeline(t)
  <2> SUFFICES ASSUME NEW r \in Timeline(s), r # s.doc.rev PROVE r \in Timeline(t)
    OBVIOUS
  <2>1. PICK i \in DOMAIN s.past : r = s.past[i].rev
    BY DEF Timeline
  <2>2. CASE i = Len(s.past)
    BY <1>2, <1>6, <2>1, <2>2 DEF Timeline
  <2>3. CASE i \in DOMAIN Front(s.past)
    <3>1. i \in DOMAIN t.past /\ t.past[i].rev = r
      BY <1>3, <1>6, <2>1, <2>3
    <3> QED  BY <3>1 DEF Timeline
  <2> QED  BY <1>3, <2>2, <2>3
<1>10. ASSUME Straight(s) PROVE Straight(t)
  <2>1. t.doc.slots = FilePages
    BY <1>2, <1>6, <1>10 DEF Straight
  <2>2. \A i \in DOMAIN t.past : t.past[i].slots = FilePages
    BY <1>3, <1>6, <1>10 DEF Straight
  <2>3. \A i \in DOMAIN t.future : (i \in DOMAIN s.future /\ t.future[i] = s.future[i]) \/ t.future[i] = s.doc
    BY <1>1, <1>6
  <2> QED  BY <2>1, <2>2, <2>3, <1>10 DEF Straight
<1> QED  BY <1>6, <1>7, <1>8, <1>9, <1>10 DEF t

LEMMA RedoneIsTyped ==
  ASSUME NEW s, Sane(s), s.future # <<>>
  PROVE  LET t == Redone(s)
         IN /\ Sane(t) /\ EditsOnly(s, t) /\ t.revs = s.revs
            /\ Straight(s) => Straight(t)
<1> DEFINE t == Redone(s)
<1>1. s \in Sessions /\ s.past \in Seq(Doc) /\ s.future \in Seq(Doc) /\ s.doc \in Doc
  BY DEF Sane, Sessions
<1>2. /\ Last(s.future) = s.future[Len(s.future)] /\ Len(s.future) \in DOMAIN s.future
      /\ Front(s.future) = SubSeq(s.future, 1, Len(s.future) - 1)
  BY <1>1 DEF Last, Front
<1>3. /\ Last(s.future) \in Doc /\ Front(s.future) \in Seq(Doc) /\ Append(s.past, s.doc) \in Seq(Doc)
      /\ \A i \in DOMAIN Front(s.future) : i \in DOMAIN s.future /\ Front(s.future)[i] = s.future[i]
  BY <1>1, <1>2
<1>4. t = [s EXCEPT !.doc = Last(s.future), !.future = Front(s.future), !.past = Append(s.past, s.doc)]
  BY DEF Redone
<1> HIDE DEF t
<1>5. t \in Sessions
  BY <1>1, <1>3, <1>4 DEF Sessions
<1>6. /\ t.doc = Last(s.future) /\ t.future = Front(s.future) /\ t.past = Append(s.past, s.doc)
      /\ t.revs = s.revs
  BY <1>1, <1>4 DEF Sessions
<1>7. EditsOnly(s, t)
  BY <1>1, <1>4 DEF Sessions, EditsOnly
<1>8. Sane(t)
  BY <1>5, <1>6, <1>7 DEF Sane, EditsOnly
<1>9. ASSUME Straight(s) PROVE Straight(t)
  <2>1. t.doc.slots = FilePages
    BY <1>2, <1>6, <1>9 DEF Straight
  <2>2. \A i \in DOMAIN t.future : t.future[i].slots = FilePages
    BY <1>3, <1>6, <1>9 DEF Straight
  <2>3. \A i \in DOMAIN t.past : (i \in DOMAIN s.past /\ t.past[i] = s.past[i]) \/ t.past[i] = s.doc
    BY <1>1, <1>6
  <2> QED  BY <2>1, <2>2, <2>3, <1>9 DEF Straight
<1> QED  BY <1>6, <1>7, <1>8, <1>9 DEF t

LEMMA CommittedDone ==
  ASSUME NEW b \in Sessions, NEW a \in Sessions, EditsOnly(b, a),
         NEW t \in Committed(b, a).done, order \in [Workers -> Orders]
  PROVE  /\ t \in Sessions /\ Beside(a, t)
         /\ Plain /\ Straight(b) /\ Straight(a) /\ Depicts(b) => Depicts(t)
<1> DEFINE turned == b.doc.turns # a.doc.turns
           shifted == b.doc.slots # a.doc.slots
<1>1. ~(turned /\ ~shifted /\ ~CanRedraw(a))
  BY DEF Committed
<1>2. t = IF shifted THEN Rearranged(a, b.doc.slots) ELSE IF turned THEN Redrawn(a) ELSE a
  BY <1>1 DEF Committed
<1>3. CASE shifted
  <2>1. ~(Straight(b) /\ Straight(a))
    BY <1>3 DEF Straight
  <2> QED  BY <1>2, <1>3, <2>1, RearrangedIsBeside
<1>4. CASE ~shifted /\ turned
  BY <1>1, <1>2, <1>4, RolledBackIsBeside
<1>5. CASE ~shifted /\ ~turned
  <2>1. t = a
    BY <1>2, <1>5
  <2>2. Depicts(b) => Depicts(a)
    BY <1>5 DEF Depicts, PictureAt, TurnAt, EditsOnly
  <2> QED  BY <2>1, <2>2 DEF Beside
<1> QED  BY <1>3, <1>4, <1>5

LEMMA CommittedRefused ==
  ASSUME NEW b \in Sessions, NEW a \in Sessions, EditsOnly(b, a),
         NEW t \in Committed(b, a).refused, order \in [Workers -> Orders]
  PROVE  /\ t \in Sessions /\ t.revs \in {b.revs, a.revs}
         /\ Beside([b EXCEPT !.revs = t.revs], t)
         /\ Plain /\ Straight(b) /\ Straight(a) /\ Depicts(b) => Depicts(t)
<1> DEFINE shifted == b.doc.slots # a.doc.slots
           forward == [Rearranged(a, b.doc.slots) EXCEPT !.doc = b.doc]
           back == IF shifted THEN Rearranged(forward, a.doc.slots) ELSE RolledBack(b)
           r == [b EXCEPT !.revs = t.revs]
<1>1. CASE t = b
  <2>1. r = b
    BY <1>1 DEF Sessions
  <2> QED  BY <1>1, <2>1 DEF Beside
<1>2. CASE t = [back EXCEPT !.doc = b.doc, !.past = b.past, !.future = b.future]
  <2>1. /\ back \in Sessions /\ back.revs \in {b.revs, a.revs}
        /\ back.worker = b.worker /\ back.open = b.open /\ back.recovering = b.recovering
        /\ back.rec = b.rec /\ back.rotating = b.rotating /\ back.queue = b.queue
        /\ back.nav = b.nav /\ back.rot = b.rot /\ back.strays = b.strays
        /\ Plain /\ Straight(b) /\ Straight(a) /\ Depicts(b) => Depicts(back) /\ back.doc = b.doc
    <3>1. CASE shifted
      <4> DEFINE ahead == Rearranged(a, b.doc.slots)
      <4>1. ahead \in Sessions /\ Beside(a, ahead)
        BY RearrangedIsBeside
      <4> HIDE DEF ahead
      <4>2. forward = [ahead EXCEPT !.doc = b.doc]
        BY DEF ahead
      <4> HIDE DEF forward
      <4>3. forward \in Sessions
        BY <4>1, <4>2 DEF Sessions
      <4>4. Beside([ahead EXCEPT !.doc = b.doc], forward) /\ forward.revs = ahead.revs
            /\ forward.worker = ahead.worker /\ forward.open = ahead.open
            /\ forward.recovering = ahead.recovering /\ forward.rec = ahead.rec
            /\ forward.rotating = ahead.rotating /\ forward.queue = ahead.queue
            /\ forward.nav = ahead.nav /\ forward.rot = ahead.rot /\ forward.strays = ahead.strays
        BY <4>1, <4>2 DEF Sessions, Beside
      <4>5. back \in Sessions /\ Beside(forward, back)
        BY <3>1, <4>3, RearrangedIsBeside
      <4>6. ~(Straight(b) /\ Straight(a))
        BY <3>1 DEF Straight
      <4> HIDE DEF back
      <4> QED  BY <4>1, <4>4, <4>5, <4>6 DEF Beside, EditsOnly
    <3>2. CASE ~shifted
      <4>1. back = RolledBack(b)
        BY <3>2
      <4> HIDE DEF back
      <4> QED  BY <4>1, RolledBackIsBeside DEF Beside
    <3> QED  BY <3>1, <3>2
  <2> HIDE DEF back
  <2>2. b.doc \in Doc /\ b.past \in Seq(Doc) /\ b.future \in Seq(Doc)
    BY DEF Sessions
  <2>3. t \in Sessions
    BY <1>2, <2>1, <2>2 DEF Sessions
  <2>4. /\ t.doc = b.doc /\ t.past = b.past /\ t.future = b.future /\ t.revs = back.revs
        /\ t.worker = back.worker /\ t.open = back.open /\ t.recovering = back.recovering
        /\ t.rec = back.rec /\ t.rotating = back.rotating /\ t.queue = back.queue
        /\ t.nav = back.nav /\ t.rot = back.rot /\ t.strays = back.strays /\ t.image = back.image
    BY <1>2, <2>1 DEF Sessions
  <2>5. /\ r.doc = b.doc /\ r.past = b.past /\ r.future = b.future /\ r.revs = t.revs
        /\ r.worker = b.worker /\ r.open = b.open /\ r.recovering = b.recovering
        /\ r.rec = b.rec /\ r.rotating = b.rotating /\ r.queue = b.queue
        /\ r.nav = b.nav /\ r.rot = b.rot /\ r.strays = b.strays
    BY DEF Sessions
  <2>6. Beside(r, t)
    BY <2>1, <2>4, <2>5 DEF Beside
  <2>7. Plain /\ Straight(b) /\ Straight(a) /\ Depicts(b) => Depicts(t)
    BY <2>1, <2>4 DEF Depicts, PictureAt, TurnAt
  <2> QED  BY <2>1, <2>3, <2>4, <2>6, <2>7
<1>3. t \in {b, [back EXCEPT !.doc = b.doc, !.past = b.past, !.future = b.future]}
  BY DEF Committed
<1> QED  BY <1>1, <1>2, <1>3

\* Revisions that nothing shows any more change nothing.
LEMMA MoreRevisions ==
  ASSUME NEW s, Sane(s), NEW n \in 0..MaxEdits, s.revs <= n
  PROVE  LET t == [s EXCEPT !.revs = n]
         IN /\ Leads(s, t) /\ t.doc = s.doc /\ t.past = s.past /\ t.future = s.future /\ t.revs = n
            /\ t.nav = s.nav /\ t.rot = s.rot /\ t.rotating = s.rotating /\ t.queue = s.queue
            /\ t.image = s.image
<1> DEFINE t == [s EXCEPT !.revs = n]
<1>1. s \in Sessions /\ s.revs \in 0..MaxEdits /\ s.strays \in 0..MaxEdits
      /\ (s.rot # None => s.rot.rev \in 0..MaxEdits)
  BY DEF Sane, Sessions, Rots
<1>2. t \in Sessions
  BY <1>1 DEF Sessions
<1>3. /\ t.doc = s.doc /\ t.past = s.past /\ t.future = s.future /\ t.revs = n
      /\ t.nav = s.nav /\ t.rot = s.rot /\ t.rotating = s.rotating /\ t.queue = s.queue
      /\ t.image = s.image /\ t.strays = s.strays /\ t.rec = s.rec /\ t.open = s.open
      /\ t.worker = s.worker /\ t.recovering = s.recovering
  BY <1>1 DEF Sessions
<1> HIDE DEF t
<1>4. Sane(t)
  BY <1>1, <1>2, <1>3 DEF Sane
<1>5. Kept(s, t)
  BY <1>3 DEF Kept
<1>6. Faithful(s) => Faithful(t)
  BY <1>3 DEF Faithful, Straight, Depicts, Answers, PictureAt, TurnAt
<1> QED  BY <1>3, <1>4, <1>5, <1>6 DEF Leads, t
-----------------------------------------------------------------------------
\* An edit is added or everything stays as it was, and a rotation begun here
\* has the new edit's revision.
Adds(s, t) ==
  /\ Timeline(s) \subseteq Timeline(t)
  /\ t.rot \in {s.rot, None} \/ t.rot.rev = s.revs + 1

LEMMA SameEditsSameTimeline ==
  ASSUME NEW s, NEW t, SameEdits(s, t)
  PROVE  Timeline(s) = Timeline(t)
BY DEF SameEdits, Timeline

\* The page that is shown turns with its page of the document.
LEMMA TurnedIsDepicted ==
  ASSUME NEW s, Sane(s), Straight(s), Depicts(s), NEW i \in DOMAIN s.doc.slots,
         NEW turned, turned.image = s.image, turned.doc.slots = s.doc.slots,
         turned.doc.turns = [s.doc.turns EXCEPT ![s.doc.slots[i]] = (@ + 1) % 4],
         ShownTurned(turned, i) # None
  PROVE  ShownTurned(turned, i) = PictureAt(turned, ShownTurned(turned, i).index)
<1>1. s \in Sessions /\ s.doc.slots = FilePages /\ s.doc.turns \in [Pages -> Turns]
  BY PictureIsTyped DEF Sane, Straight, Doc
<1>2. s.image # None
  BY DEF ShownTurned
<1> DEFINE j == s.image.index
<1>3. s.image = PictureAt(s, j) /\ s.image \in Picture /\ j \in Indexes
  BY <1>1, <1>2 DEF Depicts, Sessions, Picture
<1>4. FilePages[j] \in Pages /\ FilePages[i] \in Pages /\ (FilePages[i] = FilePages[j] => i = j)
  BY <1>1, <1>3, PagesAreListed, FileAssumption DEF IsInjective
<1>5. s.image = [index |-> j, page |-> FilePages[j], turn |-> s.doc.turns[FilePages[j]]]
  BY <1>1, <1>3 DEF PictureAt, TurnAt
<1>6. CASE j = i
  <2>1. ShownTurned(turned, i) = [s.image EXCEPT !.turn = (@ + 1) % 4]
    BY <1>2, <1>6 DEF ShownTurned
  <2>2. ShownTurned(turned, i)
          = [index |-> j, page |-> FilePages[j], turn |-> (s.doc.turns[FilePages[j]] + 1) % 4]
    <3> HIDE DEF j
    <3> QED  BY <1>5, <2>1
  <2>3. turned.doc.turns[FilePages[i]] = (s.doc.turns[FilePages[i]] + 1) % 4
    BY <1>1, <1>4
  <2> QED  BY <1>1, <1>6, <2>2, <2>3 DEF PictureAt, TurnAt
<1>7. CASE j # i
  <2>1. ShownTurned(turned, i) = s.image
    BY <1>7 DEF ShownTurned
  <2>2. turned.doc.turns[FilePages[j]] = s.doc.turns[FilePages[j]]
    BY <1>1, <1>4, <1>7
  <2> QED  BY <1>1, <1>5, <2>1, <2>2 DEF PictureAt, TurnAt
<1> QED  BY <1>6, <1>7

LEMMA StartRotationLeads ==
  ASSUME NEW s, Sane(s), ~s.rotating, NEW i \in Indexes, NEW t \in StartRotation(s, i),
         order \in [Workers -> Orders]
  PROVE  Leads(s, t) /\ Adds(s, t)
<1>0. s \in Sessions /\ s.rot = None /\ s.revs \in 0..MaxEdits /\ s.strays \in 0..MaxEdits
      /\ s.strays <= s.revs /\ s.worker \in Workers
  BY DEF Sane, Sessions
<1>1. CASE t = s
  BY <1>1 DEF Leads, Kept, Adds
<1>2. CASE t = RolledBack(s)
  <2>1. Leads(s, t) /\ SameEdits(s, t) /\ t.rot = s.rot
    BY <1>0, <1>2, RolledBackIsBeside, BesideLeads DEF Faithful
  <2> QED  BY <2>1, SameEditsSameTimeline DEF Adds
<1> DEFINE page == s.doc.slots[i]
           turns == [s.doc.turns EXCEPT ![page] = (@ + 1) % 4]
           turned == NewState(s, s.doc.slots, turns)
           image == ShownTurned(turned, i)
           shown == [turned EXCEPT !.rotating = TRUE, !.requested = i, !.failure = FALSE,
                                   !.image = image]
           begun == NewGeneration(shown)
           rot == [page |-> i, turn |-> TurnAt(turned, i), rev |-> turned.doc.rev,
                   worker |-> s.worker, drawn |-> Drawn(s, i)]
<1> HIDE DEF turned, image, shown, begun, rot
<1>3. CASE ~(i > Count(s)) /\ s.revs # MaxEdits /\ t = [begun EXCEPT !.rot = rot]
  <2>1. i \in DOMAIN s.doc.slots /\ page \in Pages /\ s.revs < MaxEdits
    <3>1. Count(s) \in Nat /\ i \in Nat
      BY <1>0, PictureIsTyped DEF Indexes
    <3> QED  BY <1>0, <1>3, <3>1, PictureIsTyped
  <2>2. s.doc.slots \in Orders /\ s.doc.turns \in [Pages -> Turns]
    BY <1>0, PictureIsTyped DEF Doc
  <2>3. s.doc.turns[page] \in 0..3 /\ turns \in [Pages -> Turns]
    <3>1. s.doc.turns[page] \in 0..3
      BY <2>1, <2>2 DEF Turns
    <3>2. (s.doc.turns[page] + 1) % 4 \in 0..3
      BY <3>1
    <3> QED  BY <2>2, <3>1, <3>2 DEF Turns
  <2> HIDE DEF turns
  <2>4. /\ Sane(turned) /\ EditsOnly(s, turned) /\ turned.revs = s.revs + 1
        /\ turned.doc.slots = s.doc.slots /\ turned.doc.turns = turns
        /\ turned.doc.rev = s.revs + 1
        /\ Timeline(s) \subseteq Timeline(turned)
        /\ Straight(s) => Straight(turned)
    <3>1. Straight(s) => s.doc.slots = FilePages
      BY DEF Straight
    <3> QED  BY <2>1, <2>2, <2>3, <3>1, NewStateIsTyped DEF turned
  <2>5. TurnAt(turned, i) \in Turns /\ turned \in Sessions /\ turned.image \in Picture \cup {None}
    <3>1. turned \in Sessions
      BY <2>4 DEF Sane
    <3> QED  BY <3>1, <2>1, <2>4, PictureIsTyped DEF Sessions
  <2>6. image \in Picture \cup {None}
    <3>1. CASE turned.image # None /\ turned.image.index = i
      <4>1. turned.image \in Picture /\ image = [turned.image EXCEPT !.turn = (@ + 1) % 4]
        BY <2>5, <3>1 DEF ShownTurned, image
      <4>2. turned.image.turn \in 0..3
        BY <4>1 DEF Picture, Turns
      <4>3. (turned.image.turn + 1) % 4 \in Turns
        BY <4>2 DEF Turns
      <4> QED  BY <4>1, <4>3 DEF Picture
    <3>2. CASE ~(turned.image # None /\ turned.image.index = i)
      BY <2>5, <3>2 DEF ShownTurned, image
    <3> QED  BY <3>1, <3>2
  <2>7. ASSUME Straight(s), Depicts(s), image # None PROVE image = PictureAt(turned, image.index)
    <3>1. turned.image = s.image
      BY <2>4 DEF EditsOnly
    <3>2. turned.doc.turns = [s.doc.turns EXCEPT ![s.doc.slots[i]] = (@ + 1) % 4]
          /\ turned.doc.slots = s.doc.slots
      BY <2>4 DEF turns
    <3>3. ShownTurned(turned, i) # None
      BY <2>7 DEF image
    <3>4. ShownTurned(turned, i) = PictureAt(turned, ShownTurned(turned, i).index)
      BY <2>1, <2>7, <3>1, <3>2, <3>3, TurnedIsDepicted, ZenonT(60)
    <3> QED  BY <3>4 DEF image
  <2>8. shown \in Sessions
    BY <2>5, <2>6 DEF Sessions, shown
  <2>9. /\ shown.rotating /\ shown.image = image /\ shown.doc = turned.doc
        /\ shown.past = turned.past /\ shown.future = turned.future /\ shown.revs = turned.revs
        /\ shown.worker = turned.worker /\ shown.open = turned.open
        /\ shown.recovering = turned.recovering /\ shown.rec = turned.rec
        /\ shown.queue = turned.queue /\ shown.rot = turned.rot /\ shown.strays = turned.strays
    BY <2>5 DEF Sessions, shown
  <2>10. turned.rot = None /\ turned.strays = s.strays /\ Kept(s, turned)
    BY <1>0, <2>4 DEF EditsOnly, Kept
  <2>11. Sane(shown)
    BY <2>4, <2>8, <2>9, <2>10 DEF Sane
  <2>12. Straight(s) /\ Depicts(s) => Straight(shown) /\ Depicts(shown)
    BY <2>4, <2>7, <2>9 DEF Straight, Depicts, PictureAt, TurnAt
  <2>13. /\ Leads(shown, begun) /\ SameEdits(shown, begun) /\ begun.rot = None
         /\ begun.nav # None => ~begun.nav.current
         /\ begun.rotating = shown.rotating
         /\ Straight(shown) => Straight(begun)
         /\ Depicts(shown) => Depicts(begun)
         /\ begun.strays = shown.strays
    BY <2>9, <2>10, <2>11, NewGenerationIsSane DEF begun
  <2>14. Sane(begun) /\ begun \in Sessions /\ Kept(shown, begun)
    BY <2>13 DEF Leads, Sane
  <2>15. Drawn(s, i) \in Pages \cup {None} /\ (Plain => Drawn(s, i) \in {FilePages[i], None})
    <3>1. order[s.worker] \in Orders
      BY <1>0
    <3> QED  BY <1>0, <3>1, OrderIsListed DEF Drawn, Indexes, Plain
  <2>16. rot \in Rots
    BY <1>0, <2>1, <2>4, <2>5, <2>15 DEF Rots, rot
  <2>17. rot.rev = s.revs + 1 /\ rot.turn = TurnAt(turned, i) /\ rot.page = i /\ rot.drawn = Drawn(s, i)
    BY <2>4 DEF rot
  <2>18. t \in Sessions
    BY <1>3, <2>14, <2>16 DEF Sessions
  <2>19. /\ t.rot = rot /\ t.rotating = begun.rotating /\ t.image = begun.image /\ t.doc = begun.doc
         /\ t.past = begun.past /\ t.future = begun.future /\ t.revs = begun.revs
         /\ t.worker = begun.worker /\ t.open = begun.open
         /\ t.recovering = begun.recovering /\ t.rec = begun.rec /\ t.nav = begun.nav
         /\ t.queue = begun.queue /\ t.strays = begun.strays
    BY <1>3, <2>14 DEF Sessions
  <2>20. begun.revs = s.revs + 1 /\ begun.strays = s.strays /\ begun.rotating
         /\ begun.doc = turned.doc /\ begun.past = turned.past
    BY <2>4, <2>9, <2>10, <2>13 DEF SameEdits
  <2>21. Sane(t)
    BY <1>0, <2>13, <2>14, <2>17, <2>18, <2>19, <2>20 DEF Sane
  <2>22. Kept(s, t)
    BY <2>9, <2>10, <2>14, <2>19 DEF Kept
  <2>23. ASSUME Plain, Faithful(s) PROVE Faithful(t)
    <3>1. Straight(begun) /\ Depicts(begun)
      BY <2>12, <2>13, <2>23 DEF Faithful
    <3>2. Straight(t) /\ Depicts(t)
      BY <3>1, <2>19 DEF Straight, Depicts, PictureAt, TurnAt
    <3>3. Answers(t)
      BY <2>13, <2>15, <2>17, <2>19, <2>20, <2>23 DEF Answers, TurnAt
    <3> QED  BY <3>2, <3>3 DEF Faithful
  <2>24. Timeline(s) \subseteq Timeline(t)
    <3>1. t.doc = turned.doc /\ t.past = turned.past
      BY <2>19, <2>20
    <3>2. Timeline(t) = Timeline(turned)
      BY <3>1 DEF Timeline
    <3> QED  BY <2>4, <3>2
  <2>25. Leads(s, t)
    BY <2>21, <2>22, <2>23 DEF Leads
  <2>26. t.rot.rev = s.revs + 1
    BY <2>17, <2>19
  <2> QED  BY <2>24, <2>25, <2>26 DEF Adds
<1>4. CASE i > Count(s) \/ s.revs = MaxEdits
  BY <1>1, <1>4 DEF StartRotation
<1>5. CASE ~(i > Count(s) \/ s.revs = MaxEdits)
  <2>1. StartRotation(s, i) = {RolledBack(s), [begun EXCEPT !.rot = rot]}
    BY <1>5, Zenon DEF StartRotation, RotationBegun, turned, image, shown, begun, rot
  <2> QED  BY <1>2, <1>3, <1>5, <2>1
<1> QED  BY <1>4, <1>5

LEMMA RotateNextLeads ==
  ASSUME NEW s, Sane(s), NEW t \in RotateNext(s), order \in [Workers -> Orders]
  PROVE  Leads(s, t) /\ Adds(s, t)
<1> DEFINE u == [s EXCEPT !.queue = Tail(s.queue)]
<1>1. CASE t = s
  BY <1>1 DEF Leads, Kept, Adds
<1>2. CASE s.queue # <<>> /\ ~s.rotating /\ t \in StartRotation(u, Head(s.queue))
  <2>1. s \in Sessions /\ s.queue \in Seq(Indexes)
    BY DEF Sane, Sessions
  <2>2. Tail(s.queue) \in Seq(Indexes) /\ Head(s.queue) \in Indexes
        /\ Len(Tail(s.queue)) <= Len(s.queue) /\ Len(Tail(s.queue)) \in Nat /\ Len(s.queue) \in Nat
    BY <1>2, <2>1
  <2>3. u \in Sessions
    BY <2>1, <2>2 DEF Sessions
  <2>4. /\ u.queue = Tail(s.queue) /\ u.nav = s.nav /\ u.rot = s.rot /\ u.strays = s.strays
        /\ u.rec = s.rec /\ u.worker = s.worker /\ u.open = s.open /\ u.recovering = s.recovering
        /\ u.doc = s.doc /\ u.past = s.past /\ u.future = s.future /\ u.revs = s.revs
        /\ u.rotating = s.rotating /\ u.image = s.image
    BY <2>1 DEF Sessions
  <2> HIDE DEF u
  <2>5. Sane(u)
    BY <2>2, <2>3, <2>4 DEF Sane
  <2>6. Leads(s, u) /\ SameEdits(s, u)
    BY <2>4, <2>5 DEF Leads, Kept, SameEdits, Faithful, Straight, Depicts, Answers, PictureAt, TurnAt
  <2>7. Leads(u, t) /\ Adds(u, t)
    BY <1>2, <2>2, <2>4, <2>5, StartRotationLeads
  <2> QED  BY <2>4, <2>6, <2>7, LeadsOn, SameEditsSameTimeline DEF Adds
<1> QED  BY <1>1, <1>2 DEF RotateNext

\* Takes back the edit it is about and no other, if it does at all.
LEMMA RotationFailedLeads ==
  ASSUME NEW s, Sane(s), s.rot = None, s.nav # None => ~s.nav.current,
         NEW t \in RotationFailed(s), order \in [Workers -> Orders]
  PROVE  /\ Leads(s, t) /\ Timeline(s) \ {s.doc.rev} \subseteq Timeline(t)
         /\ t.rot = None /\ s.revs <= t.revs
<1> DEFINE failed == [s EXCEPT !.rotating = FALSE, !.failure = TRUE]
<1>0. s \in Sessions /\ s.revs \in 0..MaxEdits
  BY DEF Sane, Sessions
<1>1. failed \in Sessions
  BY <1>0, ZenonT(60) DEF Sessions
<1>2. /\ ~failed.rotating /\ failed.nav = s.nav /\ failed.rot = s.rot /\ failed.strays = s.strays
      /\ failed.rec = s.rec /\ failed.worker = s.worker /\ failed.open = s.open
      /\ failed.recovering = s.recovering /\ failed.queue = s.queue /\ failed.image = s.image
      /\ failed.doc = s.doc /\ failed.past = s.past /\ failed.future = s.future
      /\ failed.revs = s.revs
  BY <1>0 DEF Sessions
<1> HIDE DEF failed
<1>3. Sane(failed) /\ Leads(s, failed) /\ Timeline(failed) = Timeline(s)
  <2>1. Sane(failed)
    BY <1>1, <1>2 DEF Sane
  <2>2. Faithful(s) => Faithful(failed)
    BY <1>2 DEF Faithful, Straight, Depicts, Answers, PictureAt, TurnAt
  <2> QED  BY <1>2, <2>1, <2>2 DEF Leads, Kept, Timeline
<1>4. CASE t = failed
  BY <1>0, <1>2, <1>3, <1>4
<1>5. CASE s.past # <<>> /\ t \in Either(Committed(failed, Undone(failed)))
  <2> DEFINE a == Undone(failed)
  <2>1. /\ Sane(a) /\ EditsOnly(failed, a) /\ a.revs = failed.revs
        /\ Timeline(failed) \ {failed.doc.rev} \subseteq Timeline(a)
        /\ Straight(failed) => Straight(a)
    BY <1>2, <1>3, <1>5, UndoneIsTyped
  <2> HIDE DEF a
  <2>2. a \in Sessions
    BY <2>1 DEF Sane
  <2>3. CASE t \in Committed(failed, a).done
    <3>1. /\ t \in Sessions /\ Beside(a, t)
          /\ Plain /\ Straight(failed) /\ Straight(a) /\ Depicts(failed) => Depicts(t)
      BY <1>1, <2>1, <2>2, <2>3, CommittedDone
    <3>2. Sane(t) /\ Kept(a, t) /\ SameEdits(a, t) /\ (Straight(a) => Straight(t))
      BY <2>1, <3>1, BesideIsSane
    <3>3. Kept(failed, t)
      BY <2>1, <3>2 DEF EditsOnly, Kept
    <3>4. t.nav = s.nav /\ t.rot = None /\ t.revs = s.revs
      BY <1>2, <2>1, <3>1 DEF EditsOnly, Beside
    <3>5. Answers(t)
      BY <3>4 DEF Answers
    <3>6. Leads(failed, t)
      BY <2>1, <3>1, <3>2, <3>3, <3>5 DEF Leads, Faithful
    <3>7. Timeline(a) = Timeline(t)
      BY <3>2, SameEditsSameTimeline
    <3>8. Leads(s, t)
      BY <1>3, <3>6, LeadsOn
    <3> QED  BY <1>0, <1>2, <1>3, <2>1, <3>4, <3>7, <3>8
  <2>4. CASE t \in Committed(failed, a).refused
    <3> DEFINE r == [failed EXCEPT !.revs = t.revs]
    <3>1. /\ t \in Sessions /\ t.revs \in {failed.revs, a.revs} /\ Beside(r, t)
          /\ Plain /\ Straight(failed) /\ Straight(a) /\ Depicts(failed) => Depicts(t)
      BY <1>1, <2>1, <2>2, <2>4, CommittedRefused
    <3>2. t.revs = s.revs /\ t.revs \in 0..MaxEdits /\ failed.revs <= t.revs
      BY <1>0, <1>2, <2>1, <3>1
    <3>3. /\ Leads(failed, r) /\ r.doc = failed.doc /\ r.past = failed.past /\ r.rot = failed.rot
      BY <1>3, <3>2, MoreRevisions
    <3> HIDE DEF r
    <3>4. Plain /\ Faithful(r) => Depicts(t)
      <4>1. Straight(r) => Straight(failed)
        BY <3>1, <3>3, <1>1, <3>2 DEF Straight, Sessions, r
      <4>2. Depicts(r) => Depicts(failed)
        BY <3>3, <1>1 DEF Depicts, PictureAt, TurnAt, Sessions, r
      <4> QED  BY <2>1, <3>1, <4>1, <4>2 DEF Faithful
    <3>5. Sane(r)
      BY <3>3 DEF Leads
    <3>6. Leads(r, t) /\ SameEdits(r, t) /\ t.rot = r.rot
      BY <3>1, <3>4, <3>5, BesideLeads
    <3>7. Leads(s, t)
      BY <1>3, <3>3, <3>6, LeadsOn
    <3>8. Timeline(t) = Timeline(failed)
      BY <3>3, <3>6 DEF Timeline, SameEdits
    <3> QED  BY <1>0, <1>2, <1>3, <3>2, <3>3, <3>6, <3>7, <3>8
  <2> QED  BY <1>5, <2>3, <2>4 DEF Either, a
<1>6. t = failed \/ (s.past # <<>> /\ t \in Either(Committed(failed, Undone(failed))))
  <2>1. RotationFailed(s) = IF s.past = <<>> THEN {failed} ELSE Either(Committed(failed, Undone(failed)))
    BY Zenon DEF RotationFailed, failed
  <2>2. CASE s.past = <<>>
    <3>1. RotationFailed(s) = {failed}
      BY <2>1, <2>2
    <3>2. t \in {failed}
      BY <3>1
    <3> QED  BY <3>2
  <2>3. CASE s.past # <<>>
    <3>1. RotationFailed(s) = Either(Committed(failed, Undone(failed)))
      BY <2>1, <2>3
    <3>2. t \in Either(Committed(failed, Undone(failed)))
      BY <3>1
    <3> QED  BY <2>3, <3>2
  <2> QED  BY <2>2, <2>3
<1> QED  BY <1>4, <1>5, <1>6

LEMMA RotationEndsLeads ==
  ASSUME NEW s, Sane(s), s.rot # None, NEW d, Answer(s, s.rot, d), NEW t \in RotationEnds(s, d),
         order \in [Workers -> Orders]
  PROVE  /\ Leads(s, t) /\ Timeline(s) \ {s.rot.rev} \subseteq Timeline(t)
         /\ t.rot = None \/ t.rot.rev > s.rot.rev
<1> DEFINE r == s.rot
           u == [s EXCEPT !.rot = None]
           current == r.worker = s.worker /\ r.rev = s.doc.rev
           quiet == [u EXCEPT !.rotating = FALSE]
           picture == [index |-> r.page, page |-> d, turn |-> r.turn]
           shown == PageShown(quiet, r.page, picture)
           results == IF ~current THEN {u}
                      ELSE IF d = "error" THEN RotationFailed(u)
                      ELSE NavigateTo(shown, r.page)
<1>0. s \in Sessions /\ r \in Rots /\ r.page \in Indexes /\ r.turn \in Turns
      /\ r.rev \in 0..MaxEdits /\ s.revs \in 0..MaxEdits /\ s.strays \in 0..MaxEdits
  BY DEF Sane, Sessions, Rots
<1>1. /\ r.rev <= s.revs /\ (s.nav # None => ~s.nav.current) /\ s.strays <= s.revs
      /\ (s.rec # None /\ s.open => s.recovering) /\ Len(s.queue) <= MaxQueue
  BY <1>0 DEF Sane
<1>2. u \in Sessions /\ quiet \in Sessions
  BY <1>0 DEF Sessions
<1>3. /\ \A v \in {u, quiet} :
           /\ v.nav = s.nav /\ v.rot = None /\ v.strays = s.strays
           /\ v.rec = s.rec /\ v.worker = s.worker /\ v.open = s.open
           /\ v.recovering = s.recovering /\ v.queue = s.queue /\ v.image = s.image
           /\ v.doc = s.doc /\ v.past = s.past /\ v.future = s.future
           /\ v.revs = s.revs
  BY <1>0 DEF Sessions
<1> HIDE DEF u, quiet
<1>4. ASSUME NEW v \in {u, quiet} PROVE Leads(s, v) /\ SameEdits(s, v) /\ v.rot = None
  <2>1. Sane(v)
    BY <1>0, <1>1, <1>2, <1>3, <1>4 DEF Sane
  <2>2. Faithful(s) => Faithful(v)
    BY <1>3, <1>4 DEF Faithful, Straight, Depicts, Answers, PictureAt, TurnAt
  <2>3. Kept(s, v) /\ SameEdits(s, v) /\ v.rot = None
    BY <1>3, <1>4 DEF Kept, SameEdits
  <2> QED  BY <2>1, <2>2, <2>3 DEF Leads
<1> PICK v \in results : t \in RotateNext(v)
  BY Zenon DEF RotationEnds, u, quiet
<1>5. Leads(s, v) /\ Timeline(s) \ {r.rev} \subseteq Timeline(v) /\ v.rot = None /\ s.revs <= v.revs
  <2>1. CASE ~current
    <3>1. v = u
      BY <2>1
    <3> QED  BY <3>1, <1>0, <1>3, <1>4, SameEditsSameTimeline
  <2>2. CASE current /\ d = "error"
    <3>1. v \in RotationFailed(u) /\ r.rev = s.doc.rev
      BY <2>2
    <3>2. Leads(s, u) /\ Timeline(s) = Timeline(u) /\ u.rot = None /\ u.nav = s.nav
          /\ u.doc = s.doc /\ u.revs = s.revs
      BY <1>3, <1>4, SameEditsSameTimeline
    <3>3. Sane(u)
      BY <3>2 DEF Leads
    <3>4. /\ Leads(u, v) /\ Timeline(u) \ {u.doc.rev} \subseteq Timeline(v)
          /\ v.rot = None /\ u.revs <= v.revs
      BY <1>1, <3>1, <3>2, <3>3, RotationFailedLeads
    <3> QED  BY <3>1, <3>2, <3>4, LeadsOn
  <2>3. CASE current /\ d # "error"
    <3>1. v \in NavigateTo(shown, r.page)
      BY <2>3
    <3>2. d \in Pages /\ picture \in Picture /\ picture.index = r.page
      BY <2>3, <1>0 DEF Answer, Picture
    <3>3. ASSUME Plain, Faithful(s)
          PROVE  picture = PictureAt(quiet, r.page)
      <4>1. r.turn = TurnAt(s, r.page) /\ d = FilePages[r.page] /\ s.doc.slots = FilePages
        BY <2>3, <3>2, <3>3 DEF Faithful, Answers, Answer, Straight
      <4>2. quiet.doc = s.doc
        BY <1>3
      <4> QED  BY <4>1, <4>2 DEF PictureAt, TurnAt
    <3> HIDE DEF picture, r, shown
    <3>4. shown \in Sessions /\ Beside(quiet, shown)
          /\ (picture = PictureAt(quiet, picture.index) => Depicts(shown))
      BY <3>2, <1>0, <1>2, PageShownIsBeside DEF shown
    <3>5. Leads(s, quiet) /\ SameEdits(s, quiet) /\ Sane(quiet) /\ quiet.rot = None
      BY <1>4 DEF Leads
    <3>6. Kept(quiet, shown) /\ Sane(shown) /\ SameEdits(quiet, shown) /\ shown.rot = None
      BY <3>4, <3>5, BesideIsSane DEF Beside
    <3>7. ASSUME Plain, Faithful(s) PROVE Faithful(shown)
      BY <3>2, <3>3, <3>4, <3>5, <3>7, BesideIsSane DEF Leads, Faithful
    <3>8. Leads(s, shown) /\ SameEdits(s, shown)
      BY <3>5, <3>6, <3>7 DEF Leads, Kept, SameEdits
    <3>9. Leads(shown, v) /\ SameEdits(shown, v) /\ v.rot \in {shown.rot, None}
      BY <3>1, <3>6, <1>0, NavigateToLeads
    <3>10. Leads(s, v) /\ SameEdits(s, v)
      BY <3>8, <3>9, LeadsOn DEF SameEdits
    <3>11. s.revs <= v.revs
      BY <1>0, <3>10 DEF SameEdits
    <3> QED  BY <3>6, <3>9, <3>10, <3>11, SameEditsSameTimeline
  <2> QED  BY <2>1, <2>2, <2>3
<1> HIDE DEF results
<1>6. Leads(v, t) /\ Adds(v, t)
  BY <1>5, RotateNextLeads DEF Leads
<1>7. t.rot = None \/ t.rot.rev > r.rev
  <2>1. v.revs \in 0..MaxEdits
    BY <1>5 DEF Leads, Sane, Sessions
  <2> QED  BY <1>0, <1>1, <1>5, <1>6, <2>1 DEF Adds
<1> QED  BY <1>5, <1>6, <1>7, LeadsOn DEF Adds

LEMMA StrayEndsLeads ==
  ASSUME NEW s, Sane(s), s.strays > 0, NEW t \in StrayEnds(s), order \in [Workers -> Orders]
  PROVE  Leads(s, t) /\ Timeline(s) \subseteq Timeline(t)
<1> DEFINE u == [s EXCEPT !.strays = @ - 1]
<1>0. s \in Sessions /\ s.strays \in 0..MaxEdits /\ s.revs \in 0..MaxEdits
  BY DEF Sane, Sessions
<1>1. u \in Sessions
  <2>1. s.strays - 1 \in 0..MaxEdits
    BY <1>0
  <2> QED  BY <1>0, <2>1 DEF Sessions
<1>2. /\ u.nav = s.nav /\ u.rot = s.rot /\ u.strays = s.strays - 1
      /\ u.rec = s.rec /\ u.worker = s.worker /\ u.open = s.open
      /\ u.recovering = s.recovering /\ u.queue = s.queue /\ u.image = s.image
      /\ u.doc = s.doc /\ u.past = s.past /\ u.future = s.future
      /\ u.revs = s.revs /\ u.rotating = s.rotating
  BY <1>0 DEF Sessions
<1>3. t \in RotateNext(u)
  BY DEF StrayEnds
<1> HIDE DEF u
<1>4. Sane(u)
  BY <1>0, <1>1, <1>2 DEF Sane
<1>5. Leads(s, u) /\ SameEdits(s, u)
  BY <1>2, <1>4 DEF Leads, Kept, SameEdits, Faithful, Straight, Depicts, Answers, PictureAt, TurnAt
<1>6. Leads(u, t) /\ Adds(u, t)
  BY <1>3, <1>4, RotateNextLeads
<1> QED  BY <1>5, <1>6, LeadsOn, SameEditsSameTimeline DEF Adds
-----------------------------------------------------------------------------
(* The steps of the whole document. *)

\* A reopening that is ready has a worker of its own, which is not the first.
Reopening ==
  /\ workers[1] # "unborn"
  /\ session.rec # None /\ session.rec.step = "ready" => session.rec.worker \in Workers \ {1}

\* Who closes a worker that was started.
Released ==
  \A w \in Workers : workers[w] \in {"running", "stopped"} =>
    \/ session.open /\ session.worker = w
    \/ session.rec # None /\ session.rec.worker = w /\ session.rec.step = "ready"

SoundInv ==
  /\ Sane(session)
  /\ workers \in [Workers -> {"unborn", "running", "stopped", "closed"}]
  /\ order \in [Workers -> Orders] /\ moved \in BOOLEAN
  /\ Reopening /\ Released
  /\ session.open /\ session.worker = 1 /\ ~moved => Plain /\ Faithful(session)

LEMMA SoundIsEnough ==
  ASSUME SoundInv
  PROVE  RequestsInv /\ PictureFollowsDocument
<1>1. TypeOK
  BY DEF SoundInv, Sane, TypeOK
<1>2. WorkersAreReleased
  BY DEF SoundInv, Released, WorkersAreReleased
<1>3. PictureFollowsDocument
  BY DEF SoundInv, Faithful, Depicts, PictureFollowsDocument
<1> QED  BY <1>1, <1>2, <1>3 DEF RequestsInv

LEMMA NewSessionIsSane ==
  /\ Sane(NewSession) /\ Faithful(NewSession)
  /\ \A c \in Recs \cup {None} : Sane([NewSession EXCEPT !.open = FALSE, !.rec = c])
<1>0. 0 \in Turns /\ 0 \in 0..MaxEdits /\ 1 \in Workers /\ 1 \in Indexes /\ FilePages[1] \in Pages
  BY PagesAreListed DEF Turns
<1> DEFINE doc == [slots |-> FilePages, turns |-> [p \in Pages |-> 0], rev |-> 0]
           image == [index |-> 1, page |-> FilePages[1], turn |-> 0]
           s == NewSession
<1>1. doc \in Doc /\ image \in Picture
  BY <1>0 DEF Doc, Picture
<1>2. <<>> \in Seq(Doc) /\ <<>> \in Seq(Indexes) /\ Len(<<>>) = 0 /\ DOMAIN <<>> = {}
  OBVIOUS
<1>3. /\ s.worker = 1 /\ s.open /\ s.doc = doc /\ s.past = <<>> /\ s.future = <<>> /\ s.revs = 0
      /\ s.image = image /\ ~s.rotating /\ ~s.recovering /\ s.queue = <<>>
      /\ s.nav = None /\ s.rot = None /\ s.strays = 0 /\ s.rec = None
  BY DEF NewSession
<1>4. s \in Sessions
  <2> HIDE DEF doc, image
  <2>1. NewSession =
          [worker |-> 1, open |-> TRUE, doc |-> doc, past |-> <<>>, future |-> <<>>, revs |-> 0,
           current |-> 1, requested |-> 1, placeholder |-> None, image |-> image,
           failure |-> FALSE, rotating |-> FALSE, recovering |-> FALSE,
           queue |-> <<>>, nav |-> None, rot |-> None, strays |-> 0, rec |-> None]
    BY DEF NewSession, doc, image
  <2> QED  BY <1>0, <1>1, <1>2, <2>1 DEF Sessions
<1>5. doc.slots = FilePages /\ (\A p \in Pages : doc.turns[p] = 0)
      /\ image.index = 1 /\ image = [index |-> 1, page |-> FilePages[1], turn |-> 0]
  OBVIOUS
<1> HIDE DEF doc, image, s
<1>6. Sane(s)
  BY <1>2, <1>3, <1>4, BoundsAssumption DEF Sane
<1>7. Faithful(s)
  BY <1>0, <1>2, <1>3, <1>5 DEF Faithful, Straight, Depicts, Answers, PictureAt, TurnAt
<1>8. ASSUME NEW c \in Recs \cup {None} PROVE Sane([s EXCEPT !.open = FALSE, !.rec = c])
  <2> DEFINE t == [s EXCEPT !.open = FALSE, !.rec = c]
  <2>1. t \in Sessions
    BY <1>4 DEF Sessions
  <2>2. ~t.open /\ t.queue = <<>> /\ t.strays = 0 /\ t.revs = 0 /\ t.rot = None
    BY <1>3, <1>4 DEF Sessions
  <2> HIDE DEF t
  <2>3. Sane(t)
    BY <1>2, <2>1, <2>2, BoundsAssumption DEF Sane
  <2> QED  BY <2>3 DEF t
<1> QED  BY <1>6, <1>7, <1>8 DEF s

LEMMA InitSound == Init => SoundInv
<1> SUFFICES ASSUME Init PROVE SoundInv
  OBVIOUS
<1>1. Sane(session) /\ Faithful(session) /\ session.worker = 1 /\ session.open /\ session.rec = None
  BY NewSessionIsSane DEF Init, NewSession
<1>2. order \in [Workers -> Orders] /\ Plain /\ moved = FALSE
  BY FileAssumption DEF Init, Plain
<1>3. /\ workers \in [Workers -> {"unborn", "running", "stopped", "closed"}]
      /\ workers[1] = "running" /\ \A w \in Workers \ {1} : workers[w] = "unborn"
  BY BoundsAssumption DEF Init
<1>4. Reopening /\ Released
  BY <1>1, <1>3 DEF Reopening, Released
<1> QED  BY <1>1, <1>2, <1>3, <1>4 DEF SoundInv

\* Most steps change the session alone.
LEMMA LeadsKeepsSound ==
  ASSUME SoundInv, Sane(session'), Kept(session, session'), UNCHANGED <<workers, order>>,
         moved' \in BOOLEAN, moved => moved',
         ~moved' /\ Plain /\ Faithful(session) => Faithful(session')
  PROVE  SoundInv'
<1>1. Reopening'
  BY DEF SoundInv, Reopening, Kept
<1>2. Released'
  BY DEF SoundInv, Released, Kept
<1>3. session'.open /\ session'.worker = 1 /\ ~moved' => Plain' /\ Faithful(session')
  BY DEF SoundInv, Kept, Plain
<1>4. Faithful(session)' <=> Faithful(session')
  BY DEF Faithful, Straight, Depicts, Answers, PictureAt, TurnAt
<1> QED  BY <1>1, <1>2, <1>3, <1>4 DEF SoundInv, Sane

LEMMA CommittedKeeps ==
  ASSUME NEW b, Sane(b), NEW a, Sane(a), EditsOnly(b, a), b.revs <= a.revs,
         NEW t \in Either(Committed(b, a)), order \in [Workers -> Orders]
  PROVE  /\ Sane(t) /\ Kept(b, t) /\ t.nav = b.nav /\ t.rot = b.rot
         /\ t \in Committed(b, a).done => t.doc = a.doc
         /\ t \in Committed(b, a).refused => t.doc = b.doc
         /\ Plain /\ Straight(b) /\ Straight(a) /\ Depicts(b) => Straight(t) /\ Depicts(t)
<1>0. b \in Sessions /\ a \in Sessions /\ b.revs \in 0..MaxEdits /\ a.revs \in 0..MaxEdits
  BY DEF Sane, Sessions
<1>1. ASSUME t \in Committed(b, a).done
      PROVE  /\ Sane(t) /\ Kept(b, t) /\ t.nav = b.nav /\ t.rot = b.rot /\ t.doc = a.doc
             /\ Plain /\ Straight(b) /\ Straight(a) /\ Depicts(b) => Straight(t) /\ Depicts(t)
  <2>1. /\ t \in Sessions /\ Beside(a, t)
        /\ Plain /\ Straight(b) /\ Straight(a) /\ Depicts(b) => Depicts(t)
    BY <1>0, <1>1, CommittedDone
  <2>2. Sane(t) /\ Kept(a, t) /\ (Straight(a) => Straight(t))
    BY <2>1, BesideIsSane
  <2>3. Kept(b, t) /\ t.nav = b.nav /\ t.rot = b.rot /\ t.doc = a.doc
    BY <2>1, <2>2 DEF Kept, EditsOnly, Beside
  <2> QED  BY <2>1, <2>2, <2>3
<1>2. ASSUME t \in Committed(b, a).refused
      PROVE  /\ Sane(t) /\ Kept(b, t) /\ t.nav = b.nav /\ t.rot = b.rot /\ t.doc = b.doc
             /\ Plain /\ Straight(b) /\ Straight(a) /\ Depicts(b) => Straight(t) /\ Depicts(t)
  <2> DEFINE r == [b EXCEPT !.revs = t.revs]
  <2>1. /\ t \in Sessions /\ t.revs \in {b.revs, a.revs} /\ Beside(r, t)
        /\ Plain /\ Straight(b) /\ Straight(a) /\ Depicts(b) => Depicts(t)
    BY <1>0, <1>2, CommittedRefused
  <2>2. t.revs \in 0..MaxEdits /\ b.revs <= t.revs
    BY <1>0, <2>1
  <2>3. /\ Sane(r) /\ Kept(b, r) /\ r.doc = b.doc /\ r.past = b.past /\ r.future = b.future
        /\ r.nav = b.nav /\ r.rot = b.rot
    BY <2>2, MoreRevisions DEF Leads
  <2> HIDE DEF r
  <2>4. Sane(t) /\ Kept(r, t) /\ (Straight(r) => Straight(t))
    BY <2>1, <2>3, BesideIsSane
  <2>5. Kept(b, t) /\ t.nav = b.nav /\ t.rot = b.rot /\ t.doc = b.doc
    BY <2>1, <2>3, <2>4 DEF Kept, Beside
  <2>6. Straight(b) => Straight(r)
    BY <2>3 DEF Straight
  <2> QED  BY <2>1, <2>4, <2>5, <2>6
<1> QED  BY <1>1, <1>2 DEF Either

\* The edit loop of the user: each of its steps, and what it keeps.
LEMMA UserActsSound ==
  ASSUME SoundInv, UserActs
  PROVE  SoundInv'
<1>0. /\ Sane(session) /\ order \in [Workers -> Orders] /\ moved \in BOOLEAN
      /\ session \in Sessions /\ session.current \in Indexes /\ session.requested \in Indexes
      /\ session.doc \in Doc /\ session.doc.slots \in Orders
      /\ session.doc.turns \in [Pages -> Turns] /\ session.revs \in 0..MaxEdits
      /\ session.rec \in Recs \cup {None} /\ session.worker \in Workers
      /\ session.queue \in Seq(Indexes)
  BY DEF SoundInv, Sane, Sessions, Doc
<1>1. ASSUME Leads(session, session'), UNCHANGED <<workers, order, moved>>
      PROVE  SoundInv'
  BY <1>0, <1>1, LeadsKeepsSound DEF Leads
<1>2. ASSUME NEW i \in Indexes, Navigate(i) PROVE SoundInv'
  BY <1>0, <1>1, <1>2, NavigateToLeads DEF Navigate, Become
<1>3. CASE RotatePage
  BY <1>0, <1>1, <1>3, StartRotationLeads DEF RotatePage, Become
<1>4. ASSUME NEW is \in Seq(Indexes), RotatePages(is) PROVE SoundInv'
  <2> DEFINE u == [session EXCEPT !.queue = session.queue \o is]
  <2>1. session' \in RotateNext(u) /\ UNCHANGED <<workers, order, moved>>
        /\ Len(session.queue) + Len(is) <= MaxQueue
    BY <1>4 DEF RotatePages, Become
  <2>2. session.queue \o is \in Seq(Indexes) /\ Len(session.queue \o is) = Len(session.queue) + Len(is)
    BY <1>0, <1>4
  <2>3. u \in Sessions
    BY <1>0, <2>2 DEF Sessions
  <2>4. /\ u.queue = session.queue \o is /\ u.nav = session.nav /\ u.rot = session.rot
        /\ u.strays = session.strays /\ u.rec = session.rec /\ u.worker = session.worker
        /\ u.open = session.open /\ u.recovering = session.recovering /\ u.doc = session.doc
        /\ u.past = session.past /\ u.future = session.future /\ u.revs = session.revs
        /\ u.rotating = session.rotating /\ u.image = session.image
    BY <1>0 DEF Sessions
  <2> HIDE DEF u
  <2>5. Sane(u)
    BY <1>0, <2>1, <2>2, <2>3, <2>4 DEF Sane
  <2>6. Leads(session, u)
    BY <2>4, <2>5 DEF Leads, Kept, Faithful, Straight, Depicts, Answers, PictureAt, TurnAt
  <2>7. Leads(u, session')
    BY <1>0, <2>1, <2>5, RotateNextLeads
  <2> QED  BY <1>1, <2>1, <2>6, <2>7, LeadsOn
<1>5. CASE EditContents
  <2> DEFINE a == NewState(session, session.doc.slots, session.doc.turns)
  <2>1. session' \in Either(Committed(session, a)) /\ UNCHANGED <<workers, order, moved>>
        /\ session.revs < MaxEdits
    BY <1>0, <1>5 DEF EditContents, Become
  <2>2. /\ Sane(a) /\ EditsOnly(session, a) /\ a.revs = session.revs + 1
        /\ a.doc.slots = session.doc.slots /\ a.doc.turns = session.doc.turns
        /\ Straight(session) /\ session.doc.slots = FilePages => Straight(a)
    BY <1>0, <2>1, NewStateIsTyped
  <2> HIDE DEF a
  <2>3. session.revs <= a.revs
    BY <1>0, <2>2
  <2>4. /\ Sane(session') /\ Kept(session, session') /\ session'.nav = session.nav
        /\ session'.rot = session.rot
        /\ session'.doc = a.doc \/ session'.doc = session.doc
        /\ Plain /\ Straight(session) /\ Straight(a) /\ Depicts(session)
             => Straight(session') /\ Depicts(session')
    <3>1. session' \in Committed(session, a).done \/ session' \in Committed(session, a).refused
      BY <2>1 DEF Either
    <3> QED  BY <1>0, <2>1, <2>2, <2>3, <3>1, CommittedKeeps
  <2>5. Answers(session) => Answers(session')
    BY <2>2, <2>4 DEF Answers, TurnAt
  <2>6. Straight(session) => Straight(a)
    BY <2>2 DEF Straight
  <2>7. Leads(session, session')
    BY <2>4, <2>5, <2>6 DEF Leads, Faithful
  <2> QED  BY <1>1, <2>1, <2>7
<1>6. ASSUME NEW a, Sane(a), EditsOnly(session, a), session.revs <= a.revs,
             Straight(session) => Straight(a),
             \/ \E s \in Committed(session, a).done \cup {session} :
                     session' = [NewGeneration(s) EXCEPT !.rotating = FALSE]
             \/ session' \in Committed(session, a).refused,
             UNCHANGED <<workers, order>>, moved' \in BOOLEAN, moved => moved'
      PROVE  SoundInv'
  <2>1. CASE session' \in Committed(session, a).refused
    <3>1. /\ Sane(session') /\ Kept(session, session') /\ session'.nav = session.nav
          /\ session'.rot = session.rot /\ session'.doc = session.doc
          /\ Plain /\ Straight(session) /\ Straight(a) /\ Depicts(session)
               => Straight(session') /\ Depicts(session')
      BY <1>0, <1>6, <2>1, CommittedKeeps DEF Either
    <3>2. Answers(session) => Answers(session')
      BY <3>1 DEF Answers, TurnAt
    <3>3. Plain /\ Faithful(session) => Faithful(session')
      BY <1>6, <3>1, <3>2 DEF Faithful
    <3> QED  BY <1>6, <3>1, <3>3, LeadsKeepsSound
  <2>2. CASE \E s \in Committed(session, a).done \cup {session} :
                session' = [NewGeneration(s) EXCEPT !.rotating = FALSE]
    <3> PICK s \in Committed(session, a).done \cup {session} :
               session' = [NewGeneration(s) EXCEPT !.rotating = FALSE]
      BY <2>2
    <3> DEFINE g == NewGeneration(s)
    <3>1. /\ Sane(s) /\ Kept(session, s)
          /\ Plain /\ Straight(session) /\ Straight(a) /\ Depicts(session) => Straight(s) /\ Depicts(s)
      <4>1. CASE s = session
        BY <1>0, <4>1 DEF Kept
      <4>2. CASE s \in Committed(session, a).done
        BY <1>0, <1>6, <4>2, CommittedKeeps DEF Either
      <4> QED  BY <4>1, <4>2
    <3>2. /\ Sane(g) /\ Kept(s, g) /\ g.rot = None /\ Answers(g)
          /\ Straight(s) => Straight(g)
          /\ Depicts(s) => Depicts(g)
      BY <3>1, NewGenerationIsSane DEF Leads
    <3> HIDE DEF g
    <3>3. g \in Sessions /\ session' = [g EXCEPT !.rotating = FALSE]
      BY <3>2 DEF Sane, g
    <3>4. session' \in Sessions
      BY <3>3 DEF Sessions
    <3>5. /\ session'.nav = g.nav /\ session'.rot = g.rot /\ session'.strays = g.strays
          /\ session'.rec = g.rec /\ session'.worker = g.worker /\ session'.open = g.open
          /\ session'.recovering = g.recovering /\ session'.queue = g.queue
          /\ session'.image = g.image /\ session'.doc = g.doc /\ session'.past = g.past
          /\ session'.future = g.future /\ session'.revs = g.revs
      BY <3>3 DEF Sessions
    <3>6. Sane(session')
      BY <3>2, <3>4, <3>5 DEF Sane
    <3>7. Kept(session, session')
      BY <3>1, <3>2, <3>5 DEF Kept
    <3>8. Straight(g) /\ Depicts(g) => Faithful(session')
      BY <3>2, <3>5 DEF Faithful, Straight, Depicts, Answers, PictureAt, TurnAt
    <3>9. Plain /\ Faithful(session) => Faithful(session')
      BY <1>6, <3>1, <3>2, <3>8 DEF Faithful
    <3> QED  BY <1>6, <3>6, <3>7, <3>9, LeadsKeepsSound
  <2> QED  BY <1>6, <2>1, <2>2
<1>7. CASE Undo
  <2> DEFINE a == Undone(session)
  <2>1. UNCHANGED <<workers, order>> /\ moved' \in BOOLEAN /\ (moved => moved')
    BY <1>0, <1>7 DEF Undo, UndoOrRedo
  <2>2. CASE session.past = <<>>
    <3>1. session' = [NewGeneration(session) EXCEPT !.rotating = FALSE]
      BY <1>7, <2>2 DEF Undo, UndoOrRedo, Become
    <3>2. EditsOnly(session, session) /\ session.revs <= session.revs
      BY <1>0 DEF EditsOnly
    <3> QED  BY <1>0, <1>6, <2>1, <3>1, <3>2
  <2>3. CASE session.past # <<>>
    <3>1. /\ Sane(a) /\ EditsOnly(session, a) /\ a.revs = session.revs
          /\ Straight(session) => Straight(a)
      BY <1>0, <2>3, UndoneIsTyped
    <3>2. session' \in {[NewGeneration(s) EXCEPT !.rotating = FALSE] : s \in Committed(session, a).done}
                        \cup Committed(session, a).refused
      BY <1>7, <2>3 DEF Undo, UndoOrRedo, Become
    <3> HIDE DEF a
    <3> QED  BY <1>0, <1>6, <2>1, <3>1, <3>2
  <2> QED  BY <2>2, <2>3
<1>8. CASE Redo
  <2> DEFINE a == Redone(session)
  <2>1. UNCHANGED <<workers, order>> /\ moved' \in BOOLEAN /\ (moved => moved')
    BY <1>0, <1>8 DEF Redo, UndoOrRedo
  <2>2. CASE session.future = <<>>
    <3>1. session' = [NewGeneration(session) EXCEPT !.rotating = FALSE]
      BY <1>8, <2>2 DEF Redo, UndoOrRedo, Become
    <3>2. EditsOnly(session, session) /\ session.revs <= session.revs
      BY <1>0 DEF EditsOnly
    <3> QED  BY <1>0, <1>6, <2>1, <3>1, <3>2
  <2>3. CASE session.future # <<>>
    <3>1. /\ Sane(a) /\ EditsOnly(session, a) /\ a.revs = session.revs
          /\ Straight(session) => Straight(a)
      BY <1>0, <2>3, RedoneIsTyped
    <3>2. session' \in {[NewGeneration(s) EXCEPT !.rotating = FALSE] : s \in Committed(session, a).done}
                        \cup Committed(session, a).refused
      BY <1>8, <2>3 DEF Redo, UndoOrRedo, Become
    <3> HIDE DEF a
    <3> QED  BY <1>0, <1>6, <2>1, <3>1, <3>2
  <2> QED  BY <2>2, <2>3
<1>9. ASSUME NEW slots \in Orders, NEW i \in Indexes, ArrangePages(slots, i) PROVE SoundInv'
  <2> DEFINE a == NewState(session, slots, session.doc.turns)
  <2>1. /\ Sane(a) /\ EditsOnly(session, a) /\ a.revs = session.revs + 1
    BY <1>0, <1>9, NewStateIsTyped DEF ArrangePages
  <2>2. session' \in (UNION {NavigateTo(s, i) : s \in Committed(session, a).done})
                     \cup Committed(session, a).refused
        /\ UNCHANGED <<workers, order>> /\ moved' = TRUE
    BY <1>9 DEF ArrangePages, Become
  <2> HIDE DEF a
  <2>3. session.revs <= a.revs
    BY <1>0, <2>1
  <2>4. Sane(session') /\ Kept(session, session')
    <3>1. CASE session' \in Committed(session, a).refused
      BY <1>0, <2>1, <2>3, <3>1, CommittedKeeps DEF Either
    <3>2. ASSUME NEW s \in Committed(session, a).done, session' \in NavigateTo(s, i)
          PROVE  Sane(session') /\ Kept(session, session')
      <4>1. Sane(s) /\ Kept(session, s)
        BY <1>0, <2>1, <2>3, CommittedKeeps DEF Either
      <4>2. Sane(session') /\ Kept(s, session')
        BY <1>0, <3>2, <4>1, NavigateToLeads DEF Leads
      <4> QED  BY <4>1, <4>2 DEF Kept
    <3> QED  BY <2>2, <3>1, <3>2
  <2> QED  BY <2>2, <2>4, LeadsKeepsSound
<1>10. CASE RetryRecovery
  <2> DEFINE g == NewGeneration(session)
  <2>1. /\ Sane(g) /\ Kept(session, g) /\ g.current \in Indexes /\ g.doc = session.doc
        /\ g \in Sessions /\ Leads(session, g)
    BY <1>0, NewGenerationIsSane DEF Leads, Sane, Sessions, SameEdits
  <2> DEFINE rec == [index |-> g.current, current |-> TRUE, worker |-> None,
                     slots |-> g.doc.slots, step |-> "opening",
                     turn |-> IF g.current <= Count(g) THEN TurnAt(g, g.current) ELSE 0,
                     epoch |-> g.worker]
  <2>2. /\ session.open /\ ~session.recovering /\ UNCHANGED <<workers, order, moved>>
        /\ session' = [g EXCEPT !.recovering = TRUE, !.rec = rec]
    BY <1>10 DEF RetryRecovery, Become
  <2> HIDE DEF g
  <2>3. rec \in Recs /\ rec.step = "opening"
    <3>1. g.current <= Count(g) => TurnAt(g, g.current) \in Turns
      BY <2>1, PictureIsTyped
    <3>2. 0 \in Turns /\ g.worker \in Workers /\ g.doc.slots \in Orders
      BY <1>0, <2>1 DEF Turns, Sessions
    <3> QED  BY <2>1, <3>1, <3>2 DEF Recs
  <2> HIDE DEF rec
  <2>4. session.rec = None
    BY <1>0, <2>2 DEF Sane
  <2>5. session' \in Sessions
    BY <2>1, <2>2, <2>3 DEF Sessions
  <2>6. /\ session'.nav = g.nav /\ session'.rot = g.rot /\ session'.strays = g.strays
        /\ session'.rec = rec /\ session'.worker = g.worker /\ session'.open = g.open
        /\ session'.recovering /\ session'.queue = g.queue
        /\ session'.image = g.image /\ session'.doc = g.doc /\ session'.past = g.past
        /\ session'.future = g.future /\ session'.revs = g.revs
        /\ session'.rotating = g.rotating
    BY <2>1, <2>2 DEF Sessions
  <2>7. Sane(session')
    BY <2>1, <2>5, <2>6 DEF Sane
  <2>8. Faithful(g) => Faithful(session')
    BY <2>6 DEF Faithful, Straight, Depicts, Answers, PictureAt, TurnAt
  <2>9. Reopening'
    BY <2>2, <2>3, <2>6 DEF SoundInv, Reopening
  <2>10. Released'
    BY <2>1, <2>2, <2>4, <2>6 DEF SoundInv, Released, Kept
  <2>11. session'.open /\ session'.worker = 1 /\ ~moved' => Plain' /\ Faithful(session')
    BY <2>1, <2>2, <2>6, <2>8 DEF SoundInv, Kept, Plain, Leads
  <2> QED  BY <2>2, <2>7, <2>9, <2>10, <2>11 DEF SoundInv
<1>11. CASE CloseTab
  <2>1. /\ session' = [NewSession EXCEPT !.open = FALSE, !.rec = session.rec]
        /\ workers' = [workers EXCEPT ![session.worker] = "closed"]
        /\ UNCHANGED <<order, moved>>
    BY <1>11 DEF CloseTab
  <2>2. Sane(session') /\ session'.rec = session.rec /\ ~session'.open
    BY <1>0, <2>1, NewSessionIsSane DEF NewSession
  <2>3. workers' \in [Workers -> {"unborn", "running", "stopped", "closed"}]
    BY <1>0, <2>1 DEF SoundInv
  <2>4. Reopening'
    BY <1>0, <2>1, <2>2, BoundsAssumption DEF SoundInv, Reopening
  <2>5. Released'
    BY <1>0, <2>1, <2>2 DEF SoundInv, Released
  <2> QED  BY <2>1, <2>2, <2>3, <2>4, <2>5 DEF SoundInv
<1>12. [i \in Indexes |-> i] \in Seq(Indexes)
  BY PagesAreListed DEF Indexes
<1> QED
  BY <1>2, <1>3, <1>4, <1>5, <1>7, <1>8, <1>9, <1>10, <1>11, <1>12 DEF UserActs

\* The callbacks, of which that of a rotation may take its edit back.
LEMMA WindowActsSound ==
  ASSUME SoundInv, WindowActs
  PROVE  /\ SoundInv'
         /\ Timeline(session) \ {r.rev : r \in {session.rot} \ {session'.rot, None}}
              \subseteq Timeline(session')
<1> DEFINE Undoes == {r.rev : r \in {session.rot} \ {session'.rot, None}}
<1>0. /\ Sane(session) /\ order \in [Workers -> Orders] /\ moved \in BOOLEAN
      /\ workers \in [Workers -> {"unborn", "running", "stopped", "closed"}]
      /\ session \in Sessions /\ session.current \in Indexes /\ session.worker \in Workers
      /\ session.nav \in Navs \cup {None} /\ session.rot \in Rots \cup {None}
      /\ session.rec \in Recs \cup {None} /\ session.strays \in 0..MaxEdits
  BY DEF SoundInv, Sane, Sessions
<1>1. ASSUME Leads(session, session'), UNCHANGED <<workers, order, moved>>
      PROVE  SoundInv'
  BY <1>0, <1>1, LeadsKeepsSound DEF Leads
<1>2. CASE NavigationResult
  <2>1. PICK d \in AnswersOf(session.nav) : session' \in NavigationEnds(session, d)
    BY <1>2 DEF NavigationResult, Become
  <2>2. session.nav # None /\ UNCHANGED <<workers, order, moved>>
    BY <1>2 DEF NavigationResult
  <2>3. session.nav.page \in Indexes /\ session.nav.drawn \in Pages \cup {None}
    BY <1>0, <2>2 DEF Navs
  <2>4. Answer(session, session.nav, d)
    BY <1>0, <2>3, AnswersOfIsAnswer
  <2>5. Leads(session, session') /\ SameEdits(session, session')
    BY <1>0, <2>1, <2>2, <2>4, NavigationEndsLeads
  <2> QED  BY <1>1, <2>2, <2>5, SameEditsSameTimeline
<1>3. ASSUME session.rot # None, NEW d \in AnswersOf(session.rot),
             session' \in RotationEnds(session, d), UNCHANGED <<workers, order, moved>>
      PROVE  SoundInv' /\ Timeline(session) \ Undoes \subseteq Timeline(session')
  <2>1. session.rot \in Rots
    BY <1>0, <1>3
  <2>2. session.rot.page \in Indexes /\ session.rot.drawn \in Pages \cup {None}
        /\ session.rot.rev \in 0..MaxEdits
    BY <2>1 DEF Rots
  <2>3. Answer(session, session.rot, d)
    BY <1>0, <1>3, <2>2, AnswersOfIsAnswer
  <2>4. /\ Leads(session, session')
        /\ Timeline(session) \ {session.rot.rev} \subseteq Timeline(session')
        /\ session'.rot = None \/ session'.rot.rev > session.rot.rev
    BY <1>0, <1>3, <2>3, RotationEndsLeads
  <2>5. session.rot # session'.rot
    BY <1>3, <2>2, <2>4
  <2>6. session.rot.rev \in Undoes
    BY <1>3, <2>5
  <2> HIDE DEF Undoes
  <2> QED  BY <1>1, <1>3, <2>4, <2>6
<1>4. ASSUME session.strays > 0, session' \in StrayEnds(session), UNCHANGED <<workers, order, moved>>
      PROVE  SoundInv' /\ Timeline(session) \ Undoes \subseteq Timeline(session')
  <2>1. Leads(session, session') /\ Timeline(session) \subseteq Timeline(session')
    BY <1>0, <1>4, StrayEndsLeads
  <2> QED  BY <1>1, <1>4, <2>1
<1>5. CASE RecoveryResult
  <2> DEFINE c == session.rec
             s == [session EXCEPT !.rec = None]
             Dropped == IF c.step = "ready" THEN [workers EXCEPT ![c.worker] = "closed"] ELSE workers
             failed == [s EXCEPT !.recovering = FALSE, !.failure = TRUE]
             picture == [index |-> s.current, page |-> FilePages[c.index], turn |-> c.turn]
             replaced == [s EXCEPT !.worker = c.worker, !.recovering = FALSE,
                                   !.failure = FALSE, !.requested = s.current, !.image = picture]
  <2>1. /\ c \in Recs /\ c \in Recs \cup {None} /\ c # None
        /\ UNCHANGED <<order, moved>>
        /\ \/ session' = s /\ workers' = Dropped /\ ~(s.open /\ c.current /\ c.epoch = s.worker)
           \/ session' = failed /\ workers' = Dropped
           \/ /\ session' = replaced /\ s.open /\ c.step = "ready"
              /\ workers' = [workers EXCEPT ![s.worker] = "closed"]
    BY <1>0, <1>5 DEF RecoveryResult
  <2>2. c.index \in Indexes /\ c.turn \in Turns /\ (c.step = "ready" => c.worker \in Workers \ {1})
    BY <2>1 DEF Recs, SoundInv, Reopening
  <2>3. s \in Sessions
    BY <1>0 DEF Sessions
  <2>4. failed \in Sessions
    BY <2>3 DEF Sessions
  <2>5. picture \in Picture
    BY <1>0, <2>2, <2>3, PagesAreListed DEF Picture, Sessions
  <2>6. c.step = "ready" => replaced \in Sessions
    <3> HIDE DEF picture, c, s
    <3> QED  BY <2>2, <2>3, <2>5 DEF Sessions
  <2>7. \A t \in {s, failed, replaced} :
          /\ t.nav = session.nav /\ t.rot = session.rot /\ t.strays = session.strays
          /\ t.rec = None /\ t.open = session.open /\ t.queue = session.queue
          /\ t.doc = session.doc /\ t.past = session.past /\ t.future = session.future
          /\ t.revs = session.revs /\ t.rotating = session.rotating
    <3>1. /\ s.nav = session.nav /\ s.rot = session.rot /\ s.strays = session.strays
          /\ s.rec = None /\ s.open = session.open /\ s.queue = session.queue
          /\ s.doc = session.doc /\ s.past = session.past /\ s.future = session.future
          /\ s.revs = session.revs /\ s.rotating = session.rotating
      BY <1>0 DEF Sessions
    <3> HIDE DEF c, s, picture
    <3>2. /\ failed.nav = s.nav /\ failed.rot = s.rot /\ failed.strays = s.strays
          /\ failed.rec = None /\ failed.open = s.open /\ failed.queue = s.queue
          /\ failed.doc = s.doc /\ failed.past = s.past /\ failed.future = s.future
          /\ failed.revs = s.revs /\ failed.rotating = s.rotating
      BY <2>3, <3>1 DEF Sessions
    <3>3. /\ replaced.nav = s.nav /\ replaced.rot = s.rot /\ replaced.strays = s.strays
          /\ replaced.rec = None /\ replaced.open = s.open /\ replaced.queue = s.queue
          /\ replaced.doc = s.doc /\ replaced.past = s.past /\ replaced.future = s.future
          /\ replaced.revs = s.revs /\ replaced.rotating = s.rotating
      BY <2>3, <3>1 DEF Sessions
    <3> HIDE DEF c, s, failed, replaced, picture
    <3> QED  BY <3>1, <3>2, <3>3
  <2>8. /\ s.worker = session.worker /\ failed.worker = session.worker /\ replaced.worker = c.worker
        /\ s.image = session.image /\ failed.image = session.image
    BY <1>0 DEF Sessions
  <2> HIDE DEF c, s, failed, replaced, picture
  <2>9. session' \in {s, failed, replaced} /\ session' \in Sessions
    BY <2>1, <2>3, <2>4, <2>6
  <2>10. Sane(session')
    BY <1>0, <2>7, <2>9 DEF Sane
  <2>11. workers' \in [Workers -> {"unborn", "running", "stopped", "closed"}]
         /\ workers'[1] # "unborn" /\ session'.rec = None
    BY <1>0, <2>1, <2>2, <2>7, <2>8, <2>9, BoundsAssumption DEF SoundInv, Reopening
  <2>12. Released'
    <3> SUFFICES ASSUME NEW w \in Workers, workers'[w] \in {"running", "stopped"}
                 PROVE  session'.open /\ session'.worker = w
      BY DEF Released
    <3>1. CASE session' \in {s, failed} /\ workers' = Dropped
      <4>1. workers[w] \in {"running", "stopped"} /\ ~(c.step = "ready" /\ c.worker = w)
        BY <1>0, <2>2, <3>1
      <4>2. session.open /\ session.worker = w
        BY <4>1 DEF SoundInv, Released, c
      <4> QED  BY <2>7, <2>8, <3>1, <4>2
    <3>2. CASE session' = replaced /\ s.open /\ workers' = [workers EXCEPT ![s.worker] = "closed"]
      <4>1. workers[w] \in {"running", "stopped"} /\ w # session.worker
        BY <1>0, <2>8, <3>2
      <4>2. c.worker = w
        BY <4>1 DEF SoundInv, Released, c
      <4> QED  BY <2>7, <2>8, <3>2, <4>2
    <3> QED  BY <2>1, <3>1, <3>2
  <2>13. session'.open /\ session'.worker = 1 /\ ~moved' => Plain' /\ Faithful(session')
    <3>1. CASE session' \in {s, failed}
      <4>0. /\ session'.doc = session.doc /\ session'.past = session.past
            /\ session'.future = session.future /\ session'.nav = session.nav
            /\ session'.rot = session.rot /\ session'.image = session.image
        BY <2>7, <2>8, <3>1
      <4>1. Faithful(session) => Faithful(session')
        BY <4>0 DEF Faithful, Straight, Depicts, Answers, PictureAt, TurnAt
      <4> QED  BY <2>1, <2>7, <2>8, <3>1, <4>1 DEF SoundInv, Plain
    <3>2. CASE session' = replaced /\ c.step = "ready"
      BY <2>2, <2>8, <3>2
    <3> QED  BY <2>1, <3>1, <3>2
  <2>14. SoundInv'
    BY <1>0, <2>1, <2>10, <2>11, <2>12, <2>13 DEF SoundInv, Reopening
  <2>15. Timeline(session') = Timeline(session)
    BY <2>7, <2>9 DEF Timeline
  <2> QED  BY <2>14, <2>15
<1> HIDE DEF Undoes
<1> QED  BY <1>2, <1>3, <1>4, <1>5 DEF WindowActs, RotationResult, Become, Undoes

\* What happens to the workers, and the task that reopens the document.
LEMMA WorkerStepsSound ==
  ASSUME SoundInv, PrepareRecovery \/ TileFails \/ WorkerReorders \/ \E w \in Workers : WorkerStops(w)
  PROVE  SoundInv' /\ Timeline(session') = Timeline(session)
<1>0. /\ Sane(session) /\ order \in [Workers -> Orders] /\ moved \in BOOLEAN
      /\ workers \in [Workers -> {"unborn", "running", "stopped", "closed"}]
      /\ session \in Sessions /\ session.worker \in Workers
      /\ session.rec \in Recs \cup {None} /\ session.doc.slots \in Orders
  BY DEF SoundInv, Sane, Sessions, Doc
<1>1. ASSUME NEW rec \in Recs, session.rec # None, session' = [session EXCEPT !.rec = rec]
      PROVE  /\ Sane(session') /\ session'.rec = rec /\ session'.open = session.open
             /\ session'.worker = session.worker /\ (Faithful(session) => Faithful(session'))
             /\ Timeline(session') = Timeline(session)
  <2>1. session' \in Sessions
    BY <1>0, <1>1 DEF Sessions
  <2>2. /\ session'.nav = session.nav /\ session'.rot = session.rot /\ session'.strays = session.strays
        /\ session'.rec = rec /\ session'.open = session.open /\ session'.queue = session.queue
        /\ session'.doc = session.doc /\ session'.past = session.past
        /\ session'.future = session.future /\ session'.image = session.image
        /\ session'.revs = session.revs /\ session'.rotating = session.rotating
        /\ session'.recovering = session.recovering /\ session'.worker = session.worker
    BY <1>0, <1>1 DEF Sessions
  <2>3. Sane(session')
    BY <1>0, <1>1, <2>1, <2>2 DEF Sane
  <2>4. Faithful(session) => Faithful(session')
    BY <2>2 DEF Faithful, Straight, Depicts, Answers, PictureAt, TurnAt
  <2> QED  BY <2>2, <2>3, <2>4 DEF Timeline
<1>2. CASE PrepareRecovery
  <2>1. session.rec \in Recs /\ session.rec # None /\ session.rec.step = "opening"
        /\ UNCHANGED <<order, moved>>
    BY <1>0, <1>2 DEF PrepareRecovery
  <2>2. CASE session' = [session EXCEPT !.rec.step = "error"] /\ UNCHANGED workers
    <3> DEFINE rec == [session.rec EXCEPT !.step = "error"]
    <3>1. rec \in Recs /\ rec.step = "error" /\ session' = [session EXCEPT !.rec = rec]
      BY <1>0, <2>1, <2>2 DEF Recs
    <3> HIDE DEF rec
    <3>2. /\ Sane(session') /\ session'.rec = rec /\ session'.open = session.open
          /\ session'.worker = session.worker /\ (Faithful(session) => Faithful(session'))
          /\ Timeline(session') = Timeline(session)
      BY <1>1, <2>1, <3>1
    <3>3. Reopening'
      BY <2>2, <3>1, <3>2 DEF SoundInv, Reopening
    <3>4. Released'
      BY <2>1, <2>2, <3>2 DEF SoundInv, Released
    <3> QED  BY <1>0, <2>1, <2>2, <3>2, <3>3, <3>4 DEF SoundInv, Plain
  <2>3. ASSUME NEW w \in Workers, workers[w] = "unborn",
               session' = [session EXCEPT !.rec.worker = w, !.rec.step = "ready"],
               workers' = [workers EXCEPT ![w] = "running"]
        PROVE  SoundInv' /\ Timeline(session') = Timeline(session)
    <3> DEFINE rec == [session.rec EXCEPT !.worker = w, !.step = "ready"]
    <3>1. rec \in Recs /\ rec # None /\ rec.step = "ready" /\ rec.worker = w
          /\ session' = [session EXCEPT !.rec = rec]
      <4>1. rec \in Recs /\ rec.step = "ready" /\ rec.worker = w
        BY <2>1 DEF Recs
      <4>2. session' = [session EXCEPT !.rec = rec]
        BY <1>0, <2>3 DEF Sessions
      <4> QED  BY <4>1, <4>2
    <3> HIDE DEF rec
    <3>2. /\ Sane(session') /\ session'.rec = rec /\ session'.open = session.open
          /\ session'.worker = session.worker /\ (Faithful(session) => Faithful(session'))
          /\ Timeline(session') = Timeline(session)
      BY <1>1, <2>1, <3>1
    <3>3. Reopening' /\ workers' \in [Workers -> {"unborn", "running", "stopped", "closed"}]
      BY <1>0, <2>3, <3>1, <3>2, BoundsAssumption DEF SoundInv, Reopening
    <3>4. Released'
      BY <1>0, <2>1, <2>3, <3>1, <3>2 DEF SoundInv, Released
    <3> QED  BY <1>0, <2>1, <2>3, <3>2, <3>3, <3>4 DEF SoundInv, Plain
  <2> QED  BY <1>2, <2>2, <2>3, ZenonT(60) DEF PrepareRecovery
<1>3. CASE TileFails
  <2>1. session' = [session EXCEPT !.failure = TRUE] /\ UNCHANGED <<workers, order, moved>>
    BY <1>3 DEF TileFails
  <2>2. session' \in Sessions
    BY <1>0, <2>1 DEF Sessions
  <2>3. Beside(session, session') /\ session'.image = session.image
    BY <1>0, <2>1 DEF Sessions, Beside
  <2>4. Depicts(session) => Depicts(session')
    BY <2>3 DEF Depicts, PictureAt, TurnAt, Beside
  <2>5. Leads(session, session') /\ SameEdits(session, session')
    BY <1>0, <2>2, <2>3, <2>4, BesideLeads DEF Faithful
  <2> QED  BY <1>0, <2>1, <2>5, LeadsKeepsSound, SameEditsSameTimeline DEF Leads
<1>4. CASE WorkerReorders
  <2>1. /\ session.open /\ order[session.worker] # session.doc.slots
        /\ order' = [order EXCEPT ![session.worker] = session.doc.slots]
        /\ UNCHANGED <<session, workers, moved>>
    BY <1>4 DEF WorkerReorders
  <2>2. order' \in [Workers -> Orders]
    BY <1>0, <2>1
  <2>3. session.worker = 1 => moved
    BY <1>0, <2>1 DEF SoundInv, Plain, Faithful, Straight
  <2>4. Reopening' /\ Released'
    BY <2>1 DEF SoundInv, Reopening, Released
  <2> QED  BY <1>0, <2>1, <2>2, <2>3, <2>4 DEF SoundInv, Timeline
<1>5. ASSUME NEW w \in Workers, WorkerStops(w)
      PROVE  SoundInv' /\ Timeline(session') = Timeline(session)
  <2>1. /\ workers[w] = "running" /\ workers' = [workers EXCEPT ![w] = "stopped"]
        /\ UNCHANGED <<session, order, moved>>
    BY <1>5 DEF WorkerStops
  <2>2. workers' \in [Workers -> {"unborn", "running", "stopped", "closed"}]
    BY <1>0, <2>1
  <2>3. Reopening'
    BY <1>0, <2>1, BoundsAssumption DEF SoundInv, Reopening
  <2>4. Released'
    BY <1>0, <2>1 DEF SoundInv, Released
  <2> QED  BY <1>0, <2>1, <2>2, <2>3, <2>4 DEF SoundInv, Timeline, Plain
<1> QED  BY <1>2, <1>3, <1>4, <1>5

LEMMA NextSound ==
  ASSUME SoundInv, [Next]_vars
  PROVE  SoundInv'
<1>1. CASE UNCHANGED vars
  <2>1. Reopening' /\ Released'
    BY <1>1 DEF SoundInv, Reopening, Released, vars
  <2>2. Faithful(session) <=> Faithful(session')
    BY <1>1 DEF vars
  <2> QED  BY <1>1, <2>1, <2>2 DEF SoundInv, vars, Plain
<1> QED  BY <1>1, UserActsSound, WindowActsSound, WorkerStepsSound DEF Next

-----------------------------------------------------------------------------
(***************************************************************************)
(* The inductive invariant: every session is well formed, a reopening that *)
(* is ready has a worker of its own, whoever runs is used or about to be,  *)
(* and pictures and answers are of the document.                           *)
(***************************************************************************)
THEOREM SoundAlways == Spec => []SoundInv
<1> QED  BY InitSound, NextSound, PTL DEF Spec

(***************************************************************************)
(* For any file, orders, numbers of edits and of workers: no worker        *)
(* process is left behind, whatever the order in which a document is       *)
(* closed, its worker stops and its reopening is answered                  *)
(* (apply_document_recovery_result).                                       *)
(***************************************************************************)
THEOREM NoWorkerIsLeft == Spec => []RequestsInv
<1> QED  BY SoundAlways, SoundIsEnough, PTL

(***************************************************************************)
(* The sharp picture is the document's page, turned as the document turns  *)
(* it, whatever navigations, rotations, undo, redo and failures came       *)
(* between asking for it and applying it (apply_page_result).              *)
(***************************************************************************)
THEOREM PictureIsThePage == Spec => []PictureFollowsDocument
<1> QED  BY SoundAlways, SoundIsEnough, PTL

(***************************************************************************)
(* A callback takes back no edit, or that of the rotation that has failed  *)
(* (rollback_failed_page_rotation).                                        *)
(***************************************************************************)
THEOREM NothingElseIsUndone == Spec => OnlyTheFailedRotationIsUndone
<1> DEFINE Undoes == {r.rev : r \in {session.rot} \ {session'.rot, None}}
           Kind == [LET lost == Timeline(session) \ Timeline(session')
                    IN lost \subseteq Undoes \/ UserActs]_vars
<1>1. ASSUME SoundInv, [Next]_vars PROVE Kind
  <2>1. CASE UNCHANGED vars
    BY <2>1
  <2>2. CASE WindowActs
    BY <1>1, <2>2, WindowActsSound
  <2>3. CASE PrepareRecovery \/ TileFails \/ WorkerReorders \/ \E w \in Workers : WorkerStops(w)
    BY <1>1, <2>3, WorkerStepsSound
  <2> QED  BY <1>1, <2>1, <2>2, <2>3 DEF Next
<1> QED  BY <1>1, SoundAlways, PTL DEF Spec, OnlyTheFailedRotationIsUndone
=============================================================================
