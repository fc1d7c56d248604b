---------------------------- MODULE CloseContract ----------------------------
(***************************************************************************)
(* What closing a window promises, as seen by the documents and the        *)
(* session manifest, with no coordinator, tokens, answers or order of      *)
(* saves: application_close.rs implements this (ApplicationClose!Contract).*)
(*                                                                         *)
(* A close is asked for with the documents of the window and those of them *)
(* that are dirty.  It may always be given up, but what it does happens in *)
(* stages: every dirty document is saved, unless the user discards them;   *)
(* then the manifest is published; only then are documents released; and   *)
(* the close is confirmed when all of them are.  A close whose manifest    *)
(* could not be published may be suspended and go on later.                *)
(***************************************************************************)
EXTENDS Naturals

CONSTANTS Documents, NoClose

VARIABLES
  requests,   \* how many closes were asked for
  closing,    \* the close under way: its documents, the dirty ones, its mode
  active,     \* it is being worked on: not suspended
  saved,      \* documents saved, as dirty as they were, for this close
  published,  \* its manifest is published
  released,   \* documents released for this close
  confirmed   \* the request that was confirmed last, 0 once there is a newer one

vars == <<requests, closing, active, saved, published, released, confirmed>>

\* mode is "undecided", also of a close with nothing to decide, "save" or "discard".
Nothing ==
  /\ saved' = {} /\ published' = FALSE /\ released' = {}

Init ==
  /\ requests = 0
  /\ closing = NoClose /\ active = FALSE
  /\ saved = {} /\ published = FALSE /\ released = {}
  /\ confirmed = 0

\* A suspended close is forgotten by the next one.
Request(documents, dirty) ==
  /\ ~active
  /\ requests' = requests + 1
  /\ closing' = [documents |-> documents, dirty |-> dirty, mode |-> "undecided"]
  /\ active' = TRUE
  /\ Nothing
  /\ confirmed' = 0

Decide(mode) ==
  /\ active /\ closing.mode = "undecided" /\ closing.dirty # {}
  /\ closing' = [closing EXCEPT !.mode = mode]
  /\ UNCHANGED <<requests, active, saved, published, released, confirmed>>

Save(d) ==
  /\ active /\ closing.mode = "save" /\ d \in closing.dirty
  /\ saved' = saved \cup {d}
  /\ UNCHANGED <<requests, closing, active, published, released, confirmed>>

Publish ==
  /\ active
  /\ closing.mode = "discard" \/ closing.dirty \subseteq saved
  /\ published' = TRUE
  /\ UNCHANGED <<requests, closing, active, saved, released, confirmed>>

Release(d) ==
  /\ active /\ published /\ d \in closing.documents
  /\ released' = released \cup {d}
  /\ UNCHANGED <<requests, closing, active, saved, published, confirmed>>

Confirm ==
  /\ active /\ published /\ released = closing.documents
  /\ confirmed' = requests
  /\ UNCHANGED requests
  /\ closing' = NoClose /\ active' = FALSE
  /\ Nothing

GiveUp ==
  /\ active
  /\ closing' = NoClose /\ active' = FALSE
  /\ Nothing
  /\ UNCHANGED <<requests, confirmed>>

Suspend ==
  /\ active /\ ~published
  /\ active' = FALSE
  /\ UNCHANGED <<requests, closing, saved, published, released, confirmed>>

GoOn ==
  /\ ~active /\ closing # NoClose
  /\ active' = TRUE
  /\ UNCHANGED <<requests, closing, saved, published, released, confirmed>>

Next ==
  \/ \E documents \in SUBSET Documents : \E dirty \in SUBSET documents : Request(documents, dirty)
  \/ \E mode \in {"save", "discard"} : Decide(mode)
  \/ \E d \in Documents : Save(d) \/ Release(d)
  \/ Publish \/ Confirm \/ GiveUp \/ Suspend \/ GoOn

Spec == Init /\ [][Next]_vars
=============================================================================
