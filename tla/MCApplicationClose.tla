------------------------- MODULE MCApplicationClose -------------------------
(***************************************************************************)
(* Instances of ApplicationClose for TLC.                                  *)
(***************************************************************************)
EXTENDS ApplicationClose

CONSTANTS d1, d2

CleanTab(d) == [id |-> d, dirty |-> Clean, saveAs |-> FALSE]
DirtyTab(d) == [id |-> d, dirty |-> 1, saveAs |-> FALSE]
EditedTab(d) == [id |-> d, dirty |-> 2, saveAs |-> FALSE]
UntitledTab(d) == [id |-> d, dirty |-> 1, saveAs |-> TRUE]

MCDocuments == {d1, d2}

\* No document, one, and two in both tab orders: clean, dirty and untitled
\* ones, with a second revision so that an old save is told from a new one.
MCSnapshots ==
    {<< >>, <<CleanTab(d1)>>, <<UntitledTab(d2)>>,
     <<DirtyTab(d1), CleanTab(d2)>>, <<CleanTab(d1), EditedTab(d2)>>,
     <<DirtyTab(d1), UntitledTab(d2)>>, <<EditedTab(d2), DirtyTab(d1)>>}

=============================================================================
