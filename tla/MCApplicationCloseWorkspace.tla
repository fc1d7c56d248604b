--------------------- MODULE MCApplicationCloseWorkspace ---------------------
(***************************************************************************)
(* Instances of ApplicationCloseWorkspace for TLC.                         *)
(***************************************************************************)
EXTENDS ApplicationCloseWorkspace

CONSTANTS d1, d2

MCDocuments == {d1, d2}
MCOneTab == <<d1>>
MCTwoTabs == <<d1, d2>>
MCNone == {}
MCSecond == {d2}

=============================================================================
