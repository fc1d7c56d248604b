------------------------------ MODULE MCPageTiles ------------------------------
(***************************************************************************)
(* One page that scrolls in and out of view, two values of the edits, two  *)
(* drawing tasks and one replacement of the worker.  Tiles of different    *)
(* pages meet only in the task slots, which two qualities of one page and  *)
(* the tasks of cancelled plans already compete for.                       *)
(***************************************************************************)
EXTENDS PageTiles
=============================================================================
