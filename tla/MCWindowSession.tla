--------------------------- MODULE MCWindowSession ---------------------------
(***************************************************************************)
(* An instance of WindowSession for TLC: one window is edited, the other   *)
(* opens documents, and two background threads write the marker.           *)
(***************************************************************************)
EXTENDS WindowSession, TLC

CONSTANTS w1, w2, t1, t2

MCWindows == {w1, w2}
MCWriters == {t1, t2}

\* The threads are alike.
MCSymmetry == Permutations(MCWriters)

=============================================================================
