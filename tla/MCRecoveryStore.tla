--------------------------- MODULE MCRecoveryStore ---------------------------
(***************************************************************************)
(* An instance of RecoveryStore for TLC: two documents that may share a    *)
(* base PDF and a timeline.                                                *)
(***************************************************************************)
EXTENDS RecoveryStore, TLC

CONSTANTS d1, d2, b1, b2, t1, t2

MCIds == {d1, d2}
MCBases == (d1 :> {b1, b2}) @@ (d2 :> {b1})
MCTimelines == (d1 :> {t1, t2}) @@ (d2 :> {t1})
AllFaults == {"Exit", "Kill", "PowerLoss", "WriteFails", "SyncFails"}

=============================================================================
