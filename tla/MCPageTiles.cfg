SPECIFICATION FairSpec
CONSTANTS
  Tiles = {p1}
  Edits = {e0, e1}
  Unedited = e0
  MaxActive = 2
  MaxReopens = 1
  None = None
INVARIANTS
  TilesInv
  WorkerDrawsShown
  TilesShowAcknowledgedEdits
PROPERTY
  ScreenSettles
CHECK_DEADLOCK FALSE
