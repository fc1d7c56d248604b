SPECIFICATION FairSpec
CONSTANTS
  Phones = {p1}
  MaxPolls = 2
  MaxUploads = 2
  MaxAcks = 2
  DesktopPolls = 2
  DesktopAcks = 2
  MaxDrawn = 2
  MaxSends = 2
  Desktop = Desktop
  None = None
INVARIANTS
  TransferInv
  PhoneAndDesktopAgree
  SentIsLastDrawing
PROPERTIES
  CancelledShowsNothing
  KeptUntilReceived
  RelayForgets
CHECK_DEADLOCK FALSE
