SPECIFICATION Spec
CONSTANTS
  a = a
  b = b
  FilePages <- MCFilePages
  Geometry <- MCGeometry
  Orders <- MCOrders
  Workers <- MCWorkers
  MaxEdits = 2
  MaxQueue = 2
  None = None
INVARIANTS
  RequestsInv
  PictureFollowsDocument
PROPERTIES
  OnlyTheFailedRotationIsUndone
CHECK_DEADLOCK FALSE
