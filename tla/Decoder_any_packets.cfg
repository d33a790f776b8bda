SPECIFICATION Spec
CONSTANTS
  Orders = {TRUE, FALSE}
  AckTimers = {FALSE}
  MaxSource = 3
  MaxRepair = 2
  AckWidth = 0
INVARIANTS
  TypeOK
  PointersValid
  LinksLive
  NothingOutdated
  QueueFlushed
  RecentOnce
PROPERTIES
  RecentInOrder
CHECK_DEADLOCK FALSE
