SPECIFICATION Spec
CONSTANTS
  Reorder = TRUE
  Rate = 5
  WindowSize = 4
  CodeTypes = {TRUE}
  Adaptives = {FALSE}
  Orders = {TRUE}
  AckTimers = {FALSE}
  AckCounts = {9}
  MaxAcks = 0
  CounterWidth = 4
  RepairWidth = 8
  AckWidth = 2
  MaxSource = 3
  MaxRepair = 3
INVARIANT NothingWithheld
CHECK_DEADLOCK FALSE
