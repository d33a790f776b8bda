SPECIFICATION Spec
CONSTANTS
  Reorder = TRUE
  Rate = 5
  WindowSize = 2
  CodeTypes = {TRUE}
  Adaptives = {FALSE}
  Orders = {FALSE}
  AckTimers = {FALSE}
  AckCounts = {2}
  MaxAcks = 0
  CounterWidth = 4
  RepairWidth = 8
  AckWidth = 2
  MaxSource = 2
  MaxRepair = 1
INVARIANT DeliveredOnce
CHECK_DEADLOCK FALSE
