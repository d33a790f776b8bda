SPECIFICATION Spec
CONSTANTS
  Reorder = TRUE
  Rate = 2
  WindowSize = 2
  CodeTypes = {TRUE}
  Adaptives = {FALSE}
  Orders = {FALSE}
  AckTimers = {FALSE}
  AckCounts = {3}
  MaxAcks = 1
  CounterWidth = 4
  RepairWidth = 8
  AckWidth = 2
  MaxSource = 2
  MaxRepair = 2
INVARIANTS
  WindowAhead
  ForgottenWasDelivered
CHECK_DEADLOCK FALSE
