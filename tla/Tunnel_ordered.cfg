SPECIFICATION Spec
CONSTANTS
  Reorder = FALSE
  Rate = 2
  WindowSize = 3
  CodeTypes = {TRUE, FALSE}
  Adaptives = {TRUE}
  Orders = {TRUE, FALSE}
  AckTimers = {TRUE, FALSE}
  AckCounts = {1, 3}
  MaxAcks = 0
  CounterWidth = 2
  RepairWidth = 8
  AckWidth = 2
  MaxSource = 3
  MaxRepair = 4
INVARIANTS
  WindowAhead
  ForgottenWasDelivered
  NoFault
  NoStaleRepair
  FewerRepairsThanMissing
  NothingWithheld
PROPERTIES
  ImplementsDelivery
CHECK_DEADLOCK FALSE
