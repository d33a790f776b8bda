SPECIFICATION Spec
CONSTANTS
  Rate = 2
  WindowSize = 2
  CodeTypes = {TRUE, FALSE}
  Orders = {TRUE, FALSE}
  DataRoom = 2
  AckRoom = 1
  CounterWidth = 0
  RepairWidth = 2
  AckWidth = 0
  MaxSource = 3
  MaxRepair = 3
INVARIANTS
  EncodesSomething
  NoFault
PROPERTIES
  EventuallyRecovered
  WindowDrains
CHECK_DEADLOCK FALSE
