SPECIFICATION Spec
CONSTANTS
  CounterWidth = 2
  RepairWidth = 8
  Rates = {3}
  WindowSizes = {1, 3}
  MaxSource = 4
  MaxRepair = 6
PROPERTY NeverGrowsPastLimit
CHECK_DEADLOCK FALSE
