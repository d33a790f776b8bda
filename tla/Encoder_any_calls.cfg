SPECIFICATION Spec
CONSTANTS
  CounterWidth = 2
  RepairWidth = 8
  Rates = {1, 3}
  WindowSizes = {1, 3}
  MaxSource = 4
  MaxRepair = 3
INVARIANTS
  TypeOK
  WindowExact
  EvictsOldest
  RateUsable
  RepairCadence
  LimitKept
CHECK_DEADLOCK FALSE
