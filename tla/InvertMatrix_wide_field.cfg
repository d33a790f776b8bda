SPECIFICATION Spec
CONSTANTS
  MaxSource = 15
  MaxRepair = 16
  AckWidth = 0
  SizeWidth = 2
  IdWidth = 4
  MaxSize = 3
  Missing = {0, 1, 2}
  Repairs = {0, 1, 2}
  Dimensions = {2}
INVARIANT SizesRebuilt
CHECK_DEADLOCK FALSE
