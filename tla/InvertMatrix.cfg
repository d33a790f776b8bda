SPECIFICATION Spec
CONSTANTS
  MaxSource = 15
  MaxRepair = 16
  AckWidth = 0
  SizeWidth = 8
  IdWidth = 8
  MaxSize = 19
  Missing = {0, 1, 2, 15}
  Repairs = {0, 1, 2, 15, 16}
  Dimensions = {2, 3}
INVARIANTS
  InverseIsRight
  FailsOnlyIfSingular
  OutcomeAllowed
  FailureNotFinal
  RebuildsAll
  RebuildsLast
CHECK_DEADLOCK FALSE
