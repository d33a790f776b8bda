SPECIFICATION Spec
CONSTANTS
  MaxId = 6
  DiffWidth = 2
  RunWidth = 2
  CountWidth = 2
INVARIANTS
  TypeOK
  RoundTrip
  WithinWritten
PROPERTIES
  ImplementsWindow
  EraseReturns
CHECK_DEADLOCK FALSE
