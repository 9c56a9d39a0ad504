SPECIFICATION Spec
CONSTANTS
  Shapes <- AllShapes
  MaxShapes = 4
  Leads = {0, 9, 15, 495, 496}
  Intervals = {0, 1, 2, 15, 16, 17, 255}
  None = None
INVARIANTS FullReadIsFiltered HeaderAgreesOnDisks ToldLengthSuffices PeriodicHasInterval
CHECK_DEADLOCK FALSE
