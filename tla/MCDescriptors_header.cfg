SPECIFICATION Spec
CONSTANTS
  Shapes <- AllShapes
  MaxShapes = 3
  Leads = {0, 9, 15, 495, 496}
  Intervals = {0, 1, 2, 15, 16, 17, 255}
  None = None
INVARIANT HeaderAgrees
CHECK_DEADLOCK FALSE
