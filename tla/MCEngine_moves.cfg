SPECIFICATION Spec
CONSTANTS
  in = in
  out = out
  ctl = ctl
  dev = dev
  r1 = r1
  None = None
  Keys = {in}
  InKeys = {in}
  ControlKeys = {}
  DeviceOf <- MCDevice
  KindsOf <- Bulk
  Offers <- Normals
  BulkDepth = 2
  IsoDepth = 1
  RingSize = 3
  UrbStatuses <- Always
  HostOps <- LostMoves
  Events = {}
  Resets = {}
  Scenes <- Alone
  MaxMessages <- Four
  MaxTokens = 4
  MaxDisruptions = 3
INVARIANTS OwnBuffer
CHECK_DEADLOCK FALSE
