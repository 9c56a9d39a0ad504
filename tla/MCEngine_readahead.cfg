SPECIFICATION Spec
CONSTANTS
  in = in
  out = out
  ctl = ctl
  dev = dev
  r1 = r1
  None = None
  Keys = {in}
  InKeys = {in}
  ControlKeys = {}
  DeviceOf <- MCDevice
  KindsOf <- Bulk
  Offers <- Normals
  BulkDepth = 2
  IsoDepth = 1
  RingSize = 3
  UrbStatuses <- Always
  HostOps <- Pauses
  Events = {}
  Resets = {}
  Scenes <- Alone
  MaxMessages <- Three
  MaxTokens = 6
  MaxDisruptions = 1
INVARIANTS NoLostRead
CHECK_DEADLOCK FALSE
