SPECIFICATION Spec
CONSTANTS
  in = in
  out = out
  ctl = ctl
  dev = dev
  r1 = r1
  None = None
  Keys = {out}
  InKeys = {}
  ControlKeys = {}
  DeviceOf <- MCDevice
  KindsOf <- Bulk
  Offers <- WritesLink
  BulkDepth = 2
  IsoDepth = 1
  RingSize = 4
  UrbStatuses <- Always
  HostOps <- Pauses
  Events = {}
  Resets = {}
  Scenes <- Alone
  MaxMessages <- Three
  MaxTokens = 4
  MaxDisruptions = 0
INVARIANTS RunOnce
CHECK_DEADLOCK FALSE
