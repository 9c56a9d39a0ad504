SPECIFICATION FairSpec
CONSTANTS
  in = in
  out = out
  ctl = ctl
  dev = dev
  r1 = r1
  None = None
  Keys = {in}
  InKeys = {in}
  ControlKeys = {}
  DeviceOf <- MCDevice
  KindsOf <- LiveKinds
  Offers <- LiveOffers
  BulkDepth = 2
  IsoDepth = 2
  RingSize = 3
  UrbStatuses <- Always
  HostOps <- LiveOps
  Events = {"close", "timeout"}
  Resets = {r1}
  Scenes <- Alone
  MaxMessages <- LiveMessages
  MaxTokens = 9
  MaxDisruptions = 2
PROPERTIES EveryMessageServed CloseDrains ExecutorFreed
CHECK_DEADLOCK FALSE
