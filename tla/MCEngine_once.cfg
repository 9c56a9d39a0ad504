SPECIFICATION Spec
CONSTANTS
  in = in
  out = out
  ctl = ctl
  dev = dev
  r1 = r1
  None = None
  Keys = {in, out, ctl}
  InKeys = {in}
  ControlKeys = {ctl}
  DeviceOf <- MCDevice
  KindsOf <- OnceKinds
  Offers <- OnceOffers
  BulkDepth = 2
  IsoDepth = 1
  RingSize = 6
  UrbStatuses <- OnceStatuses
  HostOps <- OnceOps
  Events = {"close"}
  Resets = {}
  Scenes <- OnceScenes
  MaxMessages <- OnceMessages
  MaxTokens = 4
  MaxDisruptions = 2
INVARIANTS TypeOK NoLostRead RunOnce ControlRan OwnBuffer
CHECK_DEADLOCK FALSE
