SPECIFICATION Spec
CONSTANTS
  in = in
  out = out
  ctl = ctl
  dev = dev
  r1 = r1
  None = None
  Keys = {in, out}
  InKeys = {in}
  ControlKeys = {}
  DeviceOf <- MCDevice
  KindsOf <- ReadsKinds
  Offers <- ReadsOffers
  BulkDepth = 2
  IsoDepth = 1
  RingSize = 3
  UrbStatuses <- Always
  HostOps <- ReadsOps
  Events = {"detach"}
  Resets = {}
  Scenes <- Alone
  MaxMessages <- ReadsMessages
  MaxTokens = 4
  MaxDisruptions = 3
INVARIANTS Books NoOrphan PausedReadsUnlinked ReadAheadInOrder OwnBuffer
CHECK_DEADLOCK FALSE
