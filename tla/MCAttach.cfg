\* One device with one endpoint, which can be created a second time; one transfer or
\* device reset, since requests do not meet in Transfers; a frame of one tick.
SPECIFICATION Spec
CONSTANTS
  MaxAddress = 1
  Endpoints = {0}
  MaxMachines = 3
  Faults = {"respond"}
  Numer = 1
  Denom = 1
  Horizon = 1
  Requests = {1}
  MaxUpdates = 1
INVARIANTS GoneIsUnlinked
PROPERTIES  MainReturns
