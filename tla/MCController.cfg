\* Two addresses, so that one is left when one is taken; two endpoints, so that a
\* device has more than one ring; a frame of one and a half ticks.
SPECIFICATION ControllerSpec
CONSTANTS
  MaxAddress = 2
  Endpoints = {0, 129}
  MaxMachines = 4
  Faults = {"machine", "inspect", "respond"}
  Numer = 2
  Denom = 3
  Horizon = 3
INVARIANTS ControllerTypeOK AddressesMatch RingsAreEndpoints HostViewAgrees KnownToController
PROPERTIES FramesAdvance
