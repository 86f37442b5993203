SPECIFICATION Spec
CONSTANTS
  Requests = {r1}
  MaxLaunches = 2
  MaxLabs = 2
  MaxEvents = 4
  MaxSeats = 2
  Horizon = 1
INVARIANT AttachNeverFails
CHECK_DEADLOCK FALSE
