SPECIFICATION Spec
CONSTANTS
  Requests = {r1, r2}
  MaxLaunches = 2
  MaxLabs = 2
  MaxEvents = 4
  MaxSeats = 2
  Horizon = 1
SYMMETRY Symmetry
INVARIANTS OneLabPerStudent NoStrayLab BilledOnce SeatsAreDistinct TerminatedIsDown
PROPERTY DeadUrlStaysDead
CHECK_DEADLOCK FALSE
