SPECIFICATION Spec
CONSTANTS
  MaxLabs = 5
  Users = {u1}
  NoUser = NoUser
  Requests = {q1}
  ReaperTicks = {}
  PrewarmTicks = {w1, w2}
  PoolTarget = 2
  VmLab = FALSE
  Faults = FALSE
  MaxCrashes = 1
  Ops = {"suspend", "resume"}
SYMMETRY Symmetry
INVARIANTS PoolWithinTarget
CHECK_DEADLOCK FALSE
