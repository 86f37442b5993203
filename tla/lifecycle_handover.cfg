SPECIFICATION Spec
CONSTANTS
  MaxLabs = 2
  Users = {u1, u2}
  NoUser = NoUser
  Requests = {q1, q2}
  ReaperTicks = {}
  PrewarmTicks = {w1}
  PoolTarget = 1
  VmLab = FALSE
  Faults = FALSE
  MaxCrashes = 0
  Ops = {"acquire", "destroy", "suspend"}
SYMMETRY Symmetry
INVARIANT HoldsOwnLab
PROPERTIES ImplementsLease WorkLostOnlyByWipe
