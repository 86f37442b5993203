SPECIFICATION Spec
CONSTANTS
  Nodes = {1, 2}
  Capacity <- McCapacity
  Slots = {s1, t1, t2}
  Stateless = {t1, t2}
  Policies <- McPolicies
  MaxInFlight = 2
  MaxEvents = 1
SYMMETRY Symmetry
INVARIANTS OvershootIsBounded WorkIsSticky
PROPERTIES RingAdvances 
