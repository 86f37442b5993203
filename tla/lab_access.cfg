SPECIFICATION FairSpec
CONSTANTS
  Labs = {1}
  Ports = {1, 2}
  Ops = {o1, o2}
  MaxEvents = 1
 
INVARIANT ResumeGuardIsExact
PROPERTIES StudentGetsIn DriftIsRepaired
