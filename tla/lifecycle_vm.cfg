SPECIFICATION FairSpec
CONSTANTS
  MaxLabs = 1
  Users = {u1}
  NoUser = NoUser
  Requests = {q1}
  ReaperTicks = {r1}
  PrewarmTicks = {w1}
  PoolTarget = 1
  VmLab = TRUE
  Faults = TRUE
  MaxCrashes = 1
  Ops = {"acquire", "resume", "restart", "extend", "time"}
INVARIANTS TidyRowsTellTheTruth ReaperSparesPool
PROPERTIES ExpiredIsReaped FailedIsFinal
