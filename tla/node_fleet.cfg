SPECIFICATION FairSpec
CONSTANTS
  Nodes = {n1, n2}
  FirstNode = n1
  Bodies <- McBodies
  Admins = {a1}
  Watched = {n1}
  PathOf <- McPathOf
  Users = {u1}
  MaxMoves = 1
  MaxRestarts = 1
  NoNode = NoNode
INVARIANTS EditIsPickedUp NoOrphan
PROPERTY RecoveredNodeIsSeen
