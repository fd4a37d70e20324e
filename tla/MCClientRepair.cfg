\* One project, two turns, one rebuild.
CONSTANTS
  p1 = p1
  p2 = p2
  Project <- MCProject
  First = p1
  MaxTurns = 2
  MaxBumps = 1
  MaxMoves = 0
SPECIFICATION Spec
PROPERTY RepairFollows
