\* Two projects, three turns, one new rebuild key, one change of project.
CONSTANTS
  p1 = p1
  p2 = p2
  Project <- MCProject
  First = p1
  MaxTurns = 3
  MaxBumps = 1
  MaxMoves = 1
SPECIFICATION Spec
INVARIANTS
  TypeOK
  TurnHeld
  ShowsThisProject
  OneRepairPerBuild
PROPERTY BusyClears
