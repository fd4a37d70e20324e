\* Three calls, one of them foreign; the frame is loaded again once and a
\* second bridge may be put up.
CONSTANTS
  c1 = c1
  c2 = c2
  c3 = c3
  i1 = i1
  i2 = i2
  i3 = i3
  NoId = NoId
  Call <- MCCall
  Foreign <- MCForeign
  Id <- MCId
  MaxLoads = 1
  MaxBridges = 2
SPECIFICATION Spec
INVARIANTS
  TypeOK
  TimersGuardRunning
PROPERTIES
  AnswersOnce
  EveryCallItsAnswer
  EveryCallSettles
