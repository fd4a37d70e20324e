SPECIFICATION Spec
CONSTANTS
  c1 = c1
  c2 = c2
  app = app
  lib = lib
  appToo = appToo
  up = up
  x = x
  y = y
  Clients = {c1, c2}
  Keys = {app, lib, appToo, up}
  Contents = {x, y}
  Path <- MCPath
  NoPath = NoPath
  Maps <- MCMaps
  None = None
CONSTRAINT UntilOverlap
INVARIANTS
  TypeOK
  OneThread
PROPERTIES
  AtomicUntilOverlap
  Served
