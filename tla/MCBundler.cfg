SPECIFICATION Spec
CONSTANTS
  b1 = b1
  b2 = b2
  b3 = b3
  a2 = a2
  a1 = a1
  pkgA = pkgA
  pkgB = pkgB
  badPkg = badPkg
  Bundles = {b1, b2, b3}
  Adds = {a1, a2}
  Packages = {pkgA, pkgB, badPkg}
  Baked = {}
  Invalid = {badPkg}
  Declares <- MCDeclares
  Permits = 1
  MaxAutoInstalls = 2
  AutoInstall = TRUE
  MaxFaults = 1
INVARIANTS
  BuildsBounded
  WaitOnlyWhenFull
  InstallsSerial
  DepsResolve
  DirsOwned
PROPERTY Answered
