------------------------------ MODULE MCBundler ------------------------------
(***************************************************************************)
(* An instance of Bundler.tla for TLC: three builds and two installs, one  *)
(* of them of a package whose coordinates the service refuses.             *)
(***************************************************************************)
EXTENDS BundlerProperties, TLC

CONSTANTS b1, b2, b3, a1, a2, pkgA, pkgB, badPkg

MCDeclares ==
  b1 :> {pkgA, pkgB} @@ b2 :> {pkgA} @@ b3 :> {} @@ a1 :> {pkgB} @@ a2 :> {badPkg}
=============================================================================
